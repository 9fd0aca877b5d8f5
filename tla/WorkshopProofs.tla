----------------------------- MODULE WorkshopProofs -----------------------------
(***************************************************************************)
(* The question workshop and the division of its winners, for every value  *)
(* of the constants.                                                       *)
(*   WorkshopIntake    every question leaves stage A under its own label,  *)
(*                     served by a candidate.                              *)
(*   WorkshopLoop      no question is lost over the rounds, and the        *)
(*                     look-up for a text is bought in one round at most.  *)
(*   WorkshopGroups    every client question ends in a research group, and *)
(*                     no question the evidence raised goes missing.       *)
(*   ResearchDivision  trimming to the spend ceiling leaves no focus area  *)
(*                     without research and gives up needed copies last.   *)
(***************************************************************************)
EXTENDS WorkshopIntake, WorkshopLoop, WorkshopGroups, ResearchDivision, Counting

---------------------------------------------------------------------------
(* Stage A (WorkshopIntake).  Labels are given one after the other, each new; *)
(* every question's first candidate outlives the ceiling, because only first  *)
(* candidates of other questions come before it; and the first of a cluster   *)
(* serves every question its members served.                                  *)
Distinct(s) == \A i, j \in DOMAIN s : s[i] = s[j] => i = j
Serves(cs, l) == \E k \in DOMAIN cs : l \in cs[k].parents
StageACandidate == [index : Nat, parents : SUBSET LabelSet, source : {"model", "aspect_repair", "verbatim"}]
IntakeInv ==
    /\ questions \in Seq(Range(questions)) /\ Distinct(questions)
    /\ iphase = "generate" => aspects \in [LabelSet -> 0 .. MaxAspects]
    /\ iphase = "cluster" => \E m \in Nat : candidates \in [1 .. m -> StageACandidate]
    /\ iphase \in {"cluster", "intake_done"} => \A l \in LabelSet : Serves(candidates, l)

(* As many suffixes as one more than there are labels: one of them is new.    *)
LEMMA SuffixFresh ==
  ASSUME NEW in \in Briefs, NEW base \in Range(Entries(in)),
         NEW X, NEW out \in Seq(X), Len(out) < Len(Entries(in))
  PROVE  \E n \in 1 .. Len(Entries(in)) :
            Suffixed(base, out) = LabelWith(base, n) /\ LabelWith(base, n) \notin Range(out)
<1> DEFINE listed == Entries(in)
           L     == Len(out)
           Free  == {n \in 1 .. (L + 1) : LabelWith(base, n) \notin Range(out)}
           Fits(n) == n \in 1 .. (L + 1) /\ LabelWith(base, n) \notin Range(out)
                      /\ \A m \in 1 .. (n - 1) : LabelWith(base, m) \in Range(out)
<1>1. L \in Nat /\ DOMAIN out = 1 .. L /\ Len(listed) \in Nat /\ L < Len(listed)
  <2>1. listed \in Seq(Range(listed))
    BY IntakeAssumption
  <2> QED BY <2>1, LenProperties
<1>2. \A m, n \in 1 .. Len(listed) : LabelWith(base, m) = LabelWith(base, n) => m = n
  BY IntakeAssumption
<1> HIDE DEF L, listed
<1>3. Free # {}
  <2>1. SUFFICES ASSUME Free = {} PROVE FALSE
    OBVIOUS
  <2> DEFINE f == [n \in 1 .. (L + 1) |-> CHOOSE p \in 1 .. L : out[p] = LabelWith(base, n)]
  <2>2. \A n \in 1 .. (L + 1) : f[n] \in 1 .. L /\ out[f[n]] = LabelWith(base, n)
    <3>1. ASSUME NEW n \in 1 .. (L + 1) PROVE \E p \in 1 .. L : out[p] = LabelWith(base, n)
      <4>1. LabelWith(base, n) \in Range(out)
        BY <2>1
      <4> QED BY <4>1, <1>1 DEF Range
    <3> QED BY <3>1
  <2>3. f \in [1 .. (L + 1) -> 1 .. L]
    BY <2>2
  <2> HIDE DEF f
  <2>4. IsFiniteSet(1 .. L) /\ IsFiniteSet(1 .. (L + 1)) /\ Cardinality(1 .. L) < Cardinality(1 .. (L + 1))
    <3>1. IsFiniteSet(1 .. L) /\ Cardinality(1 .. L) = L
      BY <1>1, FS_Interval
    <3>2. IsFiniteSet(1 .. (L + 1)) /\ Cardinality(1 .. (L + 1)) = L + 1
      BY <1>1, FS_Interval
    <3> QED BY <3>1, <3>2, <1>1
  <2>5. PICK x, y \in 1 .. (L + 1) : x # y /\ f[x] = f[y]
    BY <2>3, <2>4, FS_PigeonHole
  <2>6. x \in 1 .. Len(listed) /\ y \in 1 .. Len(listed)
    BY <1>1
  <2> QED BY <1>2, <2>2, <2>5, <2>6
<1>4. PICK u \in Free : \A v \in Free : u <= v
  <2>1. Free \in SUBSET Nat
    OBVIOUS
  <2> HIDE DEF Free
  <2> QED BY <1>3, <2>1, LeastExists
<1>5. Fits(u)
  <2>1. ASSUME NEW m \in 1 .. (u - 1) PROVE LabelWith(base, m) \in Range(out)
    BY <1>1, <1>4
  <2> QED BY <1>4, <2>1
<1>6. Suffixed(base, out) = LabelWith(base, CHOOSE n : Fits(n))
  BY DEF Suffixed, L
<1>7. Fits(CHOOSE n : Fits(n))
  <2> HIDE DEF Fits
  <2> QED BY <1>5
<1>8. PICK c : c = CHOOSE n : Fits(n)
  OBVIOUS
<1>9. c \in 1 .. (L + 1) /\ LabelWith(base, c) \notin Range(out)
  BY <1>7, <1>8
<1>10. c \in 1 .. Len(listed)
  BY <1>1, <1>9
<1> QED BY <1>6, <1>8, <1>9, <1>10 DEF listed

LEMMA ListOfItsOwn ==
  ASSUME NEW X, NEW s \in Seq(X)
  PROVE  s \in Seq(Range(s)) /\ Len(s) \in Nat /\ DOMAIN s = 1 .. Len(s)
<1>1. s \in [1 .. Len(s) -> X] /\ Len(s) \in Nat
  BY LenProperties
<1>2. s \in [1 .. Len(s) -> Range(s)]
  BY <1>1 DEF Range
<1> QED BY <1>1, <1>2, SeqDef

LEMMA LabelsDistinct ==
  ASSUME NEW in \in Briefs
  PROVE  NormaliseQuestions(in) \in Seq(Range(NormaliseQuestions(in))) /\ Distinct(NormaliseQuestions(in))
<1> DEFINE listed == Entries(in)
           n == Len(listed)
           U == {LabelWith(b, m) : b \in Range(listed), m \in Nat}
           T == {s \in Seq(U) : Len(s) <= n}
           Then(k, s) == Append(s, Suffixed(listed[k], s))
           step == [k \in 1 .. n |-> [s \in T |-> IF Len(s) < n THEN Then(k, s) ELSE s]]
           Is(f) == f = [k \in 0 .. n |-> IF k = 0 THEN <<>> ELSE Then(k, f[k - 1])]
<1>1. listed \in Seq(Range(listed)) /\ n \in Nat /\ DOMAIN listed = 1 .. n
  <2>1. listed \in Seq(Range(listed))
    BY IntakeAssumption
  <2> QED BY <2>1, LenProperties
<1>2. ASSUME NEW k \in 1 .. n, NEW s \in T, Len(s) < n
      PROVE  Then(k, s) \in T /\ Len(Then(k, s)) = Len(s) + 1 /\ (Distinct(s) => Distinct(Then(k, s)))
  <2> DEFINE e == Suffixed(listed[k], s)
  <2>1. listed[k] \in Range(listed)
    BY <1>1 DEF Range
  <2>2. s \in Seq(U) /\ Len(s) \in Nat /\ DOMAIN s = 1 .. Len(s)
    BY LenProperties
  <2>3. PICK m \in 1 .. n : e = LabelWith(listed[k], m) /\ e \notin Range(s)
    BY <1>2, <2>1, <2>2, SuffixFresh
  <2>4. e \in U
    BY <2>1, <2>3
  <2> HIDE DEF U, e
  <2>5. /\ Append(s, e) \in Seq(U) /\ Len(Append(s, e)) = Len(s) + 1
        /\ Append(s, e)[Len(s) + 1] = e /\ \A j \in 1 .. Len(s) : Append(s, e)[j] = s[j]
    BY <2>2, <2>4, AppendProperties
  <2>6. Distinct(s) => Distinct(Append(s, e))
    <3>1. DOMAIN Append(s, e) = 1 .. Len(s) + 1
      BY <2>5, LenProperties
    <3>2. \A j \in 1 .. Len(s) : s[j] # e
      BY <2>2, <2>3 DEF Range
    <3> QED BY <2>2, <2>5, <3>1, <3>2 DEF Distinct
  <2> QED BY <1>1, <1>2, <2>2, <2>5, <2>6 DEF e
<1>3. step \in [1 .. n -> [T -> T]]
  BY <1>2
<1>4. <<>> \in T /\ Len(<<>>) = 0 /\ Distinct(<<>>)
  BY <1>1, EmptySeq DEF Distinct
<1>5. \A k \in 1 .. n, s \in T : Len(s) < n => step[k][s] = Then(k, s)
  OBVIOUS
<1>6. LabelsUpTo(listed) = CHOOSE f : Is(f)
  BY DEF LabelsUpTo
<1> HIDE DEF T, n, step, Then
<1>7. PICK g : Runs(g, T, <<>>, n, step)
  BY <1>1, <1>3, <1>4, RecursionExists
<1> DEFINE Good(f) == f[0] = <<>> /\ \A k \in 1 .. n : f[k - 1] \in T /\ Len(f[k - 1]) < n => f[k] = Then(k, f[k - 1])
<1>8. ASSUME NEW f, Good(f), NEW j \in 0 .. n
      PROVE  f[j] \in T /\ Len(f[j]) = j /\ Distinct(f[j])
  <2> DEFINE S == {k \in 0 .. n : f[k] \in T /\ Len(f[k]) = k /\ Distinct(f[k])}
  <2>1. ASSUME NEW k \in 1 .. n, k - 1 \in S
        PROVE  k \in S
    <3>1. PICK s : s = f[k - 1] /\ s \in T /\ Len(s) = k - 1 /\ Distinct(s) /\ k - 1 < n
      BY <1>1, <2>1
    <3>2. f[k] = Then(k, s)
      BY <1>8, <3>1
    <3>3. Then(k, s) \in T /\ Len(Then(k, s)) = Len(s) + 1 /\ Distinct(Then(k, s))
      BY <1>2, <3>1
    <3>4. Len(Then(k, s)) = k
      BY <3>1, <3>3
    <3> QED BY <3>2, <3>3, <3>4
  <2>2. 0 \in S
    BY <1>1, <1>4, <1>8
  <2>3. j \in S
    <3> HIDE DEF S
    <3> QED BY <1>1, <2>1, <2>2, Induction
  <2> QED BY <2>3
<1>9. Good(g)
  BY <1>5, <1>7 DEF Runs
<1>10. Is(g)
  <2>1. ASSUME NEW k \in 1 .. n PROVE g[k] = Then(k, g[k - 1])
    <3>1. k - 1 \in 0 .. n /\ k - 1 < n
      BY <1>1
    <3>2. g[k - 1] \in T /\ Len(g[k - 1]) = k - 1
      <4> HIDE DEF Good
      <4> QED BY <1>8, <1>9, <3>1
    <3> QED BY <1>9, <3>1, <3>2
  <2> QED BY <1>7, <2>1 DEF Runs
<1> DEFINE h == LabelsUpTo(listed)
<1>11. Is(h)
  <2> HIDE DEF Is
  <2> QED BY <1>6, <1>10
<1> HIDE DEF h
<1>12. Good(h)
  BY <1>1, <1>11
<1>13. h[n] \in T /\ Distinct(h[n])
  <2> HIDE DEF Good
  <2> QED BY <1>1, <1>8, <1>12
<1>14. h[n] \in Seq(Range(h[n]))
  <2>1. h[n] \in Seq(U)
    BY <1>13 DEF T
  <2> HIDE DEF U, n
  <2> QED BY <2>1, ListOfItsOwn
<1> QED BY <1>13, <1>14 DEF NormaliseQuestions, h, n

(* As many labels as questions.                                               *)
LEMMA DistinctCounted ==
  ASSUME NEW s, s \in Seq(Range(s)), Distinct(s)
  PROVE  IsFiniteSet(Range(s)) /\ Cardinality(Range(s)) = Len(s)
<1>1. s \in [1 .. Len(s) -> Range(s)] /\ Len(s) \in Nat /\ DOMAIN s = 1 .. Len(s)
  BY LenProperties
<1>2. s \in Surjection(1 .. Len(s), Range(s)) /\ s \in Injection(1 .. Len(s), Range(s))
  BY <1>1 DEF Surjection, Injection, IsInjective, Distinct, Range
<1>3. IsFiniteSet(1 .. Len(s)) /\ Cardinality(1 .. Len(s)) = Len(s)
  BY <1>1, UpToCounted
<1> QED BY <1>2, <1>3, FS_Surjection

(* Every question has a candidate of its own before the ceiling.              *)
Own == [parents : {{l} : l \in LabelSet}, source : {"model", "aspect_repair", "verbatim"}]
LEMMA OwnCandidates ==
  ASSUME IntakeInv, aspects \in [LabelSet -> 0 .. MaxAspects],
         NEW answers \in [LabelSet -> RowAnswers], NEW l \in LabelSet
  PROVE  /\ CandidatesOf(answers[l], l) \in Seq(Own)
         /\ 1 \in DOMAIN CandidatesOf(answers[l], l)
         /\ CandidatesOf(answers[l], l)[1].parents = {l}
<1>1. ASSUME NEW n \in Nat, NEW src \in {"model", "aspect_repair", "verbatim"}
      PROVE  /\ Made(l, src, n) \in Seq(Own) /\ Len(Made(l, src, n)) = n
             /\ n > 0 => Made(l, src, n)[1].parents = {l}
  <2>1. Made(l, src, n) \in [1 .. n -> Own] /\ (n > 0 => Made(l, src, n)[1].parents = {l})
    BY DEF Made, Own
  <2> HIDE DEF Own
  <2> QED BY <2>1, SeqDef, LenProperties
<1> DEFINE answer == answers[l]
           more   == RepairUncoveredAspects(answer, l)
<1>2. answer \in Seq(Range(answer))
  BY IntakeAssumption
<1>3. more \in Nat
  <2>1. aspects[l] \in Nat /\ MaxAspects \in Nat
    BY IntakeAssumption
  <2>2. IsFiniteSet(1 .. aspects[l]) /\ Cardinality(1 .. aspects[l]) = aspects[l]
    BY <2>1, FS_Interval
  <2>3. ParseRows(answer, l) \in SUBSET (1 .. aspects[l])
    BY DEF ParseRows
  <2>4. Cardinality(ParseRows(answer, l)) <= aspects[l] /\ Cardinality(ParseRows(answer, l)) \in Nat
    BY <2>2, <2>3, FS_Subset, FS_CardinalityType
  <2> QED BY <2>1, <2>4 DEF RepairUncoveredAspects
<1>4. CASE answer = <<>>
  <2>1. CandidatesOf(answer, l) = Made(l, "verbatim", 1)
    BY <1>4 DEF CandidatesOf
  <2>2. 1 \in Nat /\ 1 > 0 /\ "verbatim" \in {"model", "aspect_repair", "verbatim"}
    OBVIOUS
  <2>3. Made(l, "verbatim", 1) \in Seq(Own) /\ Len(Made(l, "verbatim", 1)) = 1 /\ Made(l, "verbatim", 1)[1].parents = {l}
    BY <1>1, <2>2, Zenon
  <2> QED BY <2>1, <2>3, LenProperties
<1>5. CASE answer # <<>>
  <2> DEFINE a == Made(l, "model", Len(answer))
             b == Made(l, "aspect_repair", more)
  <2>1. Len(answer) \in Nat \ {0}
    BY <1>2, <1>5, LenProperties, EmptySeq
  <2>2. CandidatesOf(answer, l) = a \o b
    BY <1>5 DEF CandidatesOf
  <2>3. a \in Seq(Own) /\ Len(a) = Len(answer) /\ a[1].parents = {l}
    <3>1. Len(answer) \in Nat /\ Len(answer) > 0 /\ "model" \in {"model", "aspect_repair", "verbatim"}
      BY <2>1
    <3> QED BY <1>1, <3>1, Zenon
  <2>4. b \in Seq(Own) /\ Len(b) \in Nat
    BY <1>1, <1>3
  <2> HIDE DEF a, b
  <2>5. a \o b \in Seq(Own) /\ Len(a \o b) = Len(a) + Len(b) /\ (a \o b)[1] = a[1]
    <3>1. /\ a \o b \in Seq(Own) /\ Len(a \o b) = Len(a) + Len(b)
          /\ \A j \in 1 .. Len(a) + Len(b) : (a \o b)[j] = IF j <= Len(a) THEN a[j] ELSE b[j - Len(a)]
      BY <2>3, <2>4, ConcatProperties
    <3>2. 1 \in 1 .. Len(a) + Len(b) /\ 1 <= Len(a)
      BY <2>1, <2>3, <2>4
    <3> QED BY <3>1, <3>2
  <2>6. 1 \in DOMAIN (a \o b)
    BY <2>1, <2>3, <2>4, <2>5, LenProperties
  <2> QED BY <2>2, <2>3, <2>5, <2>6
<1> QED BY <1>4, <1>5

LEMMA MadeServes ==
  ASSUME IntakeInv, aspects \in [LabelSet -> 0 .. MaxAspects],
         NEW answers \in [LabelSet -> RowAnswers]
  PROVE  /\ MadeUpTo(answers)[Len(questions)] \in Seq(Own)
         /\ \A l \in LabelSet : \E p \in DOMAIN MadeUpTo(answers)[Len(questions)] :
               MadeUpTo(answers)[Len(questions)][p].parents = {l}
<1> DEFINE n == Len(questions)
           T == Seq(Own)
           Of(k) == CandidatesOf(answers[questions[k]], questions[k])
           Then(k, s) == s \o Of(k)
           step == [k \in 1 .. n |-> [s \in T |-> Then(k, s)]]
           Is(f) == f = [k \in 0 .. n |-> IF k = 0 THEN <<>> ELSE Then(k, f[k - 1])]
           Good(f) == f[0] = <<>> /\ \A k \in 1 .. n : f[k - 1] \in T => f[k] = Then(k, f[k - 1])
           Done(f, k) == f[k] \in T /\ \A j \in 1 .. k : \E p \in DOMAIN f[k] : f[k][p].parents = {questions[j]}
<1>1. n \in Nat /\ DOMAIN questions = 1 .. n /\ LabelSet = {questions[k] : k \in 1 .. n}
  BY LenProperties DEF IntakeInv, LabelSet, Range
<1>2. ASSUME NEW k \in 1 .. n
      PROVE  Of(k) \in T /\ 1 \in DOMAIN Of(k) /\ Of(k)[1].parents = {questions[k]}
  BY ZenonT(40), <1>1, OwnCandidates
<1> HIDE DEF Own, Of
<1>3. ASSUME NEW k \in 1 .. n, NEW s \in T
      PROVE  /\ Then(k, s) \in T
             /\ \E p \in DOMAIN Then(k, s) : Then(k, s)[p].parents = {questions[k]}
             /\ \A p \in DOMAIN s : p \in DOMAIN Then(k, s) /\ Then(k, s)[p] = s[p]
  <2> DEFINE o == Of(k)
  <2>1. o \in T /\ Len(o) \in Nat /\ 1 \in 1 .. Len(o) /\ o[1].parents = {questions[k]} /\ Len(s) \in Nat /\ DOMAIN s = 1 .. Len(s)
    BY <1>2, LenProperties
  <2> HIDE DEF o
  <2>2. /\ s \o o \in T /\ Len(s \o o) = Len(s) + Len(o)
        /\ \A j \in 1 .. Len(s) + Len(o) : (s \o o)[j] = IF j <= Len(s) THEN s[j] ELSE o[j - Len(s)]
    BY <2>1, ConcatProperties
  <2>3. DOMAIN (s \o o) = 1 .. Len(s) + Len(o)
    BY <2>2, LenProperties
  <2>4. Len(s) + 1 \in DOMAIN (s \o o) /\ (s \o o)[Len(s) + 1] = o[1]
    BY <2>1, <2>2, <2>3
  <2>5. ASSUME NEW p \in DOMAIN s PROVE p \in DOMAIN (s \o o) /\ (s \o o)[p] = s[p]
    BY <2>1, <2>2, <2>3
  <2> QED BY <2>1, <2>2, <2>4, <2>5 DEF o
<1>4. step \in [1 .. n -> [T -> T]] /\ \A k \in 1 .. n, s \in T : step[k][s] = Then(k, s)
  BY <1>3
<1>5. <<>> \in T
  BY EmptySeq
<1>6. MadeUpTo(answers) = CHOOSE f : Is(f)
  BY DEF MadeUpTo, Of
<1> HIDE DEF T, n, step, Then
<1>7. PICK g : Runs(g, T, <<>>, n, step)
  BY <1>1, <1>4, <1>5, RecursionExists
<1>8. ASSUME NEW f, Good(f), NEW j \in 0 .. n
      PROVE  Done(f, j)
  <2> DEFINE S == {k \in 0 .. n : Done(f, k)}
  <2>1. ASSUME NEW k \in 1 .. n, k - 1 \in S
        PROVE  k \in S
    <3>1. PICK s : s = f[k - 1]
      OBVIOUS
    <3>2. s \in T /\ \A i \in 1 .. k - 1 : \E p \in DOMAIN s : s[p].parents = {questions[i]}
      BY <2>1, <3>1
    <3>3. f[k] = Then(k, s)
      BY <1>8, <3>1, <3>2
    <3>4. ASSUME NEW i \in 1 .. k PROVE \E p \in DOMAIN Then(k, s) : Then(k, s)[p].parents = {questions[i]}
      <4>1. CASE i = k
        <5>1. \E p \in DOMAIN Then(k, s) : Then(k, s)[p].parents = {questions[k]}
          BY <1>3, <3>2
        <5> QED BY <4>1, <5>1
      <4>2. CASE i # k
        <5>1. i \in 1 .. k - 1
          BY <1>1, <4>2
        <5>2. PICK p \in DOMAIN s : s[p].parents = {questions[i]}
          BY <3>2, <5>1
        <5> QED BY <1>3, <3>2, <5>2
      <4> QED BY <4>1, <4>2
    <3>5. Then(k, s) \in T /\ k \in 0 .. n
      BY <1>1, <1>3, <3>2
    <3> QED BY <3>3, <3>4, <3>5
  <2>2. 0 \in S
    BY <1>1, <1>5, <1>8
  <2>3. j \in S
    <3> HIDE DEF S
    <3> QED BY <1>1, <2>1, <2>2, Induction
  <2> QED BY <2>3
<1>9. Good(g)
  BY <1>4, <1>7 DEF Runs
<1>10. Is(g)
  <2>1. ASSUME NEW k \in 1 .. n PROVE g[k] = Then(k, g[k - 1])
    <3>1. g[k - 1] \in T
      BY <1>1, <1>7 DEF Runs
    <3> QED BY <1>9, <3>1
  <2> QED BY <1>7, <2>1 DEF Runs
<1> DEFINE h == MadeUpTo(answers)
<1>11. Is(h)
  <2> HIDE DEF Is
  <2> QED BY <1>6, <1>10
<1> HIDE DEF h
<1>12. Good(h)
  BY <1>1, <1>11
<1>13. Done(h, n)
  <2> HIDE DEF Good, Done
  <2> QED BY <1>1, <1>8, <1>12
<1> QED BY <1>1, <1>13 DEF h, n, T

(* Before a question's first candidate come first candidates of others only.  *)
LEMMA TrimKeeps ==
  ASSUME NEW cs \in Seq(Own), NEW limit \in Nat, IsFiniteSet(LabelSet), Cardinality(LabelSet) <= limit
  PROVE  /\ \E m \in Nat : TrimRoundRobin(cs, limit) \in [1 .. m -> Own]
         /\ \A l \in LabelSet, p \in DOMAIN cs : cs[p].parents = {l} =>
               \E n \in DOMAIN TrimRoundRobin(cs, limit) : TrimRoundRobin(cs, limit)[n].parents = {l}
<1> DEFINE Same(k) == {j \in 1 .. k : cs[j].parents = cs[k].parents}
           D(k) == DepthOf(cs, k)
           Earlier(j, k) == D(j) < D(k) \/ (D(j) = D(k) /\ j < k)
           Ahead(k) == {j \in DOMAIN cs : Earlier(j, k)}
           keeps == {k \in DOMAIN cs : Cardinality(Ahead(k)) < limit}
           up == [n \in 1 .. Cardinality(keeps) |-> CHOOSE k \in keeps : Cardinality({j \in keeps : j < k}) = n - 1]
<1>1. Len(cs) \in Nat /\ DOMAIN cs = 1 .. Len(cs) /\ IsFiniteSet(1 .. Len(cs))
  BY LenProperties, UpToCounted
<1>2. TrimRoundRobin(cs, limit) = [n \in 1 .. Cardinality(keeps) |-> cs[up[n]]]
  BY DEF TrimRoundRobin
<1>3. /\ Cardinality(keeps) \in Nat /\ up \in [1 .. Cardinality(keeps) -> keeps]
      /\ \A k \in keeps : \E n \in 1 .. Cardinality(keeps) : up[n] = k
  <2>1. keeps \in SUBSET (1 .. Len(cs)) /\ keeps \in SUBSET Nat
    BY <1>1
  <2> HIDE DEF keeps
  <2>2. IsFiniteSet(keeps)
    BY <1>1, <2>1, FS_Subset
  <2> QED BY <2>1, <2>2, Ascends
<1>4. ASSUME NEW k \in DOMAIN cs
      PROVE  D(k) = Cardinality(Same(k)) /\ IsFiniteSet(Same(k)) /\ k \in Same(k) /\ D(k) \in Nat /\ D(k) >= 1
  <2>1. k \in Nat /\ k \in 1 .. k
    BY <1>1
  <2>2. D(k) = Cardinality(Same(k)) /\ k \in Same(k)
    BY <2>1 DEF DepthOf
  <2>3. IsFiniteSet(Same(k))
    <3>1. Same(k) \in SUBSET (1 .. k) /\ IsFiniteSet(1 .. k)
      BY <2>1, UpToCounted
    <3> HIDE DEF Same
    <3> QED BY <3>1, FS_Subset
  <2>4. {k} \in SUBSET Same(k)
    BY <2>2
  <2> HIDE DEF Same, D
  <2>5. Cardinality({k}) <= Cardinality(Same(k)) /\ Cardinality({k}) = 1 /\ Cardinality(Same(k)) \in Nat
    BY <2>3, <2>4, FS_Subset, FS_Singleton, FS_CardinalityType
  <2> QED BY <2>2, <2>3, <2>5
<1>5. ASSUME NEW l \in LabelSet, NEW p \in DOMAIN cs, cs[p].parents = {l}
      PROVE  \E n \in 1 .. Cardinality(keeps) : cs[up[n]].parents = {l}
  <2> DEFINE Mine == {k \in DOMAIN cs : cs[k].parents = {l}}
  <2>1. PICK k \in Mine : \A j \in Mine : k <= j
    <3>1. Mine \in SUBSET Nat /\ Mine # {}
      BY <1>1, <1>5
    <3> HIDE DEF Mine
    <3> QED BY <3>1, LeastExists
  <2>2. k \in DOMAIN cs /\ k \in 1 .. Len(cs) /\ cs[k].parents = {l} /\ \A j \in 1 .. Len(cs) : cs[j].parents = {l} => k <= j
    BY <1>1, <2>1
  <2>3. D(k) = 1
    <3>1. Same(k) = {k}
      BY <1>1, <2>2
    <3> HIDE DEF Same, D
    <3> QED BY <1>4, <2>2, <3>1, FS_Singleton
  <2>4. ASSUME NEW j \in Ahead(k)
        PROVE  j \in 1 .. Len(cs) /\ D(j) = 1 /\ cs[j].parents # {l} /\ j < k
    <3>1. j \in 1 .. Len(cs) /\ D(j) \in Nat /\ D(j) >= 1
      BY <1>1, <1>4
    <3>2. D(j) = 1 /\ j < k
      <4>1. Earlier(j, k)
        OBVIOUS
      <4> HIDE DEF D
      <4> QED BY <2>3, <3>1, <4>1
    <3>3. cs[j].parents # {l}
      BY <2>2, <3>1, <3>2
    <3> QED BY <3>1, <3>2, <3>3
  <2>5. ASSUME NEW i \in Ahead(k), NEW j \in Ahead(k), cs[i].parents = cs[j].parents
        PROVE  i = j
    <3>1. i \in 1 .. Len(cs) /\ j \in 1 .. Len(cs) /\ D(i) = 1 /\ D(j) = 1
      BY <2>4
    <3>2. ASSUME NEW a \in 1 .. Len(cs), NEW b \in 1 .. Len(cs), D(b) = 1, a <= b, cs[a].parents = cs[b].parents
          PROVE  a = b
      <4>1. a \in Same(b) /\ b \in Same(b)
        BY <3>2
      <4> HIDE DEF Same, D
      <4>2. Cardinality(Same(b)) = 1 /\ IsFiniteSet(Same(b))
        BY <1>1, <1>4, <3>2
      <4>3. PICK x : Same(b) = {x}
        BY <4>2, FS_Singleton
      <4> QED BY <4>1, <4>3
    <3>3. i <= j \/ j <= i
      BY <3>1
    <3> HIDE DEF D
    <3> QED BY <2>5, <3>1, <3>2, <3>3
  <2> DEFINE P == {{m} : m \in LabelSet}
             f == [j \in Ahead(k) |-> cs[j].parents]
             one == [m \in LabelSet |-> {m}]
  <2>6. IsFiniteSet(P) /\ Cardinality(P) <= Cardinality(LabelSet) /\ Cardinality(P) \in Nat
    <3>1. one \in Surjection(LabelSet, P)
      BY DEF Surjection
    <3> HIDE DEF one, P
    <3> QED BY <3>1, FS_Surjection, FS_CardinalityType
  <2>7. f \in Injection(Ahead(k), P \ {{l}})
    <3>1. ASSUME NEW j \in Ahead(k) PROVE f[j] = cs[j].parents /\ f[j] \in P \ {{l}}
      <4>1. cs[j] \in Own
        BY <1>1, <2>4
      <4> QED BY <2>4, <4>1 DEF Own
    <3> HIDE DEF P, Ahead
    <3>2. f \in [Ahead(k) -> P \ {{l}}]
      BY <3>1
    <3>3. \A i, j \in Ahead(k) : f[i] = f[j] => i = j
      BY <2>5, <3>1
    <3> HIDE DEF f
    <3> QED BY <3>2, <3>3 DEF Injection, IsInjective
  <2>8. Cardinality(Ahead(k)) < limit
    <3>1. {l} \in P
      OBVIOUS
    <3> HIDE DEF P, f, Ahead
    <3>2. IsFiniteSet(P \ {{l}}) /\ Cardinality(P \ {{l}}) = Cardinality(P) - 1
      BY <2>6, <3>1, FS_RemoveElement
    <3>3. IsFiniteSet(Ahead(k)) /\ Cardinality(Ahead(k)) <= Cardinality(P) - 1 /\ Cardinality(Ahead(k)) \in Nat
      BY <2>7, <3>2, FS_Injection, FS_CardinalityType
    <3>4. Cardinality(LabelSet) \in Nat
      BY FS_CardinalityType
    <3> QED BY <2>6, <3>3, <3>4
  <2>9. k \in keeps
    BY <2>2, <2>8
  <2> HIDE DEF keeps, up, D
  <2> QED BY <1>3, <2>2, <2>9
<1>6. TrimRoundRobin(cs, limit) \in [1 .. Cardinality(keeps) -> Own]
  <2>1. \A n \in 1 .. Cardinality(keeps) : up[n] \in DOMAIN cs
    <3>1. \A k \in keeps : k \in DOMAIN cs
      OBVIOUS
    <3> HIDE DEF keeps, up
    <3> QED BY <1>3, <3>1
  <2>2. \A p \in DOMAIN cs : cs[p] \in Own
    BY <1>1
  <2> HIDE DEF keeps, up, Own
  <2> QED BY <1>2, <2>1, <2>2
<1> DEFINE t == TrimRoundRobin(cs, limit)
<1>7. DOMAIN t = 1 .. Cardinality(keeps) /\ \A n \in 1 .. Cardinality(keeps) : t[n] = cs[up[n]]
  <2> HIDE DEF keeps, up
  <2> QED BY <1>2
<1> HIDE DEF keeps, up, t
<1>8. \A l \in LabelSet, p \in DOMAIN cs : cs[p].parents = {l} => \E n \in DOMAIN t : t[n].parents = {l}
  BY <1>5, <1>7
<1> QED BY <1>3, <1>6, <1>8 DEF t

LEMMA RepresentativesServe ==
  ASSUME NEW cids, NEW m \in Nat, candidates \in [1 .. m -> StageACandidate], NEW l, Serves(candidates, l)
  PROVE  Serves(Representatives(cids), l)
<1> DEFINE Mates(k) == {j \in DOMAIN candidates : ClusterKey(cids, j) = ClusterKey(cids, k)}
           first == {k \in DOMAIN candidates : \A j \in Mates(k) : k <= j}
           up == [n \in 1 .. Cardinality(first) |-> CHOOSE k \in first : Cardinality({j \in first : j < k}) = n - 1]
           All(k) == UNION {candidates[j].parents : j \in Mates(k)}
<1>1. Representatives(cids) = [n \in 1 .. Cardinality(first) |-> [candidates[up[n]] EXCEPT !.parents = All(up[n])]]
  BY DEF Representatives
<1>2. PICK k \in DOMAIN candidates : l \in candidates[k].parents
  BY DEF Serves
<1>3. PICK i \in Mates(k) : \A j \in Mates(k) : i <= j
  <2>1. Mates(k) \in SUBSET Nat /\ Mates(k) # {}
    BY <1>2
  <2> HIDE DEF Mates
  <2> QED BY <2>1, LeastExists
<1>4. Mates(i) = Mates(k) /\ i \in first
  BY <1>3
<1>5. \A j \in first : \E n \in 1 .. Cardinality(first) : up[n] = j
  <2>1. first \in SUBSET Nat /\ first \in SUBSET DOMAIN candidates
    OBVIOUS
  <2> HIDE DEF first
  <2>2. IsFiniteSet(first)
    BY <2>1, UpToCounted, FS_Subset
  <2> QED BY <2>1, <2>2, Ascends
<1>6. PICK n \in 1 .. Cardinality(first) : up[n] = i
  BY <1>4, <1>5
<1>7. l \in All(i)
  BY <1>2, <1>4
<1>8. n \in 1 .. Cardinality(first) /\ candidates[i] \in StageACandidate
  BY <1>3, <1>6
<1>9. [candidates[i] EXCEPT !.parents = All(i)].parents = All(i)
  <2> HIDE DEF All
  <2> QED BY <1>8 DEF StageACandidate
<1>10. n \in DOMAIN Representatives(cids) /\ Representatives(cids)[n] = [candidates[i] EXCEPT !.parents = All(i)]
  <2> HIDE DEF first, up, All
  <2> QED BY <1>1, <1>6, <1>8
<1> HIDE DEF All, up, first
<1> QED BY <1>7, <1>9, <1>10 DEF Serves

(* One step of stage A.                                                       *)
LEMMA IntakeStep ==
  ASSUME IntakeInv, [INext]_ivars
  PROVE  IntakeInv'
<1>1. CASE Normalise
  <2>1. PICK in \in Briefs : questions' = NormaliseQuestions(in)
    BY <1>1 DEF Normalise
  <2>2. NormaliseQuestions(in) \in Seq(Range(NormaliseQuestions(in))) /\ Distinct(NormaliseQuestions(in))
    BY LabelsDistinct
  <2>3. iphase' = "orient"
    BY <1>1 DEF Normalise
  <2> QED BY <2>1, <2>2, <2>3 DEF IntakeInv
<1>2. ASSUME UNCHANGED <<questions, aspects, candidates>>, iphase' \in {iphase, "decompose"}
      PROVE  IntakeInv'
  BY <1>2 DEF IntakeInv, LabelSet, StageACandidate, Serves
<1>3. CASE \E l \in DOMAIN oriented : StartOrientation(l) \/ OneOrientation(l)
  BY <1>2, <1>3 DEF StartOrientation, OneOrientation
<1>4. CASE RunOrientation
  BY <1>2, <1>4 DEF RunOrientation
<1>5. CASE DecomposeQuestions
  <2>1. iphase' = "generate" /\ UNCHANGED <<questions, candidates>> /\ aspects' \in [LabelSet -> 0 .. MaxAspects]
    BY <1>5 DEF DecomposeQuestions, ParseAspects
  <2> QED BY <2>1 DEF IntakeInv, LabelSet
<1>6. CASE GenerateCandidates
  <2>1. iphase = "generate" /\ iphase' = "cluster" /\ UNCHANGED <<questions, aspects>>
    BY <1>6 DEF GenerateCandidates
  <2>2. PICK answers \in [LabelSet -> RowAnswers] :
          candidates' = [k \in DOMAIN TrimRoundRobin(MadeUpTo(answers)[Len(questions)], CandidateCap) |->
            [index |-> k - 1,
             parents |-> TrimRoundRobin(MadeUpTo(answers)[Len(questions)], CandidateCap)[k].parents,
             source |-> TrimRoundRobin(MadeUpTo(answers)[Len(questions)], CandidateCap)[k].source]]
    BY <1>6 DEF GenerateCandidates
  <2>3. aspects \in [LabelSet -> 0 .. MaxAspects]
    BY <2>1 DEF IntakeInv
  <2> DEFINE cs == MadeUpTo(answers)[Len(questions)]
             keeps == TrimRoundRobin(cs, CandidateCap)
  <2>4. cs \in Seq(Own) /\ \A l \in LabelSet : \E p \in DOMAIN cs : cs[p].parents = {l}
    BY <2>3, MadeServes
  <2>5. IsFiniteSet(LabelSet) /\ CandidateCap \in Nat /\ Cardinality(LabelSet) <= CandidateCap
    <3>1. IsFiniteSet(LabelSet)
      BY DistinctCounted DEF IntakeInv, LabelSet
    <3> QED BY <3>1, FS_CardinalityType, IntakeAssumption DEF CandidateCap
  <2> HIDE DEF cs
  <2>6. PICK m \in Nat : keeps \in [1 .. m -> Own]
    BY <2>4, <2>5, TrimKeeps
  <2>7. \A l \in LabelSet : \E n \in DOMAIN keeps : keeps[n].parents = {l}
    <3>1. \A l \in LabelSet, p \in DOMAIN cs : cs[p].parents = {l} => \E n \in DOMAIN keeps : keeps[n].parents = {l}
      BY <2>4, <2>5, TrimKeeps
    <3> HIDE DEF keeps
    <3> QED BY <2>4, <3>1
  <2>8. candidates' = [k \in DOMAIN keeps |-> [index |-> k - 1, parents |-> keeps[k].parents, source |-> keeps[k].source]]
    BY <2>2 DEF cs
  <2> HIDE DEF keeps
  <2>9. candidates' \in [1 .. m -> StageACandidate]
    <3>1. \A k \in 1 .. m : keeps[k] \in Own /\ k - 1 \in Nat
      BY <2>6
    <3>2. ASSUME NEW k \in 1 .. m
          PROVE  [index |-> k - 1, parents |-> keeps[k].parents, source |-> keeps[k].source] \in StageACandidate
      BY <3>1 DEF Own, StageACandidate
    <3> QED BY <2>6, <2>8, <3>2
  <2>10. LabelSet' = LabelSet /\ StageACandidate' = StageACandidate
    BY <2>1 DEF LabelSet, StageACandidate
  <2>11. \A l \in LabelSet : Serves(candidates', l)
    BY <2>7, <2>8 DEF Serves
  <2>12. \E k \in Nat : candidates' \in [1 .. k -> StageACandidate]
    BY <2>9
  <2> QED BY <2>1, <2>10, <2>11, <2>12 DEF IntakeInv
<1>7. CASE ClusterStageA
  <2>1. PICK cids \in [DOMAIN candidates -> {-1, 0, 1}] : candidates' = Representatives(cids)
    BY <1>7 DEF ClusterStageA
  <2>2. iphase = "cluster" /\ iphase' = "intake_done" /\ UNCHANGED <<questions, aspects>>
    BY <1>7 DEF ClusterStageA
  <2>3. PICK m \in Nat : candidates \in [1 .. m -> StageACandidate]
    BY <2>2 DEF IntakeInv
  <2>4. \A l \in LabelSet : Serves(candidates, l)
    BY <2>2 DEF IntakeInv
  <2>5. \A l \in LabelSet : Serves(Representatives(cids), l)
    BY <2>3, <2>4, RepresentativesServe
  <2>6. LabelSet' = LabelSet
    BY <2>2 DEF LabelSet
  <2> QED BY <2>1, <2>2, <2>5, <2>6 DEF IntakeInv
<1>8. CASE StageACrash
  <2>1. iphase' = "intake_done" /\ UNCHANGED <<questions, aspects>> /\ candidates' = VerbatimCandidates
    BY <1>8 DEF StageACrash
  <2>2. \A l \in LabelSet : Serves(VerbatimCandidates, l)
    BY DEF LabelSet, Range, Serves, VerbatimCandidates
  <2>3. LabelSet' = LabelSet
    BY <2>1 DEF LabelSet
  <2> QED BY <2>1, <2>2, <2>3 DEF IntakeInv
<1>9. CASE UNCHANGED ivars
  BY <1>2, <1>9 DEF ivars
<1> QED BY <1>1, <1>3, <1>4, <1>5, <1>6, <1>7, <1>8, <1>9 DEF INext

(* Whatever the model answers, however the ceiling trims and the clustering   *)
(* merges, and wherever the stage crashes, every question the caller asked    *)
(* leaves stage A under a label of its own that a candidate serves.           *)
THEOREM EveryQuestionHandedOverHolds == ISpec => []EveryQuestionHandedOver
<1>1. IInit => IntakeInv
  <2>1. <<>> \in Seq(Range(<<>>)) /\ Distinct(<<>>)
    BY EmptySeq DEF Distinct
  <2> QED BY <2>1 DEF IInit, IntakeInv
<1>2. IntakeInv /\ [INext]_ivars => IntakeInv'
  BY IntakeStep
<1>3. IntakeInv => EveryQuestionHandedOver
  BY DistinctCounted DEF IntakeInv, EveryQuestionHandedOver, Serves, LabelSet
<1> QED BY <1>1, <1>2, <1>3, PTL DEF ISpec

---------------------------------------------------------------------------
(* The loop (WorkshopLoop).  A text a look-up was bought for is admitted or   *)
(* barred in the same step, and neither is taken back within the loop.        *)
Remembered ==
    /\ "barred" \in DOMAIN register
    /\ \A t \in Texts : bought[t] # {} => t \in AlreadyBought
    /\ \A t \in Texts : bought[t] = {} \/ \E n \in bought[t] : bought[t] = {n}

LEMMA BarKeeps ==
  ASSUME NEW reg, "barred" \in DOMAIN reg, NEW texts, NEW cause
  PROVE  DOMAIN Bar(reg, texts, cause) = DOMAIN reg /\ DOMAIN Bar(reg, texts, cause).barred = DOMAIN reg.barred \cup texts
<1> DEFINE f == [t \in DOMAIN reg.barred \cup texts |-> IF t \in DOMAIN reg.barred THEN reg.barred[t] ELSE cause]
<1>1. Bar(reg, texts, cause) = [reg EXCEPT !.barred = f]
  BY DEF Bar
<1>2. DOMAIN f = DOMAIN reg.barred \cup texts
  OBVIOUS
<1> HIDE DEF f
<1> QED BY <1>1, <1>2

LEMMA CritiqueBars ==
  ASSUME "barred" \in DOMAIN register, NEW v, NEW back
  PROVE  "barred" \in DOMAIN BarTheCritique(v, back) /\ Barred \in SUBSET DOMAIN BarTheCritique(v, back).barred
<1> DEFINE killed == {i \in DOMAIN population : v[i] = "KILL"} \ back
           defect == {population[i].text : i \in {k \in killed : ~KillIsRestatement(k)}}
           weak   == {i \in DOMAIN population \ back : v[i] = "WEAK"}
           r1     == Bar(register, defect, "kill_defect")
           noted  == NoteWeakPass(r1, weak)
           twice  == {t \in {population[i].text : i \in weak} : noted.weak[t] >= 2}
<1>1. BarTheCritique(v, back) = Bar(noted, twice, "weak_twice")
  BY DEF BarTheCritique
<1>2. DOMAIN r1 = DOMAIN register /\ Barred \in SUBSET DOMAIN r1.barred
  <2> HIDE DEF defect
  <2> QED BY BarKeeps DEF Barred
<1> HIDE DEF r1, weak
<1>3. DOMAIN noted = DOMAIN r1 /\ noted.barred = r1.barred
  BY DEF NoteWeakPass
<1> HIDE DEF noted, twice
<1> QED BY <1>1, <1>2, <1>3, BarKeeps

LEMMA RememberedStep == Remembered /\ [LoopNext]_loopvars => Remembered'
<1> SUFFICES ASSUME Remembered, [LoopNext]_loopvars PROVE Remembered'
  OBVIOUS
<1>1. CASE CritiqueCandidates
  <2>1. PICK v \in [DOMAIN population -> Verdicts] : register' = BarTheCritique(v, Rescued(v))
    BY <1>1 DEF CritiqueCandidates
  <2>2. "barred" \in DOMAIN register' /\ Barred \in SUBSET Barred'
    BY <2>1, CritiqueBars DEF Remembered, Barred
  <2>3. UNCHANGED <<invented, bought>>
    BY <1>1 DEF CritiqueCandidates
  <2> QED BY <2>2, <2>3 DEF Remembered, AlreadyBought
<1>2. CASE AdmitInventedAngles
  <2>1. PICK found \in [Admissible -> OneAdmission], parent \in [Admissible -> ClassifyParent] :
           LET won == {k \in Admissible : found[k] = "admitted"}
           IN  /\ register' = Bar(register, {drafts[k].text : k \in Admissible \ won}, "lookup_failed")
               /\ invented' = invented \cup {[text |-> drafts[k].text, parent |-> parent[k]] : k \in won}
    BY <1>2 DEF AdmitInventedAngles
  <2> DEFINE won == {k \in Admissible : found[k] = "admitted"}
             lost == {drafts[k].text : k \in Admissible \ won}
  <2>2. /\ register' = Bar(register, lost, "lookup_failed")
        /\ invented' = invented \cup {[text |-> drafts[k].text, parent |-> parent[k]] : k \in won}
    BY <2>1
  <2>3. "barred" \in DOMAIN register' /\ Barred' = Barred \cup lost
    <3> HIDE DEF lost
    <3> QED BY <2>2, BarKeeps DEF Barred, Remembered
  <2>4. \A k \in Admissible : drafts[k].text \in AlreadyBought' /\ drafts[k].text \notin AlreadyBought
    <3>1. SUFFICES ASSUME NEW k \in Admissible PROVE drafts[k].text \in AlreadyBought'
      BY DEF Admissible
    <3>2. CASE k \in won
      <4>1. [text |-> drafts[k].text, parent |-> parent[k]] \in invented'
        BY <2>2, <3>2
      <4> QED BY <4>1 DEF AlreadyBought
    <3>3. CASE k \notin won
      BY <2>3, <3>1, <3>3 DEF AlreadyBought
    <3> QED BY <3>2, <3>3
  <2>5. AlreadyBought \in SUBSET AlreadyBought'
    BY <2>2, <2>3 DEF AlreadyBought
  <2>6. bought' = [t \in Texts |-> IF \E k \in Admissible : drafts[k].text = t THEN bought[t] \cup {loopRound} ELSE bought[t]]
    BY <1>2 DEF AdmitInventedAngles
  <2>7. ASSUME NEW t \in Texts
        PROVE  /\ bought'[t] # {} => t \in AlreadyBought'
               /\ bought'[t] = {} \/ \E n \in bought'[t] : bought'[t] = {n}
    <3>1. CASE \E k \in Admissible : drafts[k].text = t
      <4>1. bought[t] = {} /\ bought'[t] = {loopRound} /\ t \in AlreadyBought'
        BY <2>4, <2>6, <2>7, <3>1 DEF Remembered
      <4> QED BY <4>1
    <3>2. CASE ~\E k \in Admissible : drafts[k].text = t
      BY <2>5, <2>6, <2>7, <3>2 DEF Remembered
    <3> QED BY <3>1, <3>2
  <2> QED BY <2>3, <2>7 DEF Remembered
<1>3. CASE StageBCrash
  <2>1. register' = NewRegister /\ bought' = [t \in Texts |-> {}]
    BY <1>3 DEF StageBCrash
  <2> QED BY <2>1 DEF Remembered, NewRegister
<1>4. RankAndSelect \/ EvolveGenerative \/ ClusterDrafts \/ ExitVerdict \/ UNCHANGED loopvars
        => UNCHANGED <<register, invented, bought>>
  BY DEF RankAndSelect, EvolveGenerative, ClusterDrafts, ExitVerdict, loopvars
<1>5. CASE UNCHANGED <<register, invented, bought>>
  BY <1>5 DEF Remembered, AlreadyBought, Barred
<1> QED BY <1>1, <1>2, <1>3, <1>4, <1>5 DEF LoopNext

(* No angle's look-up is paid for in two rounds, however many rounds there    *)
(* are and whatever the drafts propose again.                                 *)
THEOREM BoughtOnceHolds == LoopSpec => []BoughtOnce
<1>1. LoopInit => Remembered
  BY DEF LoopInit, Remembered, NewRegister
<1>2. Remembered => BoughtOnce
  <2>1. SUFFICES ASSUME Remembered, NEW t \in Texts PROVE Cardinality(bought[t]) <= 1
    BY DEF BoughtOnce
  <2>2. CASE bought[t] = {}
    <3>1. Cardinality({}) = 0
      BY FS_EmptySet
    <3> QED BY <2>2, <3>1
  <2>3. CASE \E n \in bought[t] : bought[t] = {n}
    <3>1. PICK n : bought[t] = {n}
      BY <2>3
    <3>2. Cardinality({n}) = 1
      BY FS_Singleton
    <3> QED BY <3>1, <3>2
  <2> QED BY <2>1, <2>2, <2>3 DEF Remembered
<1> QED BY <1>1, <1>2, RememberedStep, PTL DEF LoopSpec

---------------------------------------------------------------------------
(* No question lost in the loop (WorkshopLoop).  Positions upwards first.     *)
LEMMA UpReaches ==
  ASSUME NEW S \in SUBSET Nat, IsFiniteSet(S)
  PROVE  /\ Up(S) \in [1 .. Cardinality(S) -> S] /\ Cardinality(S) \in Nat
         /\ \A i \in S : \E k \in 1 .. Cardinality(S) : Up(S)[k] = i
         /\ Up(S) \in Seq(S) /\ Len(Up(S)) = Cardinality(S)
<1>1. /\ Up(S) \in [1 .. Cardinality(S) -> S] /\ Cardinality(S) \in Nat
      /\ \A i \in S : \E k \in 1 .. Cardinality(S) : Up(S)[k] = i
  BY Ascends DEF Up
<1> DEFINE c == Cardinality(S)
           u == Up(S)
<1>2. u \in [1 .. c -> S] /\ c \in Nat
  BY <1>1
<1> HIDE DEF c, u
<1>3. u \in Seq(S) /\ Len(u) = c
  BY <1>2, SeqDef, LenProperties
<1> QED BY <1>1, <1>3 DEF c, u

(* Bars: of the barred candidates the pool keeps one for every label that     *)
(* nothing else in it serves.                                                 *)
LEMMA SavedUnfolds ==
  ASSUME NEW barred, Len(barred) \in Nat
  PROVE  /\ SavedUpTo(barred)[0] = DOMAIN population \ BarredInPool
         /\ \A k \in 1 .. Len(barred) : SavedUpTo(barred)[k] = SavedUpTo(barred)[k - 1] \cup
               IF (ParentsOf(barred[k]) \cap Labels) \subseteq Covered(SavedUpTo(barred)[k - 1]) THEN {} ELSE {barred[k]}
<1> DEFINE n == Len(barred)
           start == DOMAIN population \ BarredInPool
           T == SUBSET (start \cup {barred[k] : k \in 1 .. n})
           Then(k, s) == s \cup IF (ParentsOf(barred[k]) \cap Labels) \subseteq Covered(s) THEN {} ELSE {barred[k]}
           step == [k \in 1 .. n |-> [s \in T |-> Then(k, s)]]
           Is(f) == f = [k \in 0 .. n |-> IF k = 0 THEN start ELSE Then(k, f[k - 1])]
<1>1. step \in [1 .. n -> [T -> T]] /\ start \in T /\ \A k \in 1 .. n, s \in T : step[k][s] = Then(k, s)
  OBVIOUS
<1>2. SavedUpTo(barred) = CHOOSE f : Is(f)
  BY DEF SavedUpTo
<1> DEFINE h == SavedUpTo(barred)
<1>3. n \in Nat
  OBVIOUS
<1> HIDE DEF n, start, T, Then, step
<1>4. PICK g : Runs(g, T, start, n, step)
  BY <1>1, <1>3, RecursionExists
<1>5. Is(g)
  <2>1. g = [k \in 0 .. n |-> g[k]] /\ g[0] = start
    BY <1>4 DEF Runs
  <2>2. ASSUME NEW k \in 1 .. n PROVE g[k] = Then(k, g[k - 1])
    BY <1>1, <1>3, <1>4 DEF Runs
  <2> QED BY <1>3, <2>1, <2>2
<1>6. Is(h)
  <2> HIDE DEF Is
  <2> QED BY <1>2, <1>5
<1> HIDE DEF h
<1>7. h[0] = start /\ \A k \in 1 .. n : h[k] = Then(k, h[k - 1])
  BY <1>3, <1>6
<1> QED BY <1>7 DEF h, n, start, Then

Places == DOMAIN population \in SUBSET Nat /\ IsFiniteSet(DOMAIN population)

LEMMA PoolCovers ==
  ASSUME Places
  PROVE  PoolAfterBars \in SUBSET DOMAIN population /\ Labels \cap Covered(DOMAIN population) \in SUBSET Covered(PoolAfterBars)
<1> DEFINE B == BarredInPool
           u == Up(B)
           n == Len(u)
           K == SavedUpTo(u)
           Kept(k) == /\ K[k] \in SUBSET DOMAIN population /\ DOMAIN population \ B \in SUBSET K[k]
                      /\ \A j \in 1 .. k : ParentsOf(u[j]) \cap Labels \in SUBSET Covered(K[k])
<1>1. B \in SUBSET DOMAIN population /\ B \in SUBSET Nat /\ IsFiniteSet(B)
  <2>1. B \in SUBSET DOMAIN population
    BY DEF BarredInPool
  <2> HIDE DEF B
  <2> QED BY <2>1, FS_Subset DEF Places
<1> HIDE DEF B
<1>2. /\ u \in [1 .. Cardinality(B) -> B] /\ n = Cardinality(B) /\ n \in Nat
      /\ \A i \in B : \E k \in 1 .. n : u[k] = i
  BY <1>1, UpReaches
<1> HIDE DEF u, n
<1>3. /\ K[0] = DOMAIN population \ B
      /\ \A k \in 1 .. n : K[k] = K[k - 1] \cup
            IF (ParentsOf(u[k]) \cap Labels) \subseteq Covered(K[k - 1]) THEN {} ELSE {u[k]}
  BY <1>2, SavedUnfolds DEF B, n
<1> HIDE DEF K
<1>4. Kept(n)
  <2> DEFINE S == {k \in 0 .. n : Kept(k)}
  <2>1. 0 \in S
    BY <1>2, <1>3
  <2>2. ASSUME NEW k \in 1 .. n, k - 1 \in S
        PROVE  k \in S
    <3>1. PICK s : s = K[k - 1]
      OBVIOUS
    <3>2. K[k] = s \cup IF (ParentsOf(u[k]) \cap Labels) \subseteq Covered(s) THEN {} ELSE {u[k]}
      BY <1>3, <3>1
    <3>3. /\ s \in SUBSET DOMAIN population /\ DOMAIN population \ B \in SUBSET s
          /\ \A j \in 1 .. k - 1 : ParentsOf(u[j]) \cap Labels \in SUBSET Covered(s)
      BY <2>2, <3>1
    <3>4. u[k] \in DOMAIN population
      BY <1>1, <1>2
    <3>5. Covered(s) \in SUBSET Covered(K[k]) /\ ParentsOf(u[k]) \cap Labels \in SUBSET Covered(K[k])
      BY <3>2 DEF Covered
    <3>6. ASSUME NEW j \in 1 .. k PROVE ParentsOf(u[j]) \cap Labels \in SUBSET Covered(K[k])
      <4>1. j \in 1 .. k - 1 \/ j = k
        BY <1>2
      <4> QED BY <3>3, <3>5, <4>1
    <3>7. K[k] \in SUBSET DOMAIN population /\ DOMAIN population \ B \in SUBSET K[k] /\ k \in 0 .. n
      BY <1>2, <3>2, <3>3, <3>4
    <3> QED BY <3>6, <3>7
  <2>3. n \in S
    <3>1. n \in Nat /\ n \in 0 .. n
      BY <1>2
    <3> HIDE DEF S
    <3>2. \A k \in 0 .. n : k \in S
      BY <2>1, <2>2, <3>1, Induction
    <3> QED BY <3>1, <3>2
  <2> QED BY <2>3
<1>5. ASSUME NEW l \in Labels, NEW i \in DOMAIN population, l \in ParentsOf(i)
      PROVE  l \in Covered(K[n])
  <2>1. CASE i \in B
    <3>1. PICK k \in 1 .. n : u[k] = i
      BY <1>2, <2>1
    <3> QED BY <1>4, <1>5, <3>1
  <2>2. CASE i \notin B
    BY <1>4, <1>5, <2>2 DEF Covered
  <2> QED BY <2>1, <2>2
<1>6. Labels \cap Covered(DOMAIN population) \in SUBSET Covered(K[n])
  BY <1>5 DEF Covered
<1>7. PoolAfterBars = IF K[n] = {} THEN DOMAIN population ELSE K[n]
  BY DEF PoolAfterBars, K, u, B, n
<1> QED BY <1>4, <1>6, <1>7

(* The critique: every label of the pool is asked for, so none that all its   *)
(* candidates were killed for stays without one.                              *)
LEMMA LabelsInOrder ==
  ASSUME Places
  PROVE  /\ Len(OrderedParentLabels) \in Nat
         /\ \A n \in 1 .. Len(OrderedParentLabels) : OrderedParentLabels[n] \in Covered(DOMAIN population)
         /\ \A l \in Labels \cap Covered(DOMAIN population) :
               \E n \in 1 .. Len(OrderedParentLabels) : OrderedParentLabels[n] = l
<1> DEFINE all == LabelSeq \o <<Disc>>
           here == {k \in DOMAIN all : all[k] \in Covered(DOMAIN population)}
           FirstOf(k) == LowestIndexWithParent(all[k])
           Earlier(j, k) == FirstOf(j) < FirstOf(k) \/ (FirstOf(j) = FirstOf(k) /\ j < k)
           R == {p \in here \X here : Earlier(p[1], p[2])}
           Rank(k) == Cardinality({j \in here : Earlier(j, k)})
           o == [n \in 1 .. Cardinality(here) |-> all[CHOOSE k \in here : Rank(k) = n - 1]]
<1>1. /\ Len(LabelSeq) \in Nat /\ DOMAIN all = 1 .. Len(LabelSeq) + 1
      /\ \A j \in 1 .. Len(LabelSeq) : all[j] = LabelSeq[j]
  <2>1. LabelSeq \in Seq(Labels \cup {Disc}) /\ <<Disc>> \in Seq(Labels \cup {Disc}) /\ Len(LabelSeq) \in Nat /\ Len(<<Disc>>) = 1
    <3>1. LabelSeq \in [1 .. Len(LabelSeq) -> Labels] /\ Len(LabelSeq) \in Nat
      BY LoopAssumption, LenProperties
    <3>2. LabelSeq \in [1 .. Len(LabelSeq) -> Labels \cup {Disc}]
      BY <3>1
    <3> QED BY <3>1, <3>2, SeqDef
  <2>2. /\ all \in Seq(Labels \cup {Disc}) /\ Len(all) = Len(LabelSeq) + 1
        /\ \A j \in 1 .. Len(LabelSeq) + 1 : all[j] = IF j <= Len(LabelSeq) THEN LabelSeq[j] ELSE <<Disc>>[j - Len(LabelSeq)]
    <3> DEFINE last == <<Disc>>
    <3>1. last \in Seq(Labels \cup {Disc}) /\ Len(last) = 1
      BY <2>1
    <3> HIDE DEF last
    <3>2. /\ LabelSeq \o last \in Seq(Labels \cup {Disc}) /\ Len(LabelSeq \o last) = Len(LabelSeq) + Len(last)
          /\ \A j \in 1 .. Len(LabelSeq) + Len(last) : (LabelSeq \o last)[j] = IF j <= Len(LabelSeq) THEN LabelSeq[j] ELSE last[j - Len(LabelSeq)]
      BY <2>1, <3>1, ConcatProperties
    <3> QED BY <3>1, <3>2 DEF last
  <2> HIDE DEF all
  <2> QED BY <2>1, <2>2, LenProperties
<1>2. OrderedParentLabels = o
  BY DEF OrderedParentLabels
<1> HIDE DEF all
<1>3. here \in SUBSET Nat /\ IsFiniteSet(here) /\ Cardinality(here) \in Nat
  <2>1. PICK m \in Nat : here \in SUBSET (1 .. m)
    BY <1>1
  <2> HIDE DEF here
  <2>2. IsFiniteSet(1 .. m) /\ here \in SUBSET Nat
    BY <2>1, UpToCounted
  <2>3. IsFiniteSet(here)
    BY <2>1, <2>2, FS_Subset
  <2> QED BY <2>2, <2>3, FS_CardinalityType
<1>4. ASSUME NEW k \in here PROVE FirstOf(k) \in Nat
  <2> DEFINE P == {i \in DOMAIN population : all[k] \in ParentsOf(i)}
  <2>1. P \in SUBSET Nat /\ P # {}
    BY DEF Covered, Places
  <2>2. FirstOf(k) = Least(P)
    BY DEF LowestIndexWithParent
  <2> HIDE DEF P
  <2> QED BY <2>1, <2>2, LeastExists DEF Least
<1>5. \A j, k \in here : <<j, k>> \in R <=> Earlier(j, k)
  OBVIOUS
<1> HIDE DEF FirstOf, here, R
<1>6. /\ \A u \in here : <<u, u>> \notin R
      /\ \A u, v, w \in here : <<u, v>> \in R /\ <<v, w>> \in R => <<u, w>> \in R
      /\ \A u, v \in here : u = v \/ <<u, v>> \in R \/ <<v, u>> \in R
  <2>1. \A u \in here : u \in Nat /\ FirstOf(u) \in Nat
    BY <1>3, <1>4
  <2>2. \A u \in here : <<u, u>> \notin R
    BY <1>5, <2>1
  <2>3. ASSUME NEW u \in here, NEW v \in here, NEW w \in here, <<u, v>> \in R, <<v, w>> \in R
        PROVE  <<u, w>> \in R
    <3>1. Earlier(u, v) /\ Earlier(v, w)
      BY <1>5, <2>3
    <3>2. Earlier(u, w)
      BY <2>1, <3>1
    <3> QED BY <1>5, <3>2
  <2>4. ASSUME NEW u \in here, NEW v \in here PROVE u = v \/ <<u, v>> \in R \/ <<v, u>> \in R
    BY <1>5, <2>1
  <2> QED BY <2>2, <2>3, <2>4
<1>7. \A k \in here : {j \in here : <<j, k>> \in R} = {j \in here : Earlier(j, k)}
  BY <1>5
<1> HIDE DEF Earlier
<1> DEFINE D(k) == Cardinality({j \in here : <<j, k>> \in R})
<1>15. \A k \in here : D(k) = Rank(k)
  BY <1>7
<1>16. \A k \in here : D(k) \in 0 .. Cardinality(here) - 1 /\ \A v \in here : D(k) = D(v) => k = v
  BY <1>3, <1>6, RanksDiffer
<1>17. \A n \in 1 .. Cardinality(here) : \E k \in here : D(k) = n - 1
  BY ZenonT(40), <1>3, <1>6, RanksFilled
<1> HIDE DEF D, Rank
<1>8. \A k \in here : /\ Rank(k) \in 0 .. Cardinality(here) - 1
                      /\ \A v \in here : Rank(k) = Rank(v) => k = v
  BY <1>15, <1>16
<1>9. \A n \in 1 .. Cardinality(here) : \E k \in here : Rank(k) = n - 1
  BY <1>15, <1>17
<1>10. ASSUME NEW n \in 1 .. Cardinality(here) PROVE \E k \in here : Rank(k) = n - 1 /\ o[n] = all[k]
  BY <1>9
<1>11. ASSUME NEW k \in here PROVE \E n \in 1 .. Cardinality(here) : o[n] = all[k]
  <2>1. Rank(k) + 1 \in 1 .. Cardinality(here) /\ Rank(k) = (Rank(k) + 1) - 1
    BY <1>3, <1>8
  <2>2. PICK m \in here : Rank(m) = (Rank(k) + 1) - 1 /\ o[Rank(k) + 1] = all[m]
    BY <1>10, <2>1
  <2> QED BY <1>8, <2>1, <2>2
<1>12. Len(o) = Cardinality(here)
  <2>1. \A n \in 1 .. Cardinality(here) : o[n] \in Range(all)
    <3>1. \A k \in here : all[k] \in Range(all)
      BY DEF here, Range
    <3> QED BY <1>10, <3>1
  <2>2. o \in [1 .. Cardinality(here) -> Range(all)]
    BY <2>1
  <2> HIDE DEF o
  <2> QED BY <1>3, <2>2, SeqDef, LenProperties
<1>13. ASSUME NEW l \in Labels \cap Covered(DOMAIN population)
       PROVE  \E k \in here : all[k] = l
  <2>1. PICK j \in DOMAIN LabelSeq : LabelSeq[j] = l
    BY DEF Labels, Range
  <2>2. j \in DOMAIN all /\ all[j] = l
    BY <1>1, <2>1, LoopAssumption, LenProperties
  <2> QED BY <2>2 DEF here
<1>14. \A k \in here : all[k] \in Covered(DOMAIN population)
  BY DEF here
<1> HIDE DEF o
<1> QED BY ZenonT(40), <1>2, <1>3, <1>10, <1>11, <1>12, <1>13, <1>14

LEMMA BroughtUnfolds ==
  ASSUME Len(OrderedParentLabels) \in Nat, NEW alive
  PROVE  /\ BroughtBack(alive)[0] = {}
         /\ \A k \in 1 .. Len(OrderedParentLabels) : BroughtBack(alive)[k] = BroughtBack(alive)[k - 1] \cup
               IF OrderedParentLabels[k] \in Covered(alive \cup BroughtBack(alive)[k - 1]) THEN {}
               ELSE {LowestIndexWithParent(OrderedParentLabels[k])}
<1> DEFINE n == Len(OrderedParentLabels)
           start == {}
           Lowest(k) == LowestIndexWithParent(OrderedParentLabels[k])
           T == SUBSET {Lowest(k) : k \in 1 .. n}
           Then(k, s) == s \cup IF OrderedParentLabels[k] \in Covered(alive \cup s) THEN {} ELSE {Lowest(k)}
           step == [k \in 1 .. n |-> [s \in T |-> Then(k, s)]]
           Is(f) == f = [k \in 0 .. n |-> IF k = 0 THEN start ELSE Then(k, f[k - 1])]
<1>1. step \in [1 .. n -> [T -> T]] /\ start \in T /\ \A k \in 1 .. n, s \in T : step[k][s] = Then(k, s)
  <2> HIDE DEF Lowest, n
  <2> QED OBVIOUS
<1>2. BroughtBack(alive) = CHOOSE f : Is(f)
  BY DEF BroughtBack
<1> DEFINE h == BroughtBack(alive)
<1>3. n \in Nat
  OBVIOUS
<1> HIDE DEF n, start, T, Then, step
<1>4. PICK g : Runs(g, T, start, n, step)
  BY <1>1, <1>3, RecursionExists
<1>5. Is(g)
  <2>1. g = [k \in 0 .. n |-> g[k]] /\ g[0] = start
    BY <1>4 DEF Runs
  <2>2. ASSUME NEW k \in 1 .. n PROVE g[k] = Then(k, g[k - 1])
    BY <1>1, <1>3, <1>4 DEF Runs
  <2> QED BY <1>3, <2>1, <2>2
<1>6. Is(h)
  <2> HIDE DEF Is
  <2> QED BY <1>2, <1>5
<1> HIDE DEF h
<1>7. h[0] = start /\ \A k \in 1 .. n : h[k] = Then(k, h[k - 1])
  BY <1>3, <1>6
<1> QED BY <1>7 DEF h, n, start, Then

LEMMA RescuedCovers ==
  ASSUME Places, NEW v
  PROVE  LET alive == {i \in DOMAIN population : v[i] # "KILL"}
         IN  /\ Rescued(v) \in SUBSET DOMAIN population
             /\ Labels \cap Covered(DOMAIN population) \in SUBSET Covered(alive \cup Rescued(v))
<1> DEFINE alive == {i \in DOMAIN population : v[i] # "KILL"}
           o == OrderedParentLabels
           n == Len(o)
           K == BroughtBack(alive)
           Back(k) == K[k] \in SUBSET DOMAIN population /\ \A j \in 1 .. k : o[j] \in Covered(alive \cup K[k])
<1>1. /\ n \in Nat /\ n \in 0 .. n
      /\ \A k \in 1 .. n : o[k] \in Covered(DOMAIN population)
      /\ \A l \in Labels \cap Covered(DOMAIN population) : \E k \in 1 .. n : o[k] = l
  BY LabelsInOrder
<1>2. ASSUME NEW l \in Covered(DOMAIN population)
      PROVE  LowestIndexWithParent(l) \in DOMAIN population /\ l \in ParentsOf(LowestIndexWithParent(l))
  <2> DEFINE P == {i \in DOMAIN population : l \in ParentsOf(i)}
  <2>1. P \in SUBSET Nat /\ P # {}
    BY DEF Covered, Places
  <2>2. LowestIndexWithParent(l) = Least(P)
    BY DEF LowestIndexWithParent
  <2>3. Least(P) \in P
    <3> HIDE DEF P
    <3> QED BY <2>1, LeastExists DEF Least
  <2> QED BY <2>2, <2>3
<1>3. /\ K[0] = {}
      /\ \A k \in 1 .. n : K[k] = K[k - 1] \cup
            IF o[k] \in Covered(alive \cup K[k - 1]) THEN {} ELSE {LowestIndexWithParent(o[k])}
  BY <1>1, BroughtUnfolds
<1>4. Rescued(v) = IF alive \cup K[n] = {} THEN DOMAIN population ELSE K[n]
  BY DEF Rescued
<1>5. alive \in SUBSET DOMAIN population
  OBVIOUS
<1> HIDE DEF alive, o, n, K
<1>6. Back(n)
  <2> DEFINE S == {k \in 0 .. n : Back(k)}
  <2>1. 0 \in S
    BY <1>1, <1>3
  <2>2. ASSUME NEW k \in 1 .. n, k - 1 \in S
        PROVE  k \in S
    <3>1. PICK s : s = K[k - 1]
      OBVIOUS
    <3>2. K[k] = s \cup IF o[k] \in Covered(alive \cup s) THEN {} ELSE {LowestIndexWithParent(o[k])}
      BY <1>3, <3>1
    <3>3. s \in SUBSET DOMAIN population /\ \A j \in 1 .. k - 1 : o[j] \in Covered(alive \cup s)
      BY <2>2, <3>1
    <3>4. LowestIndexWithParent(o[k]) \in DOMAIN population /\ o[k] \in ParentsOf(LowestIndexWithParent(o[k]))
      BY <1>1, <1>2
    <3>5. Covered(alive \cup s) \in SUBSET Covered(alive \cup K[k]) /\ o[k] \in Covered(alive \cup K[k])
      BY <3>2, <3>4 DEF Covered
    <3>6. ASSUME NEW j \in 1 .. k PROVE o[j] \in Covered(alive \cup K[k])
      <4>1. j \in 1 .. k - 1 \/ j = k
        BY <1>1
      <4> QED BY <3>3, <3>5, <4>1
    <3>7. K[k] \in SUBSET DOMAIN population /\ k \in 0 .. n
      BY <1>1, <3>2, <3>3, <3>4
    <3> QED BY <3>6, <3>7
  <2>3. \A k \in 0 .. n : k \in S
    <3> HIDE DEF S
    <3> QED BY <1>1, <2>1, <2>2, Induction
  <2> QED BY <1>1, <2>3
<1>7. Labels \cap Covered(DOMAIN population) \in SUBSET Covered(alive \cup K[n])
  BY <1>1, <1>6
<1>8. alive \cup K[n] = {} => Covered(DOMAIN population) \in SUBSET Covered(alive \cup DOMAIN population)
  BY DEF Covered
<1>9. Rescued(v) \in SUBSET DOMAIN population /\ Labels \cap Covered(DOMAIN population) \in SUBSET Covered(alive \cup Rescued(v))
  BY <1>4, <1>6, <1>7, <1>8
<1> QED BY <1>9 DEF alive

(* The winners: as long as a question's floor has room one of its places is   *)
(* taken, and there is room because every question before it took at most its *)
(* own floor.                                                                 *)
LEMMA PicksUnfold ==
  ASSUME NEW taken, NEW fitting, NEW order, NEW times \in Nat
  PROVE  /\ Picks(taken, fitting, order, times)[0] = taken
         /\ \A k \in 1 .. times : Picks(taken, fitting, order, times)[k] = Pick(Picks(taken, fitting, order, times)[k - 1], fitting, order)
<1> DEFINE T == SUBSET (taken \cup {Least(X) : X \in SUBSET fitting})
           Then(s) == Pick(s, fitting, order)
           step == [k \in 1 .. times |-> [s \in T |-> Then(s)]]
           Is(f) == f = [k \in 0 .. times |-> IF k = 0 THEN taken ELSE Then(f[k - 1])]
           h == Picks(taken, fitting, order, times)
<1>1. ASSUME NEW s \in T PROVE Then(s) \in T
  <2> DEFINE open == fitting \ s
             keep == {p \in open : screened[order[p]] = "KEEP"}
             from == IF keep # {} THEN keep ELSE open
             new == IF Cardinality(s) >= Target(order) \/ open = {} THEN {} ELSE {Least(from)}
  <2>1. Then(s) = s \cup new
    BY DEF Pick
  <2>2. from \in SUBSET fitting
    OBVIOUS
  <2>3. new \in T
    <3> HIDE DEF from, open
    <3> QED BY <2>2
  <2> HIDE DEF new
  <2> QED BY <2>1, <2>3
<1>2. step \in [1 .. times -> [T -> T]] /\ taken \in T /\ \A k \in 1 .. times, s \in T : step[k][s] = Then(s)
  <2>1. taken \in T
    OBVIOUS
  <2> HIDE DEF T, Then
  <2> QED BY <1>1, <2>1
<1>3. Picks(taken, fitting, order, times) = CHOOSE f : Is(f)
  BY DEF Picks
<1> HIDE DEF T, Then, step
<1>4. PICK g : Runs(g, T, taken, times, step)
  BY <1>2, RecursionExists
<1>5. Is(g)
  <2>1. g = [k \in 0 .. times |-> g[k]] /\ g[0] = taken
    BY <1>4 DEF Runs
  <2>2. ASSUME NEW k \in 1 .. times PROVE g[k] = Then(g[k - 1])
    BY <1>2, <1>4 DEF Runs
  <2>3. ASSUME NEW k \in 0 .. times PROVE g[k] = IF k = 0 THEN taken ELSE Then(g[k - 1])
    <3>1. CASE k = 0
      BY <2>1, <3>1
    <3>2. CASE k # 0
      <4>1. k \in 1 .. times
        BY <3>2
      <4>2. g[k] = Then(g[k - 1])
        BY <2>2, <4>1
      <4> QED BY <3>2, <4>2
    <3> QED BY <3>1, <3>2
  <2> QED BY <2>1, <2>3
<1>6. Is(h)
  <2> HIDE DEF Is
  <2> QED BY <1>3, <1>5
<1> HIDE DEF h
<1>7. h[0] = taken /\ \A k \in 1 .. times : h[k] = Then(h[k - 1])
  BY <1>6
<1> QED BY <1>7 DEF h, Then

LEMMA PickOne ==
  ASSUME NEW X, NEW order \in Seq(X), NEW taken \in SUBSET DOMAIN order, NEW fitting \in SUBSET DOMAIN order
  PROVE  /\ Pick(taken, fitting, order) \in SUBSET DOMAIN order /\ taken \in SUBSET Pick(taken, fitting, order)
         /\ IsFiniteSet(Pick(taken, fitting, order)) /\ IsFiniteSet(taken) /\ Cardinality(taken) \in Nat
         /\ Cardinality(Pick(taken, fitting, order)) \in Nat
         /\ Cardinality(Pick(taken, fitting, order)) <= Cardinality(taken) + 1
         /\ Cardinality(taken) < Slots /\ fitting # {} =>
               fitting \cap Pick(taken, fitting, order) # {}
<1> DEFINE open == fitting \ taken
           keep == {p \in open : screened[order[p]] = "KEEP"}
           from == IF keep # {} THEN keep ELSE open
           P == Pick(taken, fitting, order)
<1>1. Len(order) \in Nat /\ DOMAIN order = 1 .. Len(order)
  BY LenProperties
<1>2. IsFiniteSet(DOMAIN order) /\ Cardinality(DOMAIN order) = Len(order)
  BY <1>1, UpToCounted
<1>3. IsFiniteSet(taken) /\ Cardinality(taken) \in Nat
  BY <1>2, FS_Subset, FS_CardinalityType
<1>4. P = taken \cup IF Cardinality(taken) >= Target(order) \/ open = {} THEN {} ELSE {Least(from)}
  BY DEF Pick
<1>5. open # {} => Least(from) \in open
  <2>1. SUFFICES ASSUME open # {} PROVE Least(from) \in open
    OBVIOUS
  <2>2. from \in SUBSET open /\ from # {} /\ open \in SUBSET Nat
    BY <1>1, <2>1
  <2> HIDE DEF from, open
  <2> QED BY <2>2, LeastExists DEF Least
<1>6. Cardinality(taken) >= Target(order) /\ Cardinality(taken) < Slots => fitting \in SUBSET taken
  <2>1. SUFFICES ASSUME Cardinality(taken) >= Target(order), Cardinality(taken) < Slots
                 PROVE  taken = DOMAIN order
    OBVIOUS
  <2>2. Target(order) = IF Len(order) < Slots THEN Len(order) ELSE Slots
    BY DEF Target, Low
  <2>5. Slots \in Nat
    <3>1. Len(LabelSeq) \in Nat /\ FloorPerQuestion \in Nat /\ CrossSlots \in Nat
      BY LoopAssumption, LenProperties
    <3> QED BY <3>1 DEF Slots
  <2>3. Cardinality(taken) >= Len(order)
    BY <1>1, <1>3, <2>1, <2>2, <2>5
  <2>4. Cardinality(taken) <= Cardinality(DOMAIN order) /\ (Cardinality(taken) = Cardinality(DOMAIN order) => taken = DOMAIN order)
    BY <1>2, FS_Subset
  <2> QED BY <1>1, <1>2, <1>3, <2>3, <2>4
<1> HIDE DEF from, P
<1>7. CASE Cardinality(taken) >= Target(order) \/ open = {}
  <2>1. P = taken
    BY <1>4, <1>7
  <2>2. Cardinality(taken) < Slots => fitting \in SUBSET taken
    BY <1>6, <1>7
  <2> HIDE DEF open
  <2> QED BY <1>3, <2>1, <2>2 DEF P
<1>8. CASE ~(Cardinality(taken) >= Target(order) \/ open = {})
  <2>1. P = taken \cup {Least(from)} /\ Least(from) \in fitting /\ Least(from) \notin taken
    BY <1>4, <1>5, <1>8
  <2>2. P \in SUBSET DOMAIN order /\ taken \in SUBSET P /\ fitting \cap P # {}
    BY <2>1
  <2>3. IsFiniteSet(P) /\ Cardinality(P) = Cardinality(taken) + 1
    BY <1>3, <2>1, FS_AddElement
  <2> QED BY <1>3, <2>2, <2>3 DEF P
<1> QED BY <1>7, <1>8

LEMMA PicksKeep ==
  ASSUME NEW X, NEW order \in Seq(X), NEW taken \in SUBSET DOMAIN order, NEW fitting \in SUBSET DOMAIN order, NEW times \in Nat
  PROVE  LET P == Picks(taken, fitting, order, times)[times]
         IN  /\ P \in SUBSET DOMAIN order /\ taken \in SUBSET P
             /\ Cardinality(P) \in Nat /\ Cardinality(taken) \in Nat /\ Cardinality(P) <= Cardinality(taken) + times
             /\ times > 0 /\ Cardinality(taken) < Slots /\ fitting # {} =>
                   fitting \cap P # {}
<1> DEFINE h == Picks(taken, fitting, order, times)
           room == Cardinality(taken) < Slots /\ fitting # {}
           Good(k) == /\ h[k] \in SUBSET DOMAIN order /\ taken \in SUBSET h[k]
                      /\ Cardinality(h[k]) \in Nat /\ Cardinality(h[k]) <= Cardinality(taken) + k
                      /\ k > 0 /\ room => fitting \cap h[k] # {}
           S == {k \in 0 .. times : Good(k)}
<1>1. h[0] = taken /\ \A k \in 1 .. times : h[k] = Pick(h[k - 1], fitting, order)
  BY PicksUnfold
<1>2. Cardinality(taken) \in Nat
  BY PickOne
<1> HIDE DEF h
<1>3. 0 \in S
  BY <1>1, <1>2
<1>4. ASSUME NEW k \in 1 .. times, k - 1 \in S
      PROVE  k \in S
  <2>1. PICK s : s = h[k - 1]
    OBVIOUS
  <2>2. PICK j : j = k - 1
    OBVIOUS
  <2>3. /\ s \in SUBSET DOMAIN order /\ taken \in SUBSET s /\ Cardinality(s) \in Nat
        /\ Cardinality(s) <= Cardinality(taken) + (k - 1) /\ (k - 1 > 0 /\ room => fitting \cap s # {})
    BY <1>4, <2>1
  <2>4. h[k] = Pick(s, fitting, order)
    BY <1>1, <2>1
  <2>5. /\ h[k] \in SUBSET DOMAIN order /\ s \in SUBSET h[k] /\ Cardinality(h[k]) \in Nat
        /\ Cardinality(h[k]) <= Cardinality(s) + 1
        /\ Cardinality(s) < Slots /\ fitting # {} => fitting \cap h[k] # {}
    BY <2>3, <2>4, PickOne
  <2>6. Cardinality(h[k]) <= Cardinality(taken) + k
    BY <1>2, <2>3, <2>5
  <2>7. room => fitting \cap h[k] # {}
    <3>1. CASE k = 1
      BY <1>1, <2>1, <2>5, <3>1
    <3>2. CASE k > 1
      BY <2>3, <2>5, <3>2
    <3> QED BY <3>1, <3>2
  <2> HIDE DEF room
  <2> QED BY <2>3, <2>5, <2>6, <2>7
<1>5. times \in S
  <2> HIDE DEF S
  <2>1. \A k \in 0 .. times : k \in S
    BY <1>3, <1>4, Induction
  <2> QED BY <2>1
<1> QED BY <1>2, <1>5 DEF h

Fill(order, k, t) == Picks(t, Serving(LabelSeq[k], order), order, FloorPerQuestion)[FloorPerQuestion]
LEMMA FloorUnfolds ==
  ASSUME NEW X, NEW order \in Seq(X)
  PROVE  /\ FloorUpTo(order)[0] = {}
         /\ \A k \in 1 .. Len(LabelSeq) : FloorUpTo(order)[k] = Fill(order, k, FloorUpTo(order)[k - 1])
<1> DEFINE n == Len(LabelSeq)
           start == {}
           T == SUBSET DOMAIN order
           Then(k, s) == Fill(order, k, s)
           step == [k \in 1 .. n |-> [s \in T |-> Then(k, s)]]
           Is(f) == f = [k \in 0 .. n |-> IF k = 0 THEN start ELSE Then(k, f[k - 1])]
           h == FloorUpTo(order)
<1>1. ASSUME NEW k \in 1 .. n, NEW s \in T PROVE Then(k, s) \in T
  <2>1. FloorPerQuestion \in Nat /\ Serving(LabelSeq[k], order) \in SUBSET DOMAIN order
    BY LoopAssumption DEF Serving
  <2> QED BY ZenonT(40), <2>1, PicksKeep DEF Fill
<1>2. step \in [1 .. n -> [T -> T]] /\ start \in T /\ \A k \in 1 .. n, s \in T : step[k][s] = Then(k, s)
  <2>1. start \in T
    OBVIOUS
  <2> HIDE DEF T, Then, start
  <2> QED BY <1>1, <2>1
<1>3. n \in Nat
  BY LoopAssumption, LenProperties
<1>4. FloorUpTo(order) = CHOOSE f : Is(f)
  BY DEF FloorUpTo, Fill
<1> HIDE DEF n, start, T, Then, step
<1>5. PICK g : Runs(g, T, start, n, step)
  BY <1>2, <1>3, RecursionExists
<1>6. Is(g)
  <2>1. g = [k \in 0 .. n |-> g[k]] /\ g[0] = start
    BY <1>5 DEF Runs
  <2>2. ASSUME NEW k \in 1 .. n PROVE g[k] = Then(k, g[k - 1])
    BY <1>2, <1>3, <1>5 DEF Runs
  <2> QED BY <1>3, <2>1, <2>2
<1>7. Is(h)
  <2> HIDE DEF Is
  <2> QED BY <1>4, <1>6
<1> HIDE DEF h
<1>8. h[0] = start /\ \A k \in 1 .. n : h[k] = Then(k, h[k - 1])
  BY <1>3, <1>7
<1> QED BY <1>8 DEF h, n, start, Then

LEMMA SmallerProduct ==
  ASSUME NEW f \in Nat, NEW k \in Nat, NEW n \in Nat, k < n, f > 0
  PROVE  /\ k * f \in Nat /\ f * n \in Nat /\ k * f < f * n /\ k * f + f = (k + 1) * f
<1>1. PICK d \in Nat : n = k + 1 + d
  <2>1. n - (k + 1) \in Nat /\ n = k + 1 + (n - (k + 1))
    OBVIOUS
  <2> QED BY <2>1
<1>2. f * n = k * f + f + f * d
  BY <1>1
<1>3. k * f \in Nat /\ f * d \in Nat /\ f * n \in Nat
  OBVIOUS
<1>4. k * f + f = (k + 1) * f
  OBVIOUS
<1> DEFINE a == k * f
           b == f * d
           c == f * n
<1> HIDE DEF a, b, c
<1>5. a < c
  BY <1>2, <1>3 DEF a, b, c
<1> QED BY <1>3, <1>4, <1>5 DEF a, c

LEMMA FloorServes ==
  ASSUME NEW X, NEW order \in Seq(X), FloorPerQuestion > 0
  PROVE  LET F == FloorUpTo(order)[Len(LabelSeq)]
         IN  /\ F \in SUBSET DOMAIN order
             /\ \A k \in 1 .. Len(LabelSeq) : Serving(LabelSeq[k], order) # {} => Serving(LabelSeq[k], order) \cap F # {}
<1> DEFINE n == Len(LabelSeq)
           fl == FloorPerQuestion
           h == FloorUpTo(order)
           Of(k) == Serving(LabelSeq[k], order)
           Good(k) == /\ h[k] \in SUBSET DOMAIN order /\ Cardinality(h[k]) \in Nat /\ Cardinality(h[k]) <= k * fl
                      /\ \A j \in 1 .. k : Of(j) # {} => Of(j) \cap h[k] # {}
           S == {k \in 0 .. n : Good(k)}
<1>1. n \in Nat /\ fl \in Nat /\ fl > 0 /\ CrossSlots \in Nat
  BY LoopAssumption, LenProperties
<1>2. h[0] = {} /\ \A k \in 1 .. n : h[k] = Fill(order, k, h[k - 1])
  BY FloorUnfolds
<1>3. \A k \in 1 .. n : Of(k) \in SUBSET DOMAIN order
  BY DEF Serving
<1> HIDE DEF h
<1>4. 0 \in S
  <2>1. 0 * fl = 0 /\ 0 \in 0 .. n
    BY <1>1
  <2>2. Cardinality({}) = 0
    BY FS_EmptySet
  <2>3. \A j \in 1 .. 0 : FALSE
    OBVIOUS
  <2> HIDE DEF Of, fl, n
  <2>4. Good(0)
    BY <1>2, <2>1, <2>2, <2>3
  <2> QED BY <2>1, <2>4
<1>5. ASSUME NEW k \in 1 .. n, k - 1 \in S
      PROVE  k \in S
  <2>1. PICK s : s = h[k - 1]
    OBVIOUS
  <2>2. PICK m \in Nat : m = k - 1 /\ m < n
    BY <1>1
  <2>3. /\ s \in SUBSET DOMAIN order /\ Cardinality(s) \in Nat /\ Cardinality(s) <= m * fl
        /\ \A j \in 1 .. m : Of(j) # {} => Of(j) \cap s # {}
    BY <1>5, <2>1, <2>2
  <2>4. h[k] = Picks(s, Of(k), order, fl)[fl]
    BY <1>2, <2>1 DEF Fill
  <2> DEFINE P == Picks(s, Of(k), order, fl)[fl]
  <2>5. /\ P \in SUBSET DOMAIN order /\ s \in SUBSET P /\ Cardinality(P) \in Nat /\ Cardinality(P) <= Cardinality(s) + fl
        /\ Cardinality(s) < Slots /\ Of(k) # {} => Of(k) \cap P # {}
    <3>1. PICK o : o = Of(k) /\ o \in SUBSET DOMAIN order
      BY <1>3
    <3> DEFINE Q == Picks(s, o, order, FloorPerQuestion)[FloorPerQuestion]
    <3>2. /\ Q \in SUBSET DOMAIN order /\ s \in SUBSET Q /\ Cardinality(Q) \in Nat /\ Cardinality(Q) <= Cardinality(s) + FloorPerQuestion
          /\ Cardinality(s) < Slots /\ o # {} => o \cap Q # {}
      <4>1. /\ s \in SUBSET DOMAIN order /\ o \in SUBSET DOMAIN order
            /\ FloorPerQuestion \in Nat /\ FloorPerQuestion > 0
        BY <1>1, <2>3, <3>1
      <4>2. Q \in SUBSET DOMAIN order /\ s \in SUBSET Q
        BY <4>1, PicksKeep
      <4>3. Cardinality(Q) \in Nat /\ Cardinality(Q) <= Cardinality(s) + FloorPerQuestion
        BY <4>1, PicksKeep
      <4>4. Cardinality(s) < Slots /\ o # {} => o \cap Q # {}
        BY <4>1, PicksKeep
      <4> QED BY <4>2, <4>3, <4>4, Zenon
    <3> HIDE DEF Of
    <3> QED BY <3>1, <3>2, Zenon
  <2>6. m * fl \in Nat /\ fl * n \in Nat /\ m * fl < fl * n /\ m * fl + fl = k * fl
    <3>1. m * fl \in Nat /\ fl * n \in Nat /\ m * fl < fl * n /\ m * fl + fl = (m + 1) * fl
      BY <1>1, <2>2, SmallerProduct
    <3>2. m + 1 = k
      BY <2>2
    <3> QED BY <3>1, <3>2
  <2> DEFINE a == m * fl
             b == fl * n
             c == k * fl
  <2> HIDE DEF a, b, c, fl, n
  <2>7. Cardinality(s) < b + CrossSlots /\ Cardinality(P) <= c
    <3>1. Cardinality(s) <= a /\ a \in Nat /\ b \in Nat /\ a < b /\ a + fl = c
      BY <2>3, <2>6 DEF a, b, c
    <3> HIDE DEF P
    <3> QED BY <1>1, <2>3, <2>5, <3>1
  <2>8. Of(k) # {} => Of(k) \cap P # {}
    <3>1. Slots = b + CrossSlots
      BY DEF b, Slots, n, fl
    <3> HIDE DEF P, Of
    <3> QED BY <2>5, <2>7, <3>1
  <2> HIDE DEF P, Of
  <2>9. ASSUME NEW j \in 1 .. k, Of(j) # {} PROVE Of(j) \cap P # {}
    <3>1. j \in 1 .. m \/ j = k
      BY <2>2
    <3> QED BY <2>3, <2>5, <2>8, <2>9, <3>1
  <2>10. h[k] = P /\ k \in 0 .. n
    BY <1>1, <2>4 DEF P
  <2>11. Good(k)
    BY <2>5, <2>7, <2>9, <2>10 DEF c
  <2> QED BY <2>10, <2>11
<1>6. n \in S
  <2> HIDE DEF S
  <2>1. \A k \in 0 .. n : k \in S
    BY <1>1, <1>4, <1>5, Induction
  <2> QED BY <1>1, <2>1
<1> QED BY <1>6 DEF h, n, S

LEMMA WinnersServe ==
  ASSUME NEW X, NEW order \in Seq(X), FloorPerQuestion > 0
  PROVE  \A l \in Labels, p \in DOMAIN order : l \in ParentsOf(order[p]) =>
            \E k \in DOMAIN SelectWinners(order) : l \in ParentsOf(SelectWinners(order)[k])
<1> DEFINE floor == FloorUpTo(order)[Len(LabelSeq)]
           several == {p \in DOMAIN order : IsCrossCutting(order[p])}
           shared == Picks(floor, several, order, CrossSlots)[CrossSlots]
           all == Picks(shared, DOMAIN order, order, Len(order))[Len(order)]
           won == Up(all)
<1>1. Len(order) \in Nat /\ DOMAIN order = 1 .. Len(order) /\ CrossSlots \in Nat
  BY LoopAssumption, LenProperties
<1>2. floor \in SUBSET DOMAIN order
  BY FloorServes
<1>3. shared \in SUBSET DOMAIN order /\ floor \in SUBSET shared
  <2>1. several \in SUBSET DOMAIN order
    OBVIOUS
  <2> HIDE DEF floor, several
  <2> QED BY <1>1, <1>2, <2>1, PicksKeep
<1>4. all \in SUBSET DOMAIN order /\ shared \in SUBSET all
  <2> HIDE DEF shared
  <2> QED BY <1>1, <1>3, PicksKeep
<1>5. SelectWinners(order) = [k \in DOMAIN won |-> order[won[k]]]
  BY DEF SelectWinners
<1>6. ASSUME NEW l \in Labels, NEW p \in DOMAIN order, l \in ParentsOf(order[p])
      PROVE  \E q \in floor : l \in ParentsOf(order[q])
  <2>1. PICK k \in 1 .. Len(LabelSeq) : LabelSeq[k] = l
    BY LoopAssumption, LenProperties DEF Labels, Range
  <2>2. Serving(l, order) # {}
    BY <1>6 DEF Serving
  <2>3. Serving(l, order) \cap floor # {}
    BY <2>1, <2>2, FloorServes
  <2> QED BY <2>3 DEF Serving
<1> HIDE DEF floor, shared, all
<1>7. /\ won \in [1 .. Cardinality(all) -> all]
      /\ \A q \in all : \E k \in 1 .. Cardinality(all) : won[k] = q
  <2>1. all \in SUBSET Nat /\ IsFiniteSet(DOMAIN order)
    BY <1>1, <1>4, UpToCounted
  <2>2. IsFiniteSet(all)
    BY <1>4, <2>1, FS_Subset
  <2> QED BY <2>1, <2>2, UpReaches
<1> HIDE DEF won
<1>8. ASSUME NEW l \in Labels, NEW p \in DOMAIN order, l \in ParentsOf(order[p])
      PROVE  \E k \in DOMAIN SelectWinners(order) : l \in ParentsOf(SelectWinners(order)[k])
  <2>1. PICK q \in all : l \in ParentsOf(order[q])
    BY <1>3, <1>4, <1>6, <1>8
  <2>2. PICK k \in 1 .. Cardinality(all) : won[k] = q
    BY <1>7, <2>1
  <2> QED BY <1>5, <1>7, <2>1, <2>2
<1> QED BY <1>8

LEMMA RankingsReach ==
  ASSUME NEW S \in SUBSET Nat, IsFiniteSet(S), NEW order \in Rankings(S)
  PROVE  order \in Seq(S) /\ \A i \in S : \E p \in DOMAIN order : order[p] = i
<1> DEFINE c == Cardinality(S)
           u == Up(S)
<1>1. u \in [1 .. c -> S] /\ c \in Nat /\ \A i \in S : \E k \in 1 .. c : u[k] = i
  BY UpReaches
<1>2. PICK n \in 0 .. c - 1 : order = [k \in 1 .. c |-> u[IF k + n <= c THEN k + n ELSE k + n - c]]
  BY DEF Rankings
<1> HIDE DEF c, u
<1>3. order \in [1 .. c -> S]
  BY <1>1, <1>2
<1>4. ASSUME NEW i \in S PROVE \E p \in DOMAIN order : order[p] = i
  <2>1. PICK k \in 1 .. c : u[k] = i
    BY <1>1
  <2> DEFINE p == IF k > n THEN k - n ELSE k - n + c
  <2>2. p \in 1 .. c /\ (IF p + n <= c THEN p + n ELSE p + n - c) = k
    BY <1>1, <1>2
  <2> HIDE DEF p
  <2>3. order[p] = u[k] /\ p \in DOMAIN order
    BY <1>2, <2>2
  <2> QED BY <2>1, <2>3
<1> QED BY <1>1, <1>3, <1>4, SeqDef

(* Indices are given once: a stamped draft never takes the place of a         *)
(* candidate of the pool.                                                     *)
Asked == {l \in Labels : \E c \in Range(StageAPool) : l \in c.parents}
Represented(S) == \A l \in Asked : \E i \in S : l \in population[i].parents
LoopInv ==
    /\ Places /\ nextIndex \in Nat /\ Represented(DOMAIN population)
    /\ wphase # "fallback" => \A i \in DOMAIN population : i < nextIndex
    /\ IsFiniteSet(DOMAIN stamped) /\ DOMAIN stamped \in SUBSET Nat
    /\ \A i \in DOMAIN stamped : i < nextIndex /\ i \notin DOMAIN population
    /\ drafts \in Seq(Range(drafts))
    /\ wphase = "rank" => DOMAIN screened \in SUBSET DOMAIN population /\ Represented(DOMAIN screened)
    /\ wphase \in {"generate", "admit", "cluster", "verdict"} => Represented(Winners)

LEMMA LoopStep ==
  ASSUME FloorPerQuestion > 0, LoopInv, [LoopNext]_loopvars
  PROVE  LoopInv'
<1>1. CASE CritiqueCandidates
  <2>1. PICK v \in [DOMAIN population -> Verdicts] :
          screened' = [i \in {j \in DOMAIN v : v[j] # "KILL"} \cup Rescued(v) |-> IF i \in Rescued(v) THEN "KEEP" ELSE v[i]]
    BY <1>1 DEF CritiqueCandidates
  <2>2. wphase = "critique" /\ wphase' = "rank" /\ UNCHANGED <<population, nextIndex, stamped, drafts>>
    BY <1>1 DEF CritiqueCandidates
  <2> DEFINE alive == {i \in DOMAIN population : v[i] # "KILL"}
  <2>3. /\ Rescued(v) \in SUBSET DOMAIN population
        /\ Labels \cap Covered(DOMAIN population) \in SUBSET Covered(alive \cup Rescued(v))
    BY RescuedCovers DEF LoopInv
  <2>4. DOMAIN screened' = alive \cup Rescued(v)
    BY <2>1
  <2>5. \A l \in Asked : \E i \in alive \cup Rescued(v) : l \in population[i].parents
    <3>1. \A l \in Asked : l \in Labels \cap Covered(DOMAIN population)
      BY DEF Asked, LoopInv, Represented, Covered, ParentsOf
    <3> HIDE DEF alive
    <3> QED BY <2>3, <3>1 DEF Covered, ParentsOf
  <2>6. Represented(DOMAIN screened)' /\ (DOMAIN screened \in SUBSET DOMAIN population)'
    BY <2>2, <2>3, <2>4, <2>5 DEF Represented, Asked
  <2>7. Places' /\ Represented(DOMAIN population)'
    BY <2>2 DEF LoopInv, Places, Represented, Asked
  <2> QED BY <2>2, <2>6, <2>7 DEF LoopInv
<1>2. CASE RankAndSelect
  <2>1. PICK order \in Rankings(DOMAIN screened) : selected' = SelectWinners(order)
    BY <1>2 DEF RankAndSelect
  <2>2. wphase = "rank" /\ wphase' = "generate" /\ UNCHANGED <<population, nextIndex, stamped, drafts>>
    BY <1>2 DEF RankAndSelect
  <2>3. DOMAIN screened \in SUBSET Nat /\ IsFiniteSet(DOMAIN screened) /\ Represented(DOMAIN screened)
    <3>1. DOMAIN screened \in SUBSET DOMAIN population /\ Represented(DOMAIN screened)
      BY <2>2 DEF LoopInv
    <3> QED BY <3>1, FS_Subset DEF LoopInv, Places
  <2>4. order \in Seq(DOMAIN screened) /\ \A i \in DOMAIN screened : \E p \in DOMAIN order : order[p] = i
    BY <2>3, RankingsReach
  <2>5. ASSUME NEW l \in Asked
        PROVE  \E i \in Range(selected') : l \in population[i].parents
    <3>1. PICK p \in DOMAIN order : l \in ParentsOf(order[p])
      BY <2>3, <2>4 DEF Represented, ParentsOf
    <3>2. PICK k \in DOMAIN SelectWinners(order) : l \in ParentsOf(SelectWinners(order)[k])
      BY <2>4, <3>1, WinnersServe DEF Asked
    <3> QED BY <2>1, <3>2 DEF Range, ParentsOf
  <2>6. Represented(Winners)'
    BY <2>2, <2>5 DEF Represented, Asked, Winners
  <2>7. Places' /\ Represented(DOMAIN population)'
    BY <2>2 DEF LoopInv, Places, Represented, Asked
  <2> QED BY <2>2, <2>6, <2>7 DEF LoopInv
<1>3. ASSUME UNCHANGED <<population, nextIndex, stamped, selected>>, drafts' \in Seq(Range(drafts')),
             wphase \in {"generate", "admit"}, wphase' \in {"admit", "cluster"}
      PROVE  LoopInv'
  <2>1. Places' /\ Represented(DOMAIN population)' /\ Represented(Winners)'
    BY <1>3 DEF LoopInv, Places, Represented, Asked, Winners
  <2> QED BY <1>3, <2>1 DEF LoopInv
<1>4. ASSUME NEW s, NEW S, s \in Seq(Range(s)), S \in SUBSET DOMAIN s
      PROVE  At(s, S) \in Seq(Range(At(s, S)))
  <2>1. PICK m \in Nat : S \in SUBSET (1 .. m)
    BY <1>4, LenProperties
  <2>2. Cardinality(S) \in Nat
    BY <2>1, UpToCounted, FS_Subset, FS_CardinalityType
  <2>3. PICK a : a = At(s, S)
    OBVIOUS
  <2>4. a = [k \in 1 .. Cardinality(S) |-> a[k]] /\ DOMAIN a = 1 .. Cardinality(S)
    BY <2>3 DEF At
  <2>5. a \in [1 .. Cardinality(S) -> Range(a)]
    BY <2>4 DEF Range
  <2> QED BY <2>2, <2>3, <2>5, SeqDef
<1>5. CASE EvolveGenerative
  <2>1. PICK rows \in Drafts : drafts' = At(rows, {k \in DOMAIN rows : UsableRow(rows[k])})
    BY <1>5 DEF EvolveGenerative
  <2>2. rows \in Seq(Range(rows))
    BY LoopAssumption
  <2>3. PICK S : S = {k \in DOMAIN rows : UsableRow(rows[k])} /\ S \in SUBSET DOMAIN rows
    OBVIOUS
  <2>4. drafts' \in Seq(Range(drafts'))
    BY <1>4, <2>1, <2>2, <2>3
  <2>5. UNCHANGED <<population, nextIndex, stamped, selected>> /\ wphase = "generate" /\ wphase' = "admit"
    BY <1>5 DEF EvolveGenerative
  <2> QED BY <1>3, <2>4, <2>5
<1>6. CASE AdmitInventedAngles
  <2>1. drafts' = At(drafts, {k \in DOMAIN drafts : drafts[k].move # "INVENT"})
    BY <1>6 DEF AdmitInventedAngles
  <2>2. PICK S : S = {k \in DOMAIN drafts : drafts[k].move # "INVENT"} /\ S \in SUBSET DOMAIN drafts
    OBVIOUS
  <2>3. drafts \in Seq(Range(drafts))
    BY DEF LoopInv
  <2>4. drafts' \in Seq(Range(drafts'))
    BY <1>4, <2>1, <2>2, <2>3
  <2>5. UNCHANGED <<population, nextIndex, stamped, selected>> /\ wphase = "admit" /\ wphase' = "cluster"
    BY <1>6 DEF AdmitInventedAngles
  <2> QED BY <1>3, <2>4, <2>5
<1>7. CASE ClusterDrafts
  <2> DEFINE new == StampLoopCandidates
  <2>1. /\ wphase = "cluster" /\ wphase' = "verdict" /\ UNCHANGED <<population, selected>> /\ drafts' = <<>>
        /\ \E ids, shadow : stamped' = ClusterCandidates(new, ids, shadow)
        /\ nextIndex' = nextIndex + Cardinality(DOMAIN new)
    BY <1>7 DEF ClusterDrafts
  <2>2. PICK m \in Nat : Len(drafts) = m
    BY LenProperties DEF LoopInv
  <2>4. DOMAIN new = nextIndex .. nextIndex + m - 1
    BY <2>2 DEF StampLoopCandidates, FirstIndex
  <2>5. IsFiniteSet(DOMAIN new) /\ Cardinality(DOMAIN new) = m
    <3>1. nextIndex \in Int /\ nextIndex + m - 1 \in Int /\ nextIndex \in Nat
      BY DEF LoopInv
    <3>2. /\ IsFiniteSet(nextIndex .. (nextIndex + m - 1))
          /\ Cardinality(nextIndex .. (nextIndex + m - 1)) =
                IF nextIndex > nextIndex + m - 1 THEN 0 ELSE (nextIndex + m - 1) - nextIndex + 1
      BY <3>1, FS_Interval
    <3> HIDE DEF new
    <3> QED BY <2>4, <3>1, <3>2
  <2>6. DOMAIN stamped' \in SUBSET DOMAIN new
    BY <2>1 DEF ClusterCandidates
  <2> HIDE DEF new
  <2>7. /\ nextIndex' \in Nat /\ DOMAIN stamped' \in SUBSET Nat /\ nextIndex' = nextIndex + m
        /\ \A i \in DOMAIN stamped' : i < nextIndex' /\ i >= nextIndex
    BY <2>1, <2>4, <2>5, <2>6 DEF LoopInv
  <2>8. IsFiniteSet(DOMAIN stamped')
    BY <2>5, <2>6, FS_Subset
  <2>9. \A i \in DOMAIN population : i \in Nat /\ i < nextIndex
    BY <2>1 DEF LoopInv, Places
  <2>10. \A i \in DOMAIN stamped' : i < nextIndex' /\ i \notin DOMAIN population
    BY <2>7, <2>9 DEF LoopInv
  <2>11. \A i \in DOMAIN population : i < nextIndex'
    BY <2>7, <2>9 DEF LoopInv
  <2>12. Places' /\ Represented(DOMAIN population)' /\ Represented(Winners)'
    BY <2>1 DEF LoopInv, Places, Represented, Asked, Winners
  <2>13. drafts' \in Seq(Range(drafts'))
    BY <2>1, EmptySeq
  <2> QED BY <2>1, <2>7, <2>8, <2>10, <2>11, <2>12, <2>13 DEF LoopInv
<1>8. CASE ExitVerdict
  <2>1. /\ wphase = "verdict" /\ wphase' \in {"done", "critique"} /\ UNCHANGED <<drafts, nextIndex>> /\ stamped' = <<>>
        /\ \/ population' = population
           \/ population' = [i \in PoolAfterBars \cup DOMAIN stamped |-> IF i \in DOMAIN stamped THEN stamped[i] ELSE population[i]]
    BY <1>8 DEF ExitVerdict
  <2>2. DOMAIN stamped' = {} /\ IsFiniteSet({})
    BY <2>1, FS_EmptySet
  <2>3. PoolAfterBars \in SUBSET DOMAIN population /\ Labels \cap Covered(DOMAIN population) \in SUBSET Covered(PoolAfterBars)
    BY PoolCovers DEF LoopInv
  <2>4. CASE population' = population
    <3>1. Places' /\ Represented(DOMAIN population)' /\ (\A i \in DOMAIN population : i < nextIndex)'
      BY <2>1, <2>4 DEF LoopInv, Places, Represented, Asked
    <3> QED BY <2>1, <2>2, <3>1 DEF LoopInv
  <2>5. CASE population' = [i \in PoolAfterBars \cup DOMAIN stamped |-> IF i \in DOMAIN stamped THEN stamped[i] ELSE population[i]]
    <3>1. DOMAIN population' = PoolAfterBars \cup DOMAIN stamped
      BY <2>5
    <3>2. IsFiniteSet(PoolAfterBars)
      BY <2>3, FS_Subset DEF LoopInv, Places
    <3>3. Places'
      <4>1. DOMAIN stamped \in SUBSET Nat /\ IsFiniteSet(DOMAIN stamped) /\ DOMAIN population \in SUBSET Nat
        BY DEF LoopInv, Places
      <4>2. IsFiniteSet(PoolAfterBars \cup DOMAIN stamped)
        BY <3>2, <4>1, FS_Union
      <4>3. PoolAfterBars \cup DOMAIN stamped \in SUBSET Nat
        BY <2>3, <4>1
      <4> QED BY <3>1, <4>2, <4>3 DEF Places
    <3>4. ASSUME NEW l \in Asked PROVE \E i \in DOMAIN population' : l \in population'[i].parents
      <4>1. PICK i \in PoolAfterBars : l \in population[i].parents
        <5>1. l \in Labels \cap Covered(DOMAIN population)
          BY DEF Asked, LoopInv, Represented, Covered, ParentsOf
        <5> QED BY <2>3, <5>1 DEF Covered, ParentsOf
      <4>2. i \notin DOMAIN stamped
        BY <2>3 DEF LoopInv
      <4>3. population'[i] = population[i] /\ i \in DOMAIN population'
        BY <2>5, <3>1, <4>2
      <4> QED BY <4>1, <4>3
    <3>5. Represented(DOMAIN population)'
      BY <3>4 DEF Represented, Asked
    <3>6. (\A i \in DOMAIN population : i < nextIndex)'
      BY <2>1, <2>3, <3>1 DEF LoopInv
    <3> QED BY <2>1, <2>2, <3>3, <3>5, <3>6 DEF LoopInv
  <2> QED BY <2>1, <2>4, <2>5
<1>9. CASE StageBCrash
  <2>1. /\ wphase' = "fallback" /\ population' = StageAPool /\ nextIndex' = 0 /\ drafts' = <<>> /\ stamped' = <<>>
    BY <1>9 DEF StageBCrash
  <2>2. drafts' \in Seq(Range(drafts')) /\ DOMAIN stamped' = {} /\ IsFiniteSet({})
    BY <2>1, EmptySeq, FS_EmptySet
  <2>3. Places' /\ Represented(DOMAIN population)'
    BY <2>1, LoopAssumption DEF Places, Represented, Asked, Range
  <2> QED BY <2>1, <2>2, <2>3 DEF LoopInv
<1>10. CASE UNCHANGED loopvars
  BY <1>10 DEF loopvars, LoopInv, Places, Represented, Asked, Winners
<1> QED BY <1>1, <1>2, <1>5, <1>6, <1>7, <1>8, <1>9, <1>10 DEF LoopNext

(* No client question is lost in the loop: whatever is killed, barred, merged *)
(* or outranked, every question stage A had a candidate for has one in the    *)
(* pool and, once winners are chosen, a winner of its own.  The second half   *)
(* needs a floor: with none, a question the pool serves may win nothing.      *)
THEOREM NoQuestionLostHolds ==
  ASSUME FloorPerQuestion > 0
  PROVE  LoopSpec => []NoQuestionLost
<1>1. LoopInit => LoopInv
  <2>1. SUFFICES ASSUME LoopInit PROVE LoopInv
    OBVIOUS
  <2>2. wphase = "critique" /\ population = StageAPool /\ drafts = <<>> /\ stamped = <<>> /\ nextIndex = Bound(DOMAIN StageAPool) + 1
    BY <2>1 DEF LoopInit
  <2>3. nextIndex \in Nat /\ \A i \in DOMAIN StageAPool : i < nextIndex
    <3> DEFINE D == DOMAIN StageAPool
    <3>1. D \in SUBSET Nat /\ IsFiniteSet(D) /\ nextIndex = Bound(D) + 1
      BY <2>2, LoopAssumption
    <3> HIDE DEF D
    <3>2. CASE D = {}
      BY <3>1, <3>2 DEF Bound, D
    <3>3. CASE D # {}
      <4>1. Bound(D) \in D /\ \A x \in D : x <= Bound(D)
        BY <3>1, <3>3, FiniteGreatest DEF Bound
      <4> QED BY <3>1, <4>1 DEF D
    <3> QED BY <3>2, <3>3
  <2>4. drafts \in Seq(Range(drafts)) /\ DOMAIN stamped = {} /\ IsFiniteSet({})
    BY <2>2, EmptySeq, FS_EmptySet
  <2>5. Places /\ Represented(DOMAIN population)
    BY <2>2, LoopAssumption DEF Places, Represented, Asked, Range
  <2> QED BY <2>2, <2>3, <2>4, <2>5 DEF LoopInv
<1>2. LoopInv /\ [LoopNext]_loopvars => LoopInv'
  BY LoopStep
<1>3. LoopInv => NoQuestionLost
  BY DEF LoopInv, NoQuestionLost, Represented, Asked, Covered, ParentsOf
<1> QED BY <1>1, <1>2, <1>3, PTL DEF LoopSpec

---------------------------------------------------------------------------
(* The division (ResearchDivision).  Whatever is handed over, the angles are  *)
(* numbered from one.                                                         *)
Numbering(f) == \E n \in Nat : DOMAIN f = 1 .. n

LEMMA ListsAreNumbered ==
  ASSUME NEW S, NEW s \in Seq(S)
  PROVE  Numbering(s) /\ IsFiniteSet(DOMAIN s) /\ DOMAIN s \in SUBSET Nat /\ Len(s) \in Nat
<1>1. Len(s) \in Nat /\ DOMAIN s = 1 .. Len(s)
  BY LenProperties
<1>2. IsFiniteSet(1 .. Len(s))
  BY <1>1, FS_Interval
<1>3. 1 .. Len(s) \in SUBSET Nat
  BY <1>1
<1> QED BY <1>1, <1>2, <1>3 DEF Numbering

LEMMA NumberedIsFinite ==
  ASSUME NEW s, Numbering(s)
  PROVE  IsFiniteSet(DOMAIN s) /\ DOMAIN s \in SUBSET Nat
<1>1. PICK n \in Nat : DOMAIN s = 1 .. n
  BY DEF Numbering
<1> QED BY <1>1, FS_Interval

LEMMA NumberedIsList ==
  ASSUME NEW s, Numbering(s), s = [k \in DOMAIN s |-> s[k]]
  PROVE  s \in Seq(Range(s)) /\ Len(s) \in Nat /\ DOMAIN s = 1 .. Len(s)
<1>1. PICK n \in Nat : DOMAIN s = 1 .. n
  BY DEF Numbering
<1>2. s \in [1 .. n -> Range(s)]
  BY <1>1 DEF Range
<1>3. s \in Seq(Range(s))
  BY <1>2, SeqDef
<1> QED BY <1>3, LenProperties

LEMMA UpwardsNumbered ==
  ASSUME NEW S \in SUBSET Nat, IsFiniteSet(S)
  PROVE  Numbering(Upwards(S)) /\ \A n \in DOMAIN Upwards(S) : Upwards(S)[n] \in S
<1>1. Upwards(S) \in [1 .. Cardinality(S) -> S] /\ Cardinality(S) \in Nat
  BY Ascends DEF Upwards
<1> QED BY <1>1 DEF Numbering

LEMMA SomeUpwards ==
  ASSUME NEW s, Numbering(s), NEW S \in SUBSET DOMAIN s
  PROVE  Numbering(Upwards(S))
<1>1. S \in SUBSET Nat /\ IsFiniteSet(S)
  BY NumberedIsFinite, FS_Subset
<1> QED BY <1>1, UpwardsNumbered

LEMMA AreasNumbered ==
  ASSUME NEW w \in Workshops
  PROVE  Numbering(NormaliseWinners(w)) /\ Numbering(MissionBrief(w))
<1>1. Numbering(w.winners) /\ Numbering(w.labels)
  BY DivisionAssumption, ListsAreNumbered
<1>2. DOMAIN NormaliseWinners(w) = DOMAIN w.winners
  BY DEF NormaliseWinners
<1>3. Numbering(NormaliseWinners(w))
  BY <1>1, <1>2 DEF Numbering
<1> DEFINE ws     == NormaliseWinners(w)
           S      == {k \in DOMAIN ws : \A j \in DOMAIN ws : ws[j].parent = ws[k].parent => k <= j}
           firsts == Upwards(S)
           parents == [n \in DOMAIN firsts |-> ws[firsts[n]].parent]
<1>4. AreaLabels(w, ws) = IF w.labels # <<>> THEN w.labels ELSE IF parents # <<>> THEN parents ELSE <<"general">>
  BY DEF AreaLabels
<1>5. Numbering(firsts)
  <2>1. S \in SUBSET DOMAIN ws
    OBVIOUS
  <2> HIDE DEF S, ws
  <2> QED BY <1>3, <2>1, SomeUpwards DEF ws
<1> HIDE DEF firsts
<1>6. Numbering(parents)
  BY <1>5 DEF Numbering
<1> HIDE DEF parents
<1>7. Numbering(<<"general">>)
  <2>1. DOMAIN <<"general">> = 1 .. 1
    OBVIOUS
  <2> QED BY <2>1 DEF Numbering
<1>8. Numbering(AreaLabels(w, ws))
  BY <1>1, <1>4, <1>6, <1>7
<1> HIDE DEF ws
<1>9. DOMAIN FocusAreas(AreaLabels(w, ws), ws) = DOMAIN AreaLabels(w, ws)
  BY DEF FocusAreas
<1>10. Numbering(FocusAreas(AreaLabels(w, ws), ws))
  BY <1>8, <1>9 DEF Numbering
<1> QED BY <1>3, <1>10 DEF MissionBrief, ws

LEMMA ByAreaNumbered ==
  ASSUME NEW areas, Numbering(areas)
  PROVE  Numbering(DivideByArea(areas))
<1> DEFINE all   == {p \in (DOMAIN areas) \X {0, 1} : p[2] = 0 \/ areas[p[1]].stakes = "high"}
           c     == IF Cardinality(all) > MaxAngles THEN MaxAngles ELSE Cardinality(all)
<1>2. IsFiniteSet(DOMAIN areas)
  BY NumberedIsFinite
<1>3. IsFiniteSet((DOMAIN areas) \X {0, 1})
  <2>1. IsFiniteSet({0, 1})
    <3>1. IsFiniteSet({0})
      BY FS_Singleton
    <3>2. IsFiniteSet({0} \cup {1})
      BY <3>1, FS_AddElement
    <3> QED BY <3>2
  <2> QED BY <1>2, <2>1, FS_Product
<1>4. IsFiniteSet(all)
  <2>1. all \in SUBSET ((DOMAIN areas) \X {0, 1})
    OBVIOUS
  <2> HIDE DEF all
  <2> QED BY <1>3, <2>1, FS_Subset
<1>5. c \in Nat
  BY <1>4, FS_CardinalityType, DivisionAssumption
<1>6. DOMAIN DivideByArea(areas) = 1 .. c
  BY DEF DivideByArea
<1> QED BY <1>5, <1>6 DEF Numbering

LEMMA FromWinnersNumbered ==
  ASSUME NEW w \in Workshops, NEW areas, Numbering(areas), NEW ws
  PROVE  Numbering(DivideFromWinners(w, areas, ws))
<1> DEFINE gs == IF w.groups = <<>> THEN FallbackByParent(w, areas, ws) ELSE BoundGroups(w, ws)
<1>1. DivideFromWinners(w, areas, ws) = IF gs = <<>> THEN DivideByArea(areas)
                             ELSE [n \in 1 .. (Len(gs) * Len(Streams)) |-> GroupAngle(areas, gs, n)]
  BY DEF DivideFromWinners
<1>2. Numbering(FallbackByParent(w, areas, ws))
  <2> DEFINE Of(l) == {v \in Range(ws) : v.parent = l \/ (l = Default(w) /\ v.parent \notin Range(w.labels))}
             S     == {k \in DOMAIN areas : Of(areas[k].area) # {}}
  <2>1. DOMAIN FallbackByParent(w, areas, ws) = DOMAIN Upwards(S)
    BY DEF FallbackByParent
  <2>2. S \in SUBSET DOMAIN areas
    OBVIOUS
  <2> HIDE DEF S
  <2> QED BY <2>1, <2>2, SomeUpwards DEF Numbering
<1>3. Numbering(BoundGroups(w, ws))
  <2> DEFINE texts  == {v.text : v \in Range(ws)}
             Cut(g) == {m \in Range(g.members) : m.rider \/ m.text \in texts}
             S      == {k \in DOMAIN w.groups : Cut(w.groups[k]) # {}}
  <2>1. DOMAIN BoundGroups(w, ws) = DOMAIN Upwards(S)
    BY DEF BoundGroups
  <2>2. S \in SUBSET DOMAIN w.groups
    OBVIOUS
  <2>3. Numbering(w.groups)
    BY DivisionAssumption, ListsAreNumbered
  <2> HIDE DEF S
  <2> QED BY <2>1, <2>2, <2>3, SomeUpwards DEF Numbering
<1>4. Numbering(gs)
  BY <1>2, <1>3
<1> HIDE DEF gs
<1>5. Len(gs) \in Nat
  <2>1. gs = [k \in DOMAIN gs |-> gs[k]]
    BY DEF gs, FallbackByParent, BoundGroups
  <2> QED BY <1>4, <2>1, NumberedIsList
<1>6. Len(Streams) \in Nat
  BY DivisionAssumption, LenProperties
<1>7. Len(gs) * Len(Streams) \in Nat
  BY <1>5, <1>6
<1> DEFINE c == Len(gs) * Len(Streams)
<1> HIDE DEF c
<1>8. CASE gs = <<>>
  BY <1>1, <1>8, ByAreaNumbered
<1>9. CASE gs # <<>>
  <2>1. DOMAIN DivideFromWinners(w, areas, ws) = 1 .. c
    BY <1>1, <1>9 DEF c
  <2> QED BY <1>7, <2>1 DEF Numbering, c
<1> QED BY <1>8, <1>9

(* The ladder.  An area's first angle stays, so the area does; once a copy a  *)
(* group needs is given up, no group has a copy to spare, and removing more   *)
(* gives none back.                                                           *)
CopyLost == \E n \in DOMAIN trims : trims[n].kind = "corroboration_lost"
LadderInv ==
    /\ Numbering(angles) /\ Protected \in SUBSET kept /\ kept \in SUBSET DOMAIN angles
    /\ trims \in Seq([angle : Nat, kind : {"surplus", "corroboration", "corroboration_lost"}])
    /\ CopyLost => \A k \in kept \ Protected : Cardinality(Copies(kept, k)) <= MinCorroboration
    /\ dphase = "trimmed" => Cardinality(kept) <= MaxAngles \/ kept \in SUBSET Protected

LEMMA DivideStep ==
  ASSUME Divide
  PROVE  LadderInv'
<1>1. PICK w \in Workshops :
        angles' = IF w.winners = <<>> THEN DivideByArea(MissionBrief(w))
                  ELSE DivideFromWinners(w, MissionBrief(w), Dispatched(NormaliseWinners(w)))
  BY DEF Divide
<1>2. Numbering(angles')
  BY <1>1, AreasNumbered, ByAreaNumbered, FromWinnersNumbered
<1>3. kept' = DOMAIN angles' /\ trims' = <<>> /\ dphase' = "divided"
  BY DEF Divide
<1>4. trims' \in Seq([angle : Nat, kind : {"surplus", "corroboration", "corroboration_lost"}]) /\ ~CopyLost'
  <2>1. DOMAIN <<>> = {}
    BY EmptySeq
  <2> QED BY <1>3, <2>1, EmptySeq DEF CopyLost
<1>5. Protected' \in SUBSET kept'
  BY <1>3 DEF Protected
<1> QED BY <1>2, <1>3, <1>4, <1>5 DEF LadderInv

LEMMA TrimStep ==
  ASSUME LadderInv, TrimLadder
  PROVE  LadderInv'
<1>1. PICK victim \in Rung.rung : /\ kept' = kept \ {victim}
                                  /\ trims' = Append(trims, [angle |-> victim, kind |-> Rung.kind])
  BY DEF TrimLadder
<1>2. UNCHANGED <<dphase, angles>> /\ dphase = "divided"
  BY DEF TrimLadder
<1>3. /\ Rung.rung \in SUBSET (kept \ Protected)
      /\ Rung.kind \in {"surplus", "corroboration", "corroboration_lost"}
      /\ Rung.kind = "corroboration_lost" => Spare = {}
  BY DEF Rung, Surplus, Spare
<1>4. kept \in SUBSET DOMAIN angles /\ DOMAIN angles \in SUBSET Nat /\ IsFiniteSet(kept)
  BY NumberedIsFinite, FS_Subset DEF LadderInv
<1>5. Protected' = Protected /\ \A S, k : Copies(S, k)' = Copies(S, k)
  BY <1>2 DEF Protected, Copies
<1>6. Protected' \in SUBSET kept' /\ kept' \in SUBSET DOMAIN angles'
  BY <1>1, <1>2, <1>3, <1>5 DEF LadderInv
<1> DEFINE T == [angle : Nat, kind : {"surplus", "corroboration", "corroboration_lost"}]
           e == [angle |-> victim, kind |-> Rung.kind]
<1>7. e \in T /\ trims \in Seq(T) /\ e.kind = Rung.kind
  BY <1>3, <1>4 DEF LadderInv
<1> HIDE DEF e
<1>8. /\ trims' \in Seq(T)
      /\ \A n \in DOMAIN trims' : trims'[n] = e \/ (n \in DOMAIN trims /\ trims'[n] = trims[n])
  <2>1. trims' = Append(trims, e)
    BY <1>1 DEF e
  <2> HIDE DEF T
  <2> QED BY <1>7, <2>1, AppendProperties, LenProperties
<1>9. CopyLost' => CopyLost \/ Spare = {}
  BY <1>3, <1>7, <1>8 DEF CopyLost
<1>10. ASSUME CopyLost', NEW k \in kept' \ Protected'
       PROVE  Cardinality(Copies(kept, k)') <= MinCorroboration
  <2> DEFINE new == {j \in kept' : angles[j].group = angles[k].group /\ angles[j].group # 0}
  <2>0. Copies(kept, k)' = new
    BY <1>2 DEF Copies
  <2>1. k \in kept \ Protected
    BY <1>1, <1>5
  <2>2. new \in SUBSET Copies(kept, k) /\ Copies(kept, k) \in SUBSET kept
    BY <1>1 DEF Copies, new
  <2> HIDE DEF new
  <2>3. /\ Cardinality(new) <= Cardinality(Copies(kept, k))
        /\ Cardinality(new) \in Nat /\ Cardinality(Copies(kept, k)) \in Nat
    BY <1>4, <2>2, FS_Subset, FS_CardinalityType
  <2>4. MinCorroboration \in Nat
    BY DivisionAssumption
  <2>5. CASE CopyLost
    <3>1. Cardinality(Copies(kept, k)) <= MinCorroboration
      BY <1>10, <2>1, <2>5 DEF LadderInv
    <3> QED BY <2>0, <2>3, <2>4, <3>1
  <2>6. CASE Spare = {}
    <3>1. ~(Cardinality(Copies(kept, k)) > MinCorroboration)
      BY <2>1, <2>6 DEF Spare
    <3> QED BY <2>0, <2>3, <2>4, <3>1
  <2> QED BY <1>9, <1>10, <2>5, <2>6
<1>11. Numbering(angles') /\ dphase' # "trimmed"
  BY <1>2 DEF LadderInv
<1> QED BY <1>6, <1>8, <1>10, <1>11 DEF LadderInv, Copies

LEMMA LadderStep == LadderInv /\ [DNext]_dvars => LadderInv'
<1> SUFFICES ASSUME LadderInv, [DNext]_dvars PROVE LadderInv'
  OBVIOUS
<1>1. CASE DispatchAngles
  <2>1. UNCHANGED <<angles, kept, trims>> /\ (Cardinality(kept) <= MaxAngles \/ Rung.rung = {})
    BY <1>1 DEF DispatchAngles
  <2>2. Rung.rung = {} => kept \in SUBSET Protected
    <3>1. CASE Surplus # {}
      BY <3>1 DEF Rung
    <3>2. CASE Surplus = {} /\ Spare # {}
      BY <3>2 DEF Rung
    <3>3. CASE Surplus = {} /\ Spare = {}
      <4>1. Rung.rung = kept \ Protected
        BY <3>3 DEF Rung
      <4> QED BY <4>1
    <3> QED BY <3>1, <3>2, <3>3
  <2> QED BY <2>1, <2>2 DEF LadderInv, Protected, Copies, CopyLost
<1>2. CASE UNCHANGED dvars
  BY <1>2 DEF dvars, LadderInv, Protected, Copies, CopyLost
<1> QED BY <1>1, <1>2, DivideStep, TrimStep DEF DNext

(* Trimming leaves no area without research, stops at the ceiling or at the   *)
(* areas' first angles, and gives up needed copies last, whatever is handed   *)
(* over.                                                                      *)
THEOREM TrimInOrderHolds == DSpec => []TrimInOrder
<1>1. DInit => LadderInv
  <2>1. SUFFICES ASSUME DInit PROVE LadderInv
    OBVIOUS
  <2>2. angles = <<>> /\ kept = {} /\ trims = <<>> /\ dphase = "start"
    BY <2>1 DEF DInit
  <2>3. DOMAIN <<>> = {} /\ DOMAIN <<>> = 1 .. 0
    BY EmptySeq
  <2>4. Numbering(angles)
    BY <2>2, <2>3 DEF Numbering
  <2>5. Protected = {} /\ ~CopyLost
    BY <2>2, <2>3 DEF Protected, CopyLost
  <2> QED BY <2>2, <2>4, <2>5, EmptySeq DEF LadderInv
<1>2. LadderInv => TrimInOrder
  <2>1. SUFFICES ASSUME LadderInv, dphase = "trimmed" PROVE TrimInOrder
    BY DEF TrimInOrder
  <2>2. ASSUME NEW k \in DOMAIN angles
        PROVE  \E j \in kept : angles[j].area = angles[k].area
    <3> DEFINE S == {j \in DOMAIN angles : angles[j].area = angles[k].area}
    <3>1. S \in SUBSET Nat /\ S # {}
      BY <2>1, NumberedIsFinite DEF LadderInv
    <3>2. PICK j \in S : \A i \in S : j <= i
      <4> HIDE DEF S
      <4> QED BY <3>1, LeastExists
    <3>3. j \in Protected
      BY <3>2 DEF Protected
    <3> QED BY <2>1, <3>2, <3>3 DEF LadderInv
  <2>3. {angles[k].area : k \in kept} = {angles[k].area : k \in DOMAIN angles}
    BY <2>1, <2>2 DEF LadderInv
  <2>4. Cardinality(kept) <= MaxAngles \/ kept \subseteq Protected
    BY <2>1 DEF LadderInv
  <2>5. CopyLost => \A k \in kept \ Protected : Cardinality(Copies(kept, k)) <= MinCorroboration
    BY <2>1 DEF LadderInv
  <2> QED BY <2>3, <2>4, <2>5 DEF TrimInOrder, CopyLost
<1> QED BY <1>1, <1>2, LadderStep, PTL DEF DSpec

---------------------------------------------------------------------------
(* Stage B's groups (WorkshopGroups).  What the coverage check needs of the   *)
(* groups it reads is their form only: whatever grouping, clamping and the    *)
(* riders did, a question no client member serves gets a group of its own     *)
(* there, and a discovery question that leaves a group is told.               *)
AreQuestions(s) == IsList(s) /\ \A k \in DOMAIN s : IsQuestion(s[k])
IsGroup(g) == g \in [bracket : {g.bracket}, members : {g.members}] /\ AreQuestions(g.members)
AreGroups(gs) == IsList(gs) /\ \A k \in DOMAIN gs : IsGroup(gs[k])
InGroups(gs) == UNION {TextsOf(g.members) : g \in Range(gs)}
Kept(m, o) == m.text = o.text /\ m.idx = o.idx /\ m.parents = o.parents /\ m.rider = o.rider

LEMMA QuestionFields ==
  ASSUME NEW m, IsQuestion(m), NEW r \in Nat
  PROVE  IsQuestion([m EXCEPT !.rank = r]) /\ Kept([m EXCEPT !.rank = r], m) /\ [m EXCEPT !.rank = r].rank = r
<1> DEFINE q == [m EXCEPT !.rank = r]
<1>1. PICK t, i, p : t = m.text /\ i = m.idx /\ p = m.parents
  OBVIOUS
<1>2. m \in [text : {t}, idx : {i}, parents : {p}, rank : Nat, rider : BOOLEAN]
  BY <1>1 DEF IsQuestion
<1>3. q \in [text : {t}, idx : {i}, parents : {p}, rank : Nat, rider : BOOLEAN] /\ q.rider = m.rider /\ q.rank = r
  BY <1>2
<1> HIDE DEF q
<1>4. q.text = t /\ q.idx = i /\ q.parents = p
  BY <1>3
<1> QED BY <1>1, <1>3, <1>4 DEF IsQuestion, Kept, q

LEMMA RewordedQuestion ==
  ASSUME NEW m, IsQuestion(m), NEW t
  PROVE  IsQuestion([m EXCEPT !.text = t])
<1> DEFINE q == [m EXCEPT !.text = t]
<1>1. PICK i, p : i = m.idx /\ p = m.parents
  OBVIOUS
<1>2. q \in [text : {t}, idx : {i}, parents : {p}, rank : Nat, rider : BOOLEAN]
  BY <1>1 DEF IsQuestion
<1> HIDE DEF q
<1>3. q.text = t /\ q.idx = i /\ q.parents = p
  BY <1>2
<1> QED BY <1>2, <1>3 DEF IsQuestion, q

LEMMA MadeQuestions ==
  /\ \A l, n : n \in Nat =>
        LET q == [VerbatimWinner(l) EXCEPT !.idx = n - 1, !.rank = n]
        IN  IsQuestion(q) /\ Has(q, l) /\ ~q.rider
  /\ \A l : IsQuestion(VerbatimWinner(l)) /\ Has(VerbatimWinner(l), l) /\ ~VerbatimWinner(l).rider
<1>1. ASSUME NEW l, NEW n \in Nat, NEW q, q = [VerbatimWinner(l) EXCEPT !.idx = n - 1, !.rank = n]
      PROVE  IsQuestion(q) /\ Has(q, l) /\ ~q.rider
  <2>1. PICK ps : ps = <<l>>
    OBVIOUS
  <2>2. VerbatimWinner(l) \in [text : {l}, idx : {-1}, parents : {ps}, rank : {0}, rider : {FALSE}]
    BY <2>1 DEF VerbatimWinner
  <2>3. q \in [text : {l}, idx : {n - 1}, parents : {ps}, rank : {n}, rider : {FALSE}]
    BY <1>1, <2>2
  <2>4. q.text = l /\ q.idx = n - 1 /\ q.parents = ps /\ q.rider = FALSE
    BY <2>3
  <2>5. IsQuestion(q)
    BY <2>3, <2>4 DEF IsQuestion
  <2>6. l \in Range(<<l>>)
    BY OneList
  <2> QED BY <2>1, <2>4, <2>5, <2>6 DEF Has
<1>2. ASSUME NEW l
      PROVE  IsQuestion(VerbatimWinner(l)) /\ Has(VerbatimWinner(l), l) /\ ~VerbatimWinner(l).rider
  <2>1. l \in Range(<<l>>)
    BY OneList
  <2> QED BY <2>1 DEF IsQuestion, VerbatimWinner, Has
<1> QED BY <1>1, <1>2

LEMMA QuestionMade ==
  ASSUME NEW t, NEW p
  PROVE  IsQuestion(Question(t, p))
BY DEF IsQuestion, Question

LEMMA QuestionsIn ==
  ASSUME NEW s, IsList(s)
  PROVE  AreQuestions(s) <=> \A m \in Range(s) : IsQuestion(m)
BY DEF AreQuestions, Range

LEMMA QuestionsJoined ==
  ASSUME NEW a, NEW b, AreQuestions(a), AreQuestions(b)
  PROVE  AreQuestions(a \o b)
<1>1. IsList(a) /\ IsList(b) /\ IsList(a \o b) /\ Range(a \o b) = Range(a) \cup Range(b)
  BY ListJoined DEF AreQuestions
<1> QED BY <1>1, QuestionsIn

LEMMA QuestionsAppended ==
  ASSUME NEW a, NEW m, AreQuestions(a), IsQuestion(m)
  PROVE  AreQuestions(Append(a, m))
<1>1. IsList(a) /\ IsList(Append(a, m)) /\ Range(Append(a, m)) = Range(a) \cup {m}
  BY ListAppended DEF AreQuestions
<1> QED BY <1>1, QuestionsIn

(* What a list has at some of its places, in order.                           *)
LEMMA ThoseAre ==
  ASSUME NEW s, IsList(s), NEW S \in SUBSET DOMAIN s
  PROVE  /\ IsList(Those(s, S)) /\ Range(Those(s, S)) = {s[k] : k \in S}
         /\ \A n \in DOMAIN Those(s, S) : Those(s, S)[n] \in Range(s)
<1>1. Len(s) \in Nat /\ DOMAIN s = 1 .. Len(s)
  BY ListIs
<1>2. S \in SUBSET Nat /\ IsFiniteSet(S)
  <2>1. IsFiniteSet(1 .. Len(s))
    BY <1>1, UpToCounted
  <2> QED BY <1>1, <2>1, FS_Subset
<1> DEFINE a == Ascending(S)
           t == Those(s, S)
           n == Cardinality(S)
<1>3. n \in Nat /\ a \in [1 .. n -> S] /\ \A i \in S : \E k \in 1 .. n : a[k] = i
  BY <1>2, Ascends DEF Ascending
<1>4. DOMAIN t = 1 .. n /\ t = [k \in 1 .. n |-> t[k]] /\ \A k \in 1 .. n : t[k] = s[a[k]]
  BY DEF Those
<1> HIDE DEF a, t, n
<1>5. IsList(t)
  BY <1>3, <1>4, IsListFrom
<1>6. Range(t) = {s[k] : k \in S}
  BY <1>3, <1>4 DEF Range
<1>7. \A k \in DOMAIN t : t[k] \in Range(s)
  BY <1>3, <1>4 DEF Range
<1> QED BY <1>5, <1>6, <1>7 DEF t

LEMMA QuestionsThose ==
  ASSUME NEW s, AreQuestions(s), NEW S \in SUBSET DOMAIN s
  PROVE  AreQuestions(Those(s, S))
<1>1. IsList(s) /\ IsList(Those(s, S)) /\ Range(Those(s, S)) = {s[k] : k \in S}
  BY ThoseAre DEF AreQuestions
<1>2. \A m \in Range(Those(s, S)) : IsQuestion(m)
  BY <1>1 DEF AreQuestions
<1> QED BY <1>1, <1>2, QuestionsIn

LEMMA UnservedAre ==
  ASSUME NEW labels
  PROVE  IsList(Unserved(labels)) /\ Range(Unserved(labels)) = Clients \ labels
<1>1. IsList(ClientSeq)
  BY GroupsAssumption DEF IsList
<1> DEFINE S == {k \in DOMAIN ClientSeq : ClientSeq[k] \notin labels}
<1>2. S \in SUBSET DOMAIN ClientSeq /\ Unserved(labels) = Those(ClientSeq, S)
  BY DEF Unserved
<1>3. {ClientSeq[k] : k \in S} = Clients \ labels
  BY DEF Clients, Range
<1> HIDE DEF S
<1> QED BY <1>1, <1>2, <1>3, ThoseAre

LEMMA Reranked ==
  ASSUME NEW ws, AreQuestions(ws)
  PROVE  /\ AreQuestions(Rerank(ws)) /\ DOMAIN Rerank(ws) = DOMAIN ws
         /\ \A k \in DOMAIN ws : Kept(Rerank(ws)[k], ws[k]) /\ Rerank(ws)[k].rank = k
<1> DEFINE r == Rerank(ws)
<1>1. Len(ws) \in Nat /\ DOMAIN ws = 1 .. Len(ws)
  BY ListIs DEF AreQuestions
<1>2. DOMAIN r = 1 .. Len(ws) /\ r = [k \in 1 .. Len(ws) |-> r[k]] /\ \A k \in 1 .. Len(ws) : r[k] = [ws[k] EXCEPT !.rank = k]
  BY <1>1 DEF Rerank
<1> HIDE DEF r
<1>3. IsList(r)
  BY <1>1, <1>2, IsListFrom
<1>4. ASSUME NEW k \in 1 .. Len(ws) PROVE IsQuestion(r[k]) /\ Kept(r[k], ws[k]) /\ r[k].rank = k
  <2>1. PICK m : m = ws[k]
    OBVIOUS
  <2>2. IsQuestion(m) /\ k \in Nat
    BY <1>1, <2>1 DEF AreQuestions
  <2>3. IsQuestion([m EXCEPT !.rank = k]) /\ Kept([m EXCEPT !.rank = k], m) /\ [m EXCEPT !.rank = k].rank = k
    BY <2>2, QuestionFields
  <2>4. r[k] = [m EXCEPT !.rank = k]
    BY <1>2, <2>1
  <2> QED BY <2>1, <2>3, <2>4
<1> QED BY <1>1, <1>2, <1>3, <1>4 DEF AreQuestions, r

(* The least of a set of places is one of them.                               *)
LEMMA FirstIs ==
  ASSUME NEW S \in SUBSET Nat, S # {}
  PROVE  First(S) \in S
<1>1. \E u \in S : \A v \in S : u <= v
  BY LeastExists
<1> QED BY <1>1 DEF First

(* The candidate chosen for a question serves it and is a winner, no rider.   *)
LEMMA BestServes ==
  ASSUME NEW ranked, AreQuestions(ranked), \A k \in DOMAIN ranked : ~ranked[k].rider,
         NEW l, NEW taken
  PROVE  /\ BestFor(l, ranked, taken) \in Range(ranked) \cup {VerbatimWinner(l)}
         /\ LET q == BestFor(l, ranked, taken) IN IsQuestion(q) /\ Has(q, l) /\ ~q.rider
<1> DEFINE open == {k \in DOMAIN ranked : Has(ranked[k], l) /\ ranked[k].idx \notin taken}
<1>1. CASE open = {}
  <2>1. BestFor(l, ranked, taken) = VerbatimWinner(l)
    BY <1>1 DEF BestFor
  <2> QED BY <2>1, MadeQuestions
<1>2. CASE open # {}
  <2>1. open \in SUBSET Nat
    BY ListIs DEF AreQuestions
  <2>2. PICK k : k = First(open) /\ k \in open
    BY <1>2, <2>1, FirstIs
  <2>3. BestFor(l, ranked, taken) = ranked[k]
    BY <1>2, <2>2 DEF BestFor
  <2> QED BY <2>2, <2>3 DEF AreQuestions, Range
<1> QED BY <1>1, <1>2

LEMMA PromoteServes ==
  ASSUME NEW ranked, AreQuestions(ranked), \A k \in DOMAIN ranked : ~ranked[k].rider,
         NEW missing, IsList(missing), NEW taken
  PROVE  LET p == Promote(missing, ranked, taken)
         IN  /\ AreQuestions(p) /\ DOMAIN p = DOMAIN missing
             /\ \A k \in DOMAIN missing : Has(p[k], missing[k]) /\ ~p[k].rider
<1> DEFINE n == Len(missing)
           Best(k, s) == BestFor(missing[k], ranked, IdxOf(s) \cup taken)
           Then(k, s) == Append(s, Best(k, s))
           M == Range(ranked) \cup {VerbatimWinner(l) : l \in Range(missing)}
           X == {s \in Seq(M) : AreQuestions(s)}
           ServesFirst(s, k) == Len(s) = k /\ \A j \in 1 .. k : Has(s[j], missing[j]) /\ ~s[j].rider
           T == [k \in 0 .. n |-> {s \in X : ServesFirst(s, k)}]
           step == [k \in 1 .. n |-> [s \in X |-> Then(k, s)]]
           Is(f) == f = [k \in 0 .. n |-> IF k = 0 THEN <<>> ELSE Then(k, f[k - 1])]
<1>1. n \in Nat /\ DOMAIN missing = 1 .. n
  BY ListIs
<1>2. ASSUME NEW k \in 1 .. n, NEW s \in T[k - 1]
      PROVE  s \in X /\ Then(k, s) \in T[k]
  <2>1. k - 1 \in 0 .. n /\ k \in 0 .. n
    BY <1>1
  <2>2. s \in X /\ ServesFirst(s, k - 1)
    BY <2>1
  <2>3. PICK q : q = Best(k, s)
    OBVIOUS
  <2>4. q \in M /\ IsQuestion(q) /\ Has(q, missing[k]) /\ ~q.rider
    <3>1. missing[k] \in Range(missing)
      BY <1>1 DEF Range
    <3> QED BY <2>3, <3>1, BestServes
  <2> HIDE DEF M, Best
  <2>5. Append(s, q) \in Seq(M) /\ AreQuestions(Append(s, q))
    BY <2>2, <2>4, AppendProperties, QuestionsAppended
  <2>6. /\ Len(Append(s, q)) = Len(s) + 1 /\ Append(s, q)[Len(s) + 1] = q
        /\ DOMAIN s = 1 .. Len(s) /\ \A j \in DOMAIN s : Append(s, q)[j] = s[j]
    BY <2>2, ListAppended, ListIs DEF AreQuestions
  <2>7. Len(s) = k - 1 /\ \A j \in 1 .. k - 1 : Has(s[j], missing[j]) /\ ~s[j].rider
    BY <2>2
  <2>8. Len(Append(s, q)) = k /\ \A j \in 1 .. k : j = k \/ j \in 1 .. k - 1
    BY <2>6, <2>7
  <2>9. \A j \in 1 .. k : Has(Append(s, q)[j], missing[j]) /\ ~Append(s, q)[j].rider
    <3>1. Append(s, q)[k] = q /\ \A j \in 1 .. k - 1 : Append(s, q)[j] = s[j]
      BY <2>6, <2>7
    <3> QED BY <2>4, <2>7, <2>8, <3>1
  <2>10. Append(s, q) \in {t \in X : ServesFirst(t, k)}
    BY <2>5, <2>8, <2>9
  <2> QED BY <2>1, <2>2, <2>3, <2>10
<1>3. <<>> \in T[0]
  <2>1. <<>> \in Seq(M) /\ AreQuestions(<<>>) /\ Len(<<>>) = 0
    BY EmptySeq, EmptyList DEF AreQuestions
  <2>2. 0 \in 0 .. n /\ 1 .. 0 = {}
    BY <1>1
  <2> HIDE DEF M
  <2> QED BY <2>1, <2>2
<1>4. \A k \in 1 .. n, s \in X : step[k][s] = Then(k, s)
  OBVIOUS
<1>5. \A k \in 0 .. n : T[k] \in SUBSET X
  OBVIOUS
<1>6. \A k \in 1 .. n : \A s \in T[k - 1] : step[k][s] \in T[k]
  BY <1>2, <1>4
<1>7. \A k \in 0 .. n : \A s \in T[k] : AreQuestions(s) /\ Len(s) = k /\ \A j \in 1 .. k : Has(s[j], missing[j]) /\ ~s[j].rider
  OBVIOUS
<1>8. Promote(missing, ranked, taken) = (CHOOSE f : Is(f))[n]
  BY DEF Promote
<1> HIDE DEF n, T, X, M, step, Then, ServesFirst, Best
<1>9. PICK g : Steps(g, T, <<>>, n, step)
  <2>1. Leads(T, X, n, step)
    BY <1>5, <1>6 DEF Leads
  <2> QED BY <1>1, <1>3, <2>1, Unfolding
<1>10. Is(g)
  <2>1. ASSUME NEW k \in 1 .. n PROVE g[k] = Then(k, g[k - 1])
    BY <1>2, <1>4, <1>9 DEF Steps
  <2>2. \A k \in 0 .. n : g[k] = IF k = 0 THEN <<>> ELSE Then(k, g[k - 1])
    <3>1. \A k \in 0 .. n : k = 0 \/ k \in 1 .. n
      BY <1>1
    <3> QED BY <1>9, <2>1, <3>1 DEF Steps
  <2> HIDE DEF Then
  <2> QED BY <1>9, <2>2 DEF Steps
<1>11. PICK h : h = (CHOOSE f : Is(f)) /\ Is(h)
  <2> HIDE DEF Is
  <2> QED BY <1>10
<1>12. h[0] = <<>> /\ \A k \in 1 .. n : h[k] = Then(k, h[k - 1])
  <2>1. \A k \in 0 .. n : h[k] = IF k = 0 THEN <<>> ELSE Then(k, h[k - 1])
    BY <1>11
  <2>2. 0 \in 0 .. n /\ \A k \in 1 .. n : k \in 0 .. n /\ k # 0
    BY <1>1
  <2> HIDE DEF Is
  <2> QED BY <2>1, <2>2
<1>13. \A k \in 0 .. n : h[k] \in T[k]
  BY <1>1, <1>2, <1>3, <1>12, Unfolded
<1>14. n \in 0 .. n
  BY <1>1
<1>15. PICK p : p = Promote(missing, ranked, taken) /\ p = h[n]
  BY <1>8, <1>11
<1>16. AreQuestions(p) /\ Len(p) = n /\ \A j \in 1 .. n : Has(p[j], missing[j]) /\ ~p[j].rider
  BY <1>7, <1>13, <1>14, <1>15
<1>17. DOMAIN p = 1 .. n
  BY <1>16, ListIs DEF AreQuestions
<1> QED BY <1>1, <1>15, <1>16, <1>17

LEMMA ScopeGuardKeeps ==
  ASSUME NEW winners, AreQuestions(winners),
         NEW ranked, AreQuestions(ranked), \A k \in DOMAIN ranked : ~ranked[k].rider
  PROVE  LET ws == ScopeGuard(winners, ranked) IN AreQuestions(ws) /\ \A k \in DOMAIN ws : ws[k].rank = k
<1> DEFINE out == Promote(Unserved(ParentsIn(Range(winners))), ranked, IdxOf(winners)) \o winners
           still == Unserved(ParentsIn(Range(out)))
           raw == [k \in DOMAIN still |-> VerbatimWinner(still[k])]
<1>1. AreQuestions(out)
  BY UnservedAre, PromoteServes, QuestionsJoined
<1>2. Len(still) \in Nat /\ DOMAIN still = 1 .. Len(still)
  BY UnservedAre, ListIs
<1> HIDE DEF out, still
<1>3. AreQuestions(raw)
  <2>1. DOMAIN raw = 1 .. Len(still) /\ raw = [k \in 1 .. Len(still) |-> raw[k]]
        /\ \A k \in 1 .. Len(still) : raw[k] = VerbatimWinner(still[k])
    BY <1>2
  <2> HIDE DEF raw
  <2> QED BY <1>2, <2>1, IsListFrom, MadeQuestions DEF AreQuestions
<1> HIDE DEF raw
<1>4. AreQuestions(Rerank(raw \o out)) /\ \A k \in DOMAIN Rerank(raw \o out) : Rerank(raw \o out)[k].rank = k
  BY <1>1, <1>3, QuestionsJoined, Reranked
<1> QED BY <1>4 DEF ScopeGuard, out, still, raw

(* What is allocated to discovery are questions.                              *)
LEMMA AllocatedAre ==
  ASSUME NEW raised, IsList(raised)
  PROVE  AreQuestions(AllocateDiscovery(raised))
<1> DEFINE n == Len(raised)
           Then(k, s) == TakeConflict(s, raised[k])
           M == {Question(c.text, p) : c \in Range(raised), p \in Clients \cup {Discovery}}
           X == {s \in Seq(M) : AreQuestions(s)}
           T == [k \in 0 .. n |-> X]
           step == [k \in 1 .. n |-> [s \in X |-> Then(k, s)]]
           Is(f) == f = [k \in 0 .. n |-> IF k = 0 THEN <<>> ELSE Then(k, f[k - 1])]
<1>1. n \in Nat /\ DOMAIN raised = 1 .. n
  BY ListIs
<1>2. ASSUME NEW k \in 1 .. n, NEW s \in T[k - 1]
      PROVE  s \in X /\ Then(k, s) \in T[k]
  <2>1. k - 1 \in 0 .. n /\ k \in 0 .. n /\ raised[k] \in Range(raised)
    BY <1>1 DEF Range
  <2>2. s \in Seq(M) /\ AreQuestions(s)
    BY <2>1
  <2>3. PICK c \in Range(raised) : c = raised[k]
    BY <2>1
  <2>4. PICK p \in Clients \cup {Discovery} : p = ParentOf(c)
    BY DEF ParentOf
  <2>11. TakeConflict(s, c) = s \/ TakeConflict(s, c) = Append(s, Question(c.text, p))
    BY <2>4 DEF TakeConflict
  <2>5. PICK q : q = Question(c.text, p) /\ q \in M /\ IsQuestion(q)
    <3>1. IsQuestion(Question(c.text, p))
      BY QuestionMade
    <3>2. Question(c.text, p) \in M
      OBVIOUS
    <3> QED BY <3>1, <3>2
  <2> HIDE DEF M
  <2>6. Append(s, q) \in Seq(M) /\ AreQuestions(Append(s, q))
    BY <2>2, <2>5, AppendProperties, QuestionsAppended
  <2>7. Then(k, s) \in X
    BY <2>2, <2>3, <2>5, <2>6, <2>11
  <2> QED BY <2>1, <2>2, <2>7
<1>3. <<>> \in T[0]
  <2>1. <<>> \in Seq(M) /\ AreQuestions(<<>>)
    BY EmptySeq, EmptyList DEF AreQuestions
  <2>2. 0 \in 0 .. n
    BY <1>1
  <2> HIDE DEF M
  <2> QED BY <2>1, <2>2
<1>4. (\A k \in 1 .. n, s \in X : step[k][s] = Then(k, s)) /\ \A k \in 0 .. n : T[k] \in SUBSET X
  OBVIOUS
<1>5. \A s \in T[n] : n \in 0 .. n => AreQuestions(s)
  OBVIOUS
<1>6. AllocateDiscovery(raised) = (CHOOSE f : Is(f))[n]
  BY DEF AllocateDiscovery
<1> HIDE DEF n, T, X, step, Then, M
<1>7. PICK g : Steps(g, T, <<>>, n, step)
  <2>1. Leads(T, X, n, step)
    BY <1>2, <1>4 DEF Leads
  <2> QED BY <1>1, <1>3, <2>1, Unfolding
<1>8. Is(g)
  <2>1. \A k \in 1 .. n : g[k] = Then(k, g[k - 1])
    BY <1>2, <1>4, <1>7 DEF Steps
  <2>2. \A k \in 0 .. n : k = 0 \/ k \in 1 .. n
    BY <1>1
  <2>3. \A k \in 0 .. n : g[k] = IF k = 0 THEN <<>> ELSE Then(k, g[k - 1])
    BY <1>7, <2>1, <2>2 DEF Steps
  <2> QED BY <1>7, <2>3 DEF Steps
<1>9. PICK h : h = (CHOOSE f : Is(f)) /\ Is(h)
  <2> HIDE DEF Is
  <2> QED BY <1>8
<1>10. h[0] = <<>> /\ \A k \in 1 .. n : h[k] = Then(k, h[k - 1])
  <2>1. \A k \in 0 .. n : h[k] = IF k = 0 THEN <<>> ELSE Then(k, h[k - 1])
    BY <1>9
  <2>2. 0 \in 0 .. n /\ \A k \in 1 .. n : k \in 0 .. n /\ k # 0
    BY <1>1
  <2> HIDE DEF Is
  <2> QED BY <2>1, <2>2
<1>11. n \in 0 .. n /\ h[n] \in T[n] /\ AllocateDiscovery(raised) = h[n]
  <2>1. n \in 0 .. n
    BY <1>1
  <2>2. h[0] \in T[0] /\ \A k \in 1 .. n : h[k - 1] \in T[k - 1] => h[k] \in T[k]
    BY <1>2, <1>3, <1>10
  <2>3. \A k \in 0 .. n : h[k] \in T[k]
    BY <1>1, <2>2, Unfolded
  <2> QED BY <1>6, <1>9, <2>1, <2>3
<1> QED BY <1>5, <1>11

LEMMA FilledAre ==
  ASSUME NEW start, AreQuestions(start), NEW asides, IsList(asides)
  PROVE  AreQuestions(FillRemainingSlots(start, asides))
<1> DEFINE n == Len(asides)
           Then(k, s) == TakeAngle(s, asides[k])
           M == Range(start) \cup {Question(a.text, a.parent) : a \in Range(asides)}
           X == {s \in Seq(M) : AreQuestions(s)}
           T == [k \in 0 .. n |-> X]
           step == [k \in 1 .. n |-> [s \in X |-> Then(k, s)]]
           Is(f) == f = [k \in 0 .. n |-> IF k = 0 THEN start ELSE Then(k, f[k - 1])]
<1>1. n \in Nat /\ DOMAIN asides = 1 .. n
  BY ListIs
<1>2. ASSUME NEW k \in 1 .. n, NEW s \in T[k - 1]
      PROVE  s \in X /\ Then(k, s) \in T[k]
  <2>1. k - 1 \in 0 .. n /\ k \in 0 .. n /\ asides[k] \in Range(asides)
    BY <1>1 DEF Range
  <2>2. s \in Seq(M) /\ AreQuestions(s)
    BY <2>1
  <2>3. PICK a \in Range(asides) : a = asides[k]
    BY <2>1
  <2>4. TakeAngle(s, a) = s \/ TakeAngle(s, a) = Append(s, Question(a.text, a.parent))
    BY DEF TakeAngle
  <2>5. PICK q : q = Question(a.text, a.parent) /\ q \in M /\ IsQuestion(q)
    <3>1. IsQuestion(Question(a.text, a.parent))
      BY QuestionMade
    <3>2. Question(a.text, a.parent) \in M
      OBVIOUS
    <3> QED BY <3>1, <3>2
  <2> HIDE DEF M
  <2>6. Append(s, q) \in Seq(M) /\ AreQuestions(Append(s, q))
    BY <2>2, <2>5, AppendProperties, QuestionsAppended
  <2>7. Then(k, s) \in X
    BY <2>2, <2>3, <2>4, <2>5, <2>6
  <2> QED BY <2>1, <2>2, <2>7
<1>3. start \in T[0]
  <2>1. start \in Seq(M)
    BY ListWithin DEF AreQuestions
  <2>2. 0 \in 0 .. n
    BY <1>1
  <2> HIDE DEF M
  <2> QED BY <2>1, <2>2
<1>4. (\A k \in 1 .. n, s \in X : step[k][s] = Then(k, s)) /\ \A k \in 0 .. n : T[k] \in SUBSET X
  OBVIOUS
<1>5. \A s \in T[n] : n \in 0 .. n => AreQuestions(s)
  OBVIOUS
<1>6. FillRemainingSlots(start, asides) = (CHOOSE f : Is(f))[n]
  BY DEF FillRemainingSlots
<1> HIDE DEF n, T, X, step, Then, M
<1>7. PICK g : Steps(g, T, start, n, step)
  <2>1. Leads(T, X, n, step)
    BY <1>2, <1>4 DEF Leads
  <2> QED BY <1>1, <1>3, <2>1, Unfolding
<1>8. Is(g)
  <2>1. \A k \in 1 .. n : g[k] = Then(k, g[k - 1])
    BY <1>2, <1>4, <1>7 DEF Steps
  <2>2. \A k \in 0 .. n : k = 0 \/ k \in 1 .. n
    BY <1>1
  <2>3. \A k \in 0 .. n : g[k] = IF k = 0 THEN start ELSE Then(k, g[k - 1])
    BY <1>7, <2>1, <2>2 DEF Steps
  <2> QED BY <1>7, <2>3 DEF Steps
<1>9. PICK h : h = (CHOOSE f : Is(f)) /\ Is(h)
  <2> HIDE DEF Is
  <2> QED BY <1>8
<1>10. h[0] = start /\ \A k \in 1 .. n : h[k] = Then(k, h[k - 1])
  <2>1. \A k \in 0 .. n : h[k] = IF k = 0 THEN start ELSE Then(k, h[k - 1])
    BY <1>9
  <2>2. 0 \in 0 .. n /\ \A k \in 1 .. n : k \in 0 .. n /\ k # 0
    BY <1>1
  <2> HIDE DEF Is
  <2> QED BY <2>1, <2>2
<1>11. n \in 0 .. n /\ h[n] \in T[n] /\ FillRemainingSlots(start, asides) = h[n]
  <2>1. n \in 0 .. n
    BY <1>1
  <2>2. h[0] \in T[0] /\ \A k \in 1 .. n : h[k - 1] \in T[k - 1] => h[k] \in T[k]
    BY <1>2, <1>3, <1>10
  <2>3. \A k \in 0 .. n : h[k] \in T[k]
    BY <1>1, <2>2, Unfolded
  <2> QED BY <1>6, <1>9, <2>1, <2>3
<1> QED BY <1>5, <1>11

(* A group's members are the questions at its places, each once, by rank.     *)
LEMMA RankedPlaces ==
  ASSUME NEW ms, AreQuestions(ms), NEW P \in SUBSET DOMAIN ms
  PROVE  LET by == ByRank(P, ms)
         IN  /\ by \in [1 .. Cardinality(P) -> P] /\ Cardinality(P) \in Nat
             /\ \A i \in P : \E k \in 1 .. Cardinality(P) : by[k] = i
<1> DEFINE Before(i) == {j \in P : \/ ms[j].rank < ms[i].rank
                                  \/ (ms[j].rank = ms[i].rank /\ j < i)}
           by == ByRank(P, ms)
           n == Cardinality(P)
           R == {p \in P \X P : \/ ms[p[1]].rank < ms[p[2]].rank
                               \/ (ms[p[1]].rank = ms[p[2]].rank /\ p[1] < p[2])}
<1>1. IsFiniteSet(P) /\ n \in Nat /\ P \in SUBSET Nat
  <2>1. Len(ms) \in Nat /\ DOMAIN ms = 1 .. Len(ms)
    BY ListIs DEF AreQuestions
  <2>2. IsFiniteSet(1 .. Len(ms))
    BY <2>1, UpToCounted
  <2> QED BY <2>1, <2>2, FS_Subset, FS_CardinalityType
<1>2. \A i \in P : ms[i].rank \in Nat
  BY DEF AreQuestions, IsQuestion
<1>3. \A i, j \in P : <<i, j>> \in R <=> (ms[i].rank < ms[j].rank \/ (ms[i].rank = ms[j].rank /\ i < j))
  OBVIOUS
<1>4. \A u \in P : Before(u) = {x \in P : <<x, u>> \in R}
  BY <1>3
<1>5. by = [k \in 1 .. n |-> CHOOSE i \in P : Cardinality(Before(i)) = k - 1]
  BY DEF ByRank
<1> HIDE DEF R, n, by
<1>6. /\ \A u \in P : <<u, u>> \notin R
      /\ \A u, v, w \in P : <<u, v>> \in R /\ <<v, w>> \in R => <<u, w>> \in R
      /\ \A u, v \in P : u = v \/ <<u, v>> \in R \/ <<v, u>> \in R
  <2>1. \A u \in P : <<u, u>> \notin R
    BY <1>1, <1>2, <1>3
  <2>2. ASSUME NEW u \in P, NEW v \in P, NEW w \in P, <<u, v>> \in R, <<v, w>> \in R
        PROVE  <<u, w>> \in R
    <3>1. u \in Nat /\ v \in Nat /\ w \in Nat /\ ms[u].rank \in Nat /\ ms[v].rank \in Nat /\ ms[w].rank \in Nat
      BY <1>1, <1>2
    <3>2. /\ ms[u].rank < ms[v].rank \/ (ms[u].rank = ms[v].rank /\ u < v)
          /\ ms[v].rank < ms[w].rank \/ (ms[v].rank = ms[w].rank /\ v < w)
      BY <1>3, <2>2
    <3>3. ms[u].rank < ms[w].rank \/ (ms[u].rank = ms[w].rank /\ u < w)
      BY <3>1, <3>2
    <3> QED BY <1>3, <3>3
  <2>3. ASSUME NEW u \in P, NEW v \in P
        PROVE  u = v \/ <<u, v>> \in R \/ <<v, u>> \in R
    <3>1. u \in Nat /\ v \in Nat /\ ms[u].rank \in Nat /\ ms[v].rank \in Nat
      BY <1>1, <1>2
    <3> QED BY <1>3, <3>1
  <2> QED BY <2>1, <2>2, <2>3
<1> DEFINE C(u) == Cardinality({x \in P : <<x, u>> \in R})
<1>7. \A u \in P : C(u) \in 0 .. Cardinality(P) - 1 /\ \A v \in P : C(u) = C(v) => u = v
  BY <1>1, <1>6, RanksDiffer
<1>8. (\A u \in P : C(u) \in 0 .. n - 1) /\ \A u, v \in P : C(u) = C(v) => u = v
  <2> HIDE DEF C
  <2> QED BY <1>7 DEF n
<1>9. \A k \in 1 .. Cardinality(P) : \E u \in P : C(u) = k - 1
  BY <1>1, <1>6, RanksFilled
<1>10. \A u \in P : C(u) = Cardinality(Before(u))
  BY <1>4
<1> HIDE DEF C, Before
<1>11. ASSUME NEW k \in 1 .. n
       PROVE  by[k] \in P /\ C(by[k]) = k - 1
  <2>1. \E u \in P : Cardinality(Before(u)) = k - 1
    BY <1>9, <1>10 DEF n
  <2>2. by[k] = CHOOSE i \in P : Cardinality(Before(i)) = k - 1
    BY <1>5
  <2>3. by[k] \in P /\ Cardinality(Before(by[k])) = k - 1
    BY <2>1, <2>2
  <2> QED BY <1>10, <2>3
<1>12. DOMAIN by = 1 .. n /\ by \in [1 .. n -> P]
  BY <1>5, <1>11
<1>13. ASSUME NEW i \in P PROVE \E k \in 1 .. n : by[k] = i
  <2>1. PICK c : c = C(i) /\ c \in 0 .. n - 1
    BY <1>8
  <2>2. PICK k \in 1 .. n : k - 1 = c
    BY <1>1, <2>1
  <2>4. by[k] \in P /\ C(by[k]) = C(i)
    BY <1>11, <2>1, <2>2
  <2>3. by[k] = i
    BY <1>8, <2>4
  <2> QED BY <2>3
<1> QED BY <1>1, <1>12, <1>13 DEF n, by

LEMMA GroupBuilt ==
  ASSUME NEW ms, AreQuestions(ms), NEW S, NEW b
  PROVE  LET g == BuildGroup(S, ms, b)
         IN  IsGroup(g) /\ g.bracket = b /\ Range(g.members) = {ms[i] : i \in S \cap DOMAIN ms}
<1> DEFINE P == S \cap DOMAIN ms
           by == ByRank(P, ms)
           n == Cardinality(P)
           q == [k \in DOMAIN by |-> ms[by[k]]]
<1>1. P \in SUBSET DOMAIN ms
  OBVIOUS
<1>2. BuildGroup(S, ms, b) = [bracket |-> b, members |-> q]
  BY DEF BuildGroup
<1> HIDE DEF P
<1>3. by \in [1 .. n -> P] /\ n \in Nat /\ \A i \in P : \E k \in 1 .. n : by[k] = i
  BY <1>1, RankedPlaces
<1> HIDE DEF by, n
<1>4. DOMAIN q = 1 .. n /\ q = [k \in 1 .. n |-> q[k]] /\ \A k \in 1 .. n : q[k] = ms[by[k]]
  BY <1>3
<1> HIDE DEF q
<1>5. IsList(q)
  BY <1>3, <1>4, IsListFrom
<1>6. Range(q) = {ms[i] : i \in P}
  BY <1>3, <1>4 DEF Range
<1>7. AreQuestions(q)
  BY <1>1, <1>3, <1>4, <1>5 DEF AreQuestions
<1>8. IsGroup([bracket |-> b, members |-> q])
  BY <1>7 DEF IsGroup
<1> QED BY <1>2, <1>6, <1>8 DEF P

LEMMA GroupsBuilt ==
  ASSUME AreQuestions(final), NEW assignment, IsList(assignment)
  PROVE  AreGroups(BuildGroups(assignment))
<1> DEFINE gs == BuildGroups(assignment)
           n == Len(assignment)
<1>1. n \in Nat /\ DOMAIN assignment = 1 .. n
  BY ListIs
<1>2. DOMAIN gs = 1 .. n /\ gs = [k \in 1 .. n |-> gs[k]] /\ \A k \in 1 .. n : gs[k] = BuildGroup(assignment[k], final, "mandate")
  BY <1>1 DEF BuildGroups
<1> HIDE DEF gs, n
<1>3. IsList(gs)
  BY <1>1, <1>2, IsListFrom
<1>4. \A k \in 1 .. n : IsGroup(gs[k])
  BY <1>2, GroupBuilt
<1> QED BY <1>2, <1>3, <1>4 DEF AreGroups, gs

LEMMA FallbackList == IsList(FallbackGroups)
<1> DEFINE Home(i) == IF OwnParent(final[i]) \in Clients THEN OwnParent(final[i]) ELSE ClientSeq[1]
           Bucket(l) == {i \in DOMAIN final : Home(i) = l}
           S == {k \in DOMAIN ClientSeq : Bucket(ClientSeq[k]) # {}}
           used == Those(ClientSeq, S)
           fb == [k \in DOMAIN used |-> Bucket(used[k])]
<1>1. FallbackGroups = fb
  BY DEF FallbackGroups
<1>2. S \in SUBSET DOMAIN ClientSeq /\ IsList(ClientSeq)
  BY GroupsAssumption DEF IsList
<1> HIDE DEF S
<1>3. Len(used) \in Nat /\ DOMAIN used = 1 .. Len(used)
  BY <1>2, ThoseAre, ListIs
<1> HIDE DEF used, Bucket
<1>4. DOMAIN fb = 1 .. Len(used) /\ fb = [k \in 1 .. Len(used) |-> fb[k]]
  BY <1>3
<1> HIDE DEF fb
<1>5. IsList(fb)
  BY <1>3, <1>4, IsListFrom
<1> QED BY <1>1, <1>5

(* The groupings the model proposes: lists of sets of places in final, whose  *)
(* ranks are their places.                                                    *)
Ranked1 == AreQuestions(final) /\ \A k \in DOMAIN final : final[k].rank = k
WinnerPlaces == SUBSET DOMAIN final
Grouping(a) == a \in Seq(WinnerPlaces \ {{}})

LEMMA FinalPlaces ==
  ASSUME Ranked1
  PROVE  /\ IsFiniteSet(DOMAIN final) /\ DOMAIN final \in SUBSET Nat
         /\ \A S \in WinnerPlaces : S \in SUBSET Nat /\ IsFiniteSet(S) /\ Cardinality(S) \in Nat
         /\ \A S \in WinnerPlaces : S # {} => MinRank(S) \in S /\ \A i \in S : MinRank(S) <= i
<1>1. Len(final) \in Nat /\ DOMAIN final = 1 .. Len(final)
  BY ListIs DEF Ranked1, AreQuestions
<1>2. IsFiniteSet(DOMAIN final)
  BY <1>1, UpToCounted
<1>3. \A S \in WinnerPlaces : S \in SUBSET Nat /\ IsFiniteSet(S) /\ Cardinality(S) \in Nat
  BY <1>1, <1>2, FS_Subset, FS_CardinalityType DEF WinnerPlaces
<1>4. ASSUME NEW S \in WinnerPlaces, S # {}
      PROVE  MinRank(S) \in S /\ \A i \in S : MinRank(S) <= i
  <2>1. {final[i].rank : i \in S} = S
    BY DEF Ranked1, WinnerPlaces
  <2>2. MinRank(S) = First(S)
    BY <2>1 DEF MinRank
  <2>3. \E u \in S : \A v \in S : u <= v
    BY <1>3, <1>4, LeastExists
  <2> QED BY <2>2, <2>3 DEF First
<1> QED BY <1>1, <1>2, <1>3, <1>4

LEMMA UpwardsAre ==
  ASSUME NEW S, S \in SUBSET Nat, IsFiniteSet(S)
  PROVE  /\ IsList(Ascending(S)) /\ DOMAIN Ascending(S) = 1 .. Len(Ascending(S)) /\ Len(Ascending(S)) \in Nat
         /\ \A k \in DOMAIN Ascending(S) : Ascending(S)[k] \in S
<1> DEFINE a == Ascending(S)
           n == Cardinality(S)
<1>1. a \in [1 .. n -> S] /\ n \in Nat
  BY Ascends DEF Ascending
<1> HIDE DEF a, n
<1>2. DOMAIN a = 1 .. n /\ a = [k \in 1 .. n |-> a[k]] /\ \A k \in 1 .. n : a[k] \in S
  BY <1>1
<1>3. IsList(a) /\ Len(a) = n
  BY <1>1, <1>2, IsListFrom
<1> QED BY <1>1, <1>2, <1>3 DEF a

LEMMA ClaimedPlaces ==
  ASSUME Ranked1, NEW raw \in RawAnswers
  PROVE  Grouping(ClaimedGroups(raw))
<1> DEFINE New(k) == {i \in Range(raw[k]) \cap DOMAIN final : \A j \in 1 .. (k - 1) : i \notin Range(raw[j])}
           K == {k \in DOMAIN raw : New(k) # {}}
           live == Ascending(K)
           cs == [m \in DOMAIN live |-> New(live[m])]
<1>1. ClaimedGroups(raw) = cs
  BY DEF ClaimedGroups
<1>2. Len(raw) \in Nat /\ DOMAIN raw = 1 .. Len(raw)
  BY GroupsAssumption, LenProperties
<1>3. K \in SUBSET Nat /\ IsFiniteSet(K)
  <2>1. IsFiniteSet(1 .. Len(raw))
    BY <1>2, UpToCounted
  <2>2. K \in SUBSET (1 .. Len(raw))
    BY <1>2
  <2> HIDE DEF K
  <2>3. IsFiniteSet(K)
    BY <2>1, <2>2, FS_Subset
  <2> QED BY <1>2, <2>2, <2>3
<1>4. \A k \in K : New(k) # {} /\ New(k) \in WinnerPlaces
  BY DEF WinnerPlaces
<1> HIDE DEF K, New
<1>5. Len(live) \in Nat /\ DOMAIN live = 1 .. Len(live) /\ \A k \in 1 .. Len(live) : live[k] \in K
  BY <1>3, UpwardsAre
<1> HIDE DEF live
<1>6. DOMAIN cs = 1 .. Len(live) /\ cs \in [1 .. Len(live) -> WinnerPlaces \ {{}}]
  BY <1>4, <1>5
<1> QED BY <1>1, <1>5, <1>6, SeqDef DEF Grouping

LEMMA PlacedKeeps ==
  ASSUME Ranked1, NEW claimed, Grouping(claimed), NEW orphans, IsList(orphans),
         \A k \in DOMAIN orphans : orphans[k] \in DOMAIN final
  PROVE  Grouping(PlaceAll(claimed, orphans))
<1> DEFINE n == Len(orphans)
           m == Len(claimed)
           M == WinnerPlaces \ {{}}
           Then(k, s) == [s EXCEPT ![PlaceOrphan(s, orphans[k])] = @ \cup {orphans[k]}]
           X == [1 .. m -> M]
           T == [k \in 0 .. n |-> X]
           step == [k \in 1 .. n |-> [s \in X |-> Then(k, s)]]
           Is(f) == f = [k \in 0 .. n |-> IF k = 0 THEN claimed ELSE Then(k, f[k - 1])]
<1>1. n \in Nat /\ DOMAIN orphans = 1 .. n /\ m \in Nat /\ claimed \in [1 .. m -> M]
  BY ListIs, LenProperties DEF Grouping
<1> HIDE DEF m
<1>2. ASSUME NEW k \in 1 .. n, NEW s \in T[k - 1]
      PROVE  s \in X /\ Then(k, s) \in T[k]
  <2>1. k - 1 \in 0 .. n /\ k \in 0 .. n
    BY <1>1
  <2>2. s \in X
    BY <2>1
  <2>3. PICK o \in DOMAIN final : o = orphans[k]
    BY <1>1
  <2>4. PICK p : p = PlaceOrphan(s, orphans[k])
    OBVIOUS
  <2>5. Then(k, s) = [s EXCEPT ![p] = s[p] \cup {o}]
    BY <2>3, <2>4
  <2> HIDE DEF Then
  <2>6. \A j \in 1 .. m : s[j] \in M /\ s[j] \cup {o} \in M
    BY <2>2 DEF WinnerPlaces
  <2> HIDE DEF M
  <2>7. [s EXCEPT ![p] = s[p] \cup {o}] \in X
    BY <2>2, <2>6
  <2> QED BY <2>1, <2>2, <2>5, <2>7
<1>3. claimed \in T[0]
  BY <1>1
<1>4. (\A k \in 1 .. n, s \in X : step[k][s] = Then(k, s)) /\ \A k \in 0 .. n : T[k] \in SUBSET X
  OBVIOUS
<1>5. \A s \in T[n] : n \in 0 .. n => s \in [1 .. m -> WinnerPlaces \ {{}}]
  OBVIOUS
<1>6. PlaceAll(claimed, orphans) = (CHOOSE f : Is(f))[n]
  BY DEF PlaceAll
<1> HIDE DEF n, T, X, step, Then, M
<1>7. PICK g : Steps(g, T, claimed, n, step)
  <2>1. Leads(T, X, n, step)
    BY <1>2, <1>4 DEF Leads
  <2> QED BY <1>1, <1>3, <2>1, Unfolding
<1>8. Is(g)
  <2>1. \A k \in 1 .. n : g[k] = Then(k, g[k - 1])
    BY <1>2, <1>4, <1>7 DEF Steps
  <2>2. \A k \in 0 .. n : k = 0 \/ k \in 1 .. n
    BY <1>1
  <2>3. \A k \in 0 .. n : g[k] = IF k = 0 THEN claimed ELSE Then(k, g[k - 1])
    BY <1>7, <2>1, <2>2 DEF Steps
  <2> QED BY <1>7, <2>3 DEF Steps
<1>9. PICK h : h = (CHOOSE f : Is(f)) /\ Is(h)
  <2> HIDE DEF Is
  <2> QED BY <1>8
<1>10. h[0] = claimed /\ \A k \in 1 .. n : h[k] = Then(k, h[k - 1])
  <2>1. \A k \in 0 .. n : h[k] = IF k = 0 THEN claimed ELSE Then(k, h[k - 1])
    BY <1>9
  <2>2. 0 \in 0 .. n /\ \A k \in 1 .. n : k \in 0 .. n /\ k # 0
    BY <1>1
  <2> HIDE DEF Is
  <2> QED BY <2>1, <2>2
<1>11. n \in 0 .. n /\ h[n] \in T[n] /\ PlaceAll(claimed, orphans) = h[n]
  <2>1. n \in 0 .. n
    BY <1>1
  <2>2. h[0] \in T[0] /\ \A k \in 1 .. n : h[k - 1] \in T[k - 1] => h[k] \in T[k]
    BY <1>2, <1>3, <1>10
  <2>3. \A k \in 0 .. n : h[k] \in T[k]
    BY <1>1, <2>2, Unfolded
  <2> QED BY <1>6, <1>9, <2>1, <2>3
<1> QED BY <1>1, <1>5, <1>11, SeqDef DEF Grouping

LEMMA ValidatedPlaces ==
  ASSUME Ranked1, NEW raw \in RawAnswers
  PROVE  Grouping(ValidateGroups(raw))
<1> DEFINE claimed == ClaimedGroups(raw)
           left == DOMAIN final \ UNION Range(claimed)
<1>1. Grouping(claimed)
  BY ClaimedPlaces
<1>2. left \in SUBSET Nat /\ IsFiniteSet(left) /\ left \in SUBSET DOMAIN final
  <2>1. left \in WinnerPlaces
    BY DEF WinnerPlaces
  <2> QED BY <2>1, FinalPlaces DEF WinnerPlaces
<1> HIDE DEF left, claimed
<1>3. Grouping(PlaceAll(claimed, Ascending(left)))
  BY <1>1, <1>2, UpwardsAre, PlacedKeeps
<1>4. Grouping(<<>>)
  BY EmptySeq DEF Grouping
<1> QED BY <1>3, <1>4 DEF ValidateGroups, claimed, left

LEMMA ImageFinite ==
  ASSUME NEW S, IsFiniteSet(S), NEW f, f = [x \in S |-> f[x]]
  PROVE  IsFiniteSet({f[x] : x \in S})
<1> DEFINE T == {f[x] : x \in S}
<1>1. f \in Surjection(S, T)
  BY DEF Surjection
<1> HIDE DEF T
<1>2. IsFiniteSet(T)
  BY <1>1, FS_Surjection
<1> QED BY <1>2 DEF T

(* A group split by parent: parts that share no place.                        *)
LEMMA PartsAre ==
  ASSUME Ranked1, NEW S \in WinnerPlaces \ {{}}
  PROVE  /\ IsFiniteSet(PartsOf(S)) /\ PartsOf(S) # {} /\ PartsOf(S) \in SUBSET (WinnerPlaces \ {{}})
         /\ \A P, Q \in PartsOf(S) : MinRank(P) = MinRank(Q) => P = Q
<1> DEFINE f == [i \in S |-> OwnParent(final[i])]
           Part(p) == {i \in S : OwnParent(final[i]) = p}
           g == [p \in OwnParents(S) |-> Part(p)]
<1>1. IsFiniteSet(S)
  BY FinalPlaces
<1>2. IsFiniteSet(OwnParents(S))
  <2>1. OwnParents(S) = {f[i] : i \in S} /\ f = [i \in S |-> f[i]]
    BY DEF OwnParents
  <2> HIDE DEF f
  <2> QED BY <1>1, <2>1, ImageFinite
<1>3. IsFiniteSet(PartsOf(S))
  <2>1. PartsOf(S) = {g[p] : p \in OwnParents(S)} /\ g = [p \in OwnParents(S) |-> g[p]]
    BY DEF PartsOf
  <2> HIDE DEF g
  <2> QED BY <1>2, <2>1, ImageFinite
<1>4. PartsOf(S) # {}
  <2>1. PICK i \in S : TRUE
    OBVIOUS
  <2>2. Part(OwnParent(final[i])) \in PartsOf(S)
    BY DEF PartsOf, OwnParents
  <2> QED BY <2>2
<1>5. ASSUME NEW P \in PartsOf(S) PROVE P \in WinnerPlaces \ {{}} /\ P \subseteq S /\ \A i, j \in P : OwnParent(final[i]) = OwnParent(final[j])
  <2>1. PICK p \in OwnParents(S) : P = Part(p)
    BY DEF PartsOf
  <2>2. P # {}
    BY <2>1 DEF OwnParents
  <2>3. P \in WinnerPlaces /\ P \subseteq S
    BY <2>1 DEF WinnerPlaces
  <2> QED BY <2>1, <2>2, <2>3
<1>6. ASSUME NEW P \in PartsOf(S), NEW Q \in PartsOf(S), MinRank(P) = MinRank(Q)
      PROVE  P = Q
  <2>1. MinRank(P) \in P /\ MinRank(P) \in Q
    BY <1>5, <1>6, FinalPlaces
  <2>2. PICK p \in OwnParents(S) : P = Part(p)
    BY DEF PartsOf
  <2>3. PICK q \in OwnParents(S) : Q = Part(q)
    BY DEF PartsOf
  <2>4. p = q
    BY <2>1, <2>2, <2>3
  <2> QED BY <2>2, <2>3, <2>4
<1> QED BY <1>3, <1>4, <1>5, <1>6

LEMMA BestPartIs ==
  ASSUME Ranked1, NEW S \in WinnerPlaces \ {{}}
  PROVE  BestPart(S) \in PartsOf(S)
<1> DEFINE N == {MinRank(P) : P \in PartsOf(S)}
<1>1. PartsOf(S) # {} /\ PartsOf(S) \in SUBSET (WinnerPlaces \ {{}})
  BY PartsAre
<1>2. \A P \in PartsOf(S) : MinRank(P) \in Nat
  BY <1>1, FinalPlaces DEF WinnerPlaces
<1>3. N # {} /\ N \in SUBSET Nat
  BY <1>1, <1>2
<1>4. PICK u \in N : \A v \in N : u <= v
  <2> HIDE DEF N
  <2> QED BY <1>3, LeastExists
<1>5. PICK P \in PartsOf(S) : u = MinRank(P)
  OBVIOUS
<1>6. \A Q \in PartsOf(S) : MinRank(P) <= MinRank(Q)
  BY <1>4, <1>5
<1> QED BY <1>5, <1>6 DEF BestPart

LEMMA StrengthList ==
  ASSUME Ranked1, NEW R, IsFiniteSet(R), R \in SUBSET (WinnerPlaces \ {{}}),
         \A P, Q \in R : MinRank(P) = MinRank(Q) => P = Q
  PROVE  ByStrength(R) \in Seq(R)
<1> DEFINE B == {p \in R \X R : MinRank(p[1]) < MinRank(p[2])}
           n == Cardinality(R)
           o == ByStrength(R)
<1>1. \A P \in R : MinRank(P) \in Nat
  BY FinalPlaces DEF WinnerPlaces
<1>2. \A P, Q \in R : <<P, Q>> \in B <=> MinRank(P) < MinRank(Q)
  OBVIOUS
<1>3. n \in Nat
  BY FS_CardinalityType
<1> HIDE DEF B
<1>4. /\ \A u \in R : <<u, u>> \notin B
      /\ \A u, v, w \in R : <<u, v>> \in B /\ <<v, w>> \in B => <<u, w>> \in B
      /\ \A u, v \in R : u = v \/ <<u, v>> \in B \/ <<v, u>> \in B
  BY <1>1, <1>2
<1>5. \A m \in 1 .. n : \E u \in R : Cardinality({x \in R : <<x, u>> \in B}) = m - 1
  BY <1>4, RanksFilled
<1>6. \A u \in R : {x \in R : <<x, u>> \in B} = {Q \in R : MinRank(Q) < MinRank(u)}
  BY <1>2
<1>7. ASSUME NEW m \in 1 .. n PROVE o[m] \in R
  <2>1. PICK u \in R : Cardinality({Q \in R : MinRank(Q) < MinRank(u)}) = m - 1
    BY <1>5, <1>6
  <2>2. o[m] = CHOOSE P \in R : Cardinality({Q \in R : MinRank(Q) < MinRank(P)}) = m - 1
    BY DEF ByStrength
  <2> QED BY <2>1, <2>2
<1>8. DOMAIN o = 1 .. n /\ o = [m \in 1 .. n |-> o[m]]
  <2> DEFINE Strongest(m) == CHOOSE P \in R : Cardinality({Q \in R : MinRank(Q) < MinRank(P)}) = m - 1
  <2>1. o = [m \in 1 .. n |-> Strongest(m)]
    BY DEF ByStrength
  <2> HIDE DEF Strongest, o
  <2> QED BY <2>1
<1> HIDE DEF o, n
<1>9. o \in [1 .. n -> R]
  BY <1>7, <1>8
<1> QED BY <1>3, <1>9, SeqDef DEF o

LEMMA SplitKeeps ==
  ASSUME Ranked1, NEW a, Grouping(a)
  PROVE  Grouping(SplitByParent(a))
<1> DEFINE n == Len(a)
           M == WinnerPlaces \ {{}}
           start == [j \in DOMAIN a |-> BestPart(a[j])]
           Rest(k) == ByStrength(PartsOf(a[k]) \ {BestPart(a[k])})
           Then(k, s) == s \o Rest(k)
           X == Seq(M)
           T == [k \in 0 .. n |-> X]
           step == [k \in 1 .. n |-> [s \in X |-> Then(k, s)]]
           Is(f) == f = [k \in 0 .. n |-> IF k = 0 THEN start ELSE Then(k, f[k - 1])]
<1>1. n \in Nat /\ DOMAIN a = 1 .. n /\ \A k \in 1 .. n : a[k] \in M
  BY LenProperties DEF Grouping
<1>21. ASSUME NEW k \in 1 .. n PROVE BestPart(a[k]) \in M /\ Rest(k) \in X
  <2> DEFINE R == PartsOf(a[k]) \ {BestPart(a[k])}
  <2>1. a[k] \in WinnerPlaces \ {{}}
    BY <1>1
  <2>2. /\ IsFiniteSet(PartsOf(a[k])) /\ PartsOf(a[k]) \in SUBSET M
        /\ \A P, Q \in PartsOf(a[k]) : MinRank(P) = MinRank(Q) => P = Q
    BY <2>1, PartsAre
  <2>3. BestPart(a[k]) \in M
    BY <2>1, <2>2, BestPartIs
  <2>4. IsFiniteSet(R) /\ R \in SUBSET M /\ \A P, Q \in R : MinRank(P) = MinRank(Q) => P = Q
    BY <2>2, FS_Subset
  <2> HIDE DEF R
  <2>5. ByStrength(R) \in Seq(R)
    BY <2>4, StrengthList
  <2>6. ByStrength(R) \in Seq(M)
    <3> HIDE DEF M
    <3> QED BY <2>4, <2>5, SeqMonotonic
  <2> QED BY <2>3, <2>6 DEF R
<1> HIDE DEF Rest, M
<1>2. ASSUME NEW k \in 1 .. n, NEW s \in T[k - 1]
      PROVE  s \in X /\ Then(k, s) \in T[k]
  <2>1. k - 1 \in 0 .. n /\ k \in 0 .. n /\ s \in X
    BY <1>1
  <2>2. Rest(k) \in X /\ s \o Rest(k) \in X
    BY <2>1, <1>21, ConcatProperties
  <2> QED BY <2>1, <2>2
<1>3. start \in T[0]
  <2>1. start \in [1 .. n -> M]
    BY <1>1, <1>21
  <2> HIDE DEF start
  <2>2. start \in X
    BY <1>1, <2>1, SeqDef
  <2> QED BY <1>1, <2>2
<1>4. (\A k \in 1 .. n, s \in X : step[k][s] = Then(k, s)) /\ \A k \in 0 .. n : T[k] \in SUBSET X
  OBVIOUS
<1>5. \A s \in T[n] : n \in 0 .. n => s \in Seq(M)
  OBVIOUS
<1>6. SplitByParent(a) = (CHOOSE f : Is(f))[n]
  BY DEF SplitByParent, Rest
<1> HIDE DEF n, T, X, step, Then, start
<1>7. PICK g : Steps(g, T, start, n, step)
  <2>1. Leads(T, X, n, step)
    BY <1>2, <1>4 DEF Leads
  <2> QED BY <1>1, <1>3, <2>1, Unfolding
<1>8. Is(g)
  <2>1. \A k \in 1 .. n : g[k] = Then(k, g[k - 1])
    BY <1>2, <1>4, <1>7 DEF Steps
  <2>2. \A k \in 0 .. n : k = 0 \/ k \in 1 .. n
    BY <1>1
  <2>3. \A k \in 0 .. n : g[k] = IF k = 0 THEN start ELSE Then(k, g[k - 1])
    BY <1>7, <2>1, <2>2 DEF Steps
  <2> QED BY <1>7, <2>3 DEF Steps
<1>9. PICK h : h = (CHOOSE f : Is(f)) /\ Is(h)
  <2> HIDE DEF Is
  <2> QED BY <1>8
<1>10. h[0] = start /\ \A k \in 1 .. n : h[k] = Then(k, h[k - 1])
  <2>1. \A k \in 0 .. n : h[k] = IF k = 0 THEN start ELSE Then(k, h[k - 1])
    BY <1>9
  <2>2. 0 \in 0 .. n /\ \A k \in 1 .. n : k \in 0 .. n /\ k # 0
    BY <1>1
  <2> HIDE DEF Is
  <2> QED BY <2>1, <2>2
<1>11. n \in 0 .. n /\ h[n] \in T[n] /\ SplitByParent(a) = h[n]
  <2>1. n \in 0 .. n
    BY <1>1
  <2>2. h[0] \in T[0] /\ \A k \in 1 .. n : h[k - 1] \in T[k - 1] => h[k] \in T[k]
    BY <1>2, <1>3, <1>10
  <2>3. \A k \in 0 .. n : h[k] \in T[k]
    BY <1>1, <2>2, Unfolded
  <2> QED BY <1>6, <1>9, <2>1, <2>3
<1> QED BY <1>5, <1>11 DEF Grouping, M

(* The weakest groups first, every place in the list among them.              *)
LEMMA WeakestAre ==
  ASSUME Ranked1, NEW w, Grouping(w)
  PROVE  \A n \in DOMAIN w : WeakestFirst(w)[n] \in DOMAIN w
<1> DEFINE S == DOMAIN w
           Behind(p, q) == \/ MinRank(w[p]) > MinRank(w[q])
                           \/ MinRank(w[p]) = MinRank(w[q]) /\ p > q
           B == {pr \in S \X S : Behind(pr[1], pr[2])}
<1>1. Len(w) \in Nat /\ S = 1 .. Len(w) /\ \A p \in S : w[p] \in WinnerPlaces \ {{}}
  BY LenProperties DEF Grouping
<1>2. S \in SUBSET Nat /\ IsFiniteSet(S) /\ Cardinality(S) = Len(w)
  BY <1>1, UpToCounted
<1>3. \A p \in S : MinRank(w[p]) \in Nat
  BY <1>1, FinalPlaces DEF WinnerPlaces
<1>4. \A p, q \in S : <<p, q>> \in B <=> Behind(p, q)
  OBVIOUS
<1>5. WeakestFirst(w) = [n \in S |-> CHOOSE p \in S : Cardinality({q \in S : Behind(q, p)}) = n - 1]
  BY DEF WeakestFirst
<1> HIDE DEF B, S
<1>6. /\ \A u \in S : <<u, u>> \notin B
      /\ \A u, v, x \in S : <<u, v>> \in B /\ <<v, x>> \in B => <<u, x>> \in B
      /\ \A u, v \in S : u = v \/ <<u, v>> \in B \/ <<v, u>> \in B
  <2>1. \A u \in S : <<u, u>> \notin B
    BY <1>2, <1>3, <1>4
  <2>2. ASSUME NEW u \in S, NEW v \in S, NEW x \in S, <<u, v>> \in B, <<v, x>> \in B
        PROVE  <<u, x>> \in B
    <3>1. u \in Nat /\ v \in Nat /\ x \in Nat /\ MinRank(w[u]) \in Nat /\ MinRank(w[v]) \in Nat /\ MinRank(w[x]) \in Nat
      BY <1>2, <1>3
    <3>2. Behind(u, v) /\ Behind(v, x)
      BY <1>4, <2>2
    <3>3. Behind(u, x)
      BY <3>1, <3>2
    <3> QED BY <1>4, <3>3
  <2>3. ASSUME NEW u \in S, NEW v \in S
        PROVE  u = v \/ <<u, v>> \in B \/ <<v, u>> \in B
    <3>1. u \in Nat /\ v \in Nat /\ MinRank(w[u]) \in Nat /\ MinRank(w[v]) \in Nat
      BY <1>2, <1>3
    <3> QED BY <1>4, <3>1
  <2> QED BY <2>1, <2>2, <2>3
<1>7. \A n \in 1 .. Cardinality(S) : \E u \in S : Cardinality({x \in S : <<x, u>> \in B}) = n - 1
  BY <1>2, <1>6, RanksFilled
<1>8. \A u \in S : {x \in S : <<x, u>> \in B} = {q \in S : Behind(q, u)}
  BY <1>4
<1> HIDE DEF Behind
<1>9. ASSUME NEW n \in S PROVE WeakestFirst(w)[n] \in S
  <2>1. \E u \in S : Cardinality({q \in S : Behind(q, u)}) = n - 1
    BY <1>1, <1>2, <1>7, <1>8
  <2>2. WeakestFirst(w)[n] = CHOOSE p \in S : Cardinality({q \in S : Behind(q, p)}) = n - 1
    BY <1>5
  <2> QED BY <2>1, <2>2
<1> QED BY <1>9 DEF S

(* Of pairs of numbers one comes first.                                       *)
LEMMA FirstPairExists ==
  ASSUME NEW S, S # {}, NEW D \in SUBSET Nat, S \in SUBSET (D \X D)
  PROVE  \E pr \in S : \A o \in S : pr[1] < o[1] \/ (pr[1] = o[1] /\ pr[2] <= o[2])
<1> DEFINE A == {pr[1] : pr \in S}
<1>1. \A pr \in S : pr[1] \in Nat /\ pr[2] \in Nat
  OBVIOUS
<1>2. A \in SUBSET Nat /\ A # {}
  BY <1>1
<1>3. PICK u \in A : \A v \in A : u <= v
  <2> HIDE DEF A
  <2> QED BY <1>2, LeastExists
<1> DEFINE C == {pr[2] : pr \in {x \in S : x[1] = u}}
<1>4. C \in SUBSET Nat /\ C # {}
  BY <1>1
<1>5. PICK y \in C : \A v \in C : y <= v
  <2> HIDE DEF C
  <2> QED BY <1>4, LeastExists
<1>6. PICK pr \in S : pr[1] = u /\ pr[2] = y
  OBVIOUS
<1>7. ASSUME NEW o \in S PROVE pr[1] < o[1] \/ (pr[1] = o[1] /\ pr[2] <= o[2])
  <2>1. u <= o[1] /\ u \in Nat /\ o[1] \in Nat
    BY <1>1, <1>2, <1>3
  <2>2. CASE o[1] = u
    BY <1>5, <1>6, <2>2
  <2> QED BY <1>6, <2>1, <2>2
<1> QED BY <1>7

LEMMA PairIs ==
  ASSUME NEW w, NEW order, DOMAIN w \in SUBSET Nat, {1, 2} \subseteq DOMAIN w,
         \A n \in DOMAIN w : order[n] \in DOMAIN w
  PROVE  PairToMerge(w, order) \in SUBSET DOMAIN w /\ PairToMerge(w, order) # {}
<1> DEFINE S == {pr \in (DOMAIN w) \X (DOMAIN w) :
                   pr[1] # pr[2] /\ Cardinality(OwnParents(w[order[pr[1]]] \cup w[order[pr[2]]])) = 1}
           pick == CHOOSE pr \in S : \A o \in S : pr[1] < o[1] \/ (pr[1] = o[1] /\ pr[2] <= o[2])
<1>1. PairToMerge(w, order) = IF S = {} THEN {order[1], order[2]} ELSE {order[pick[1]], order[pick[2]]}
  BY DEF PairToMerge
<1>2. S \in SUBSET ((DOMAIN w) \X (DOMAIN w))
  OBVIOUS
<1> HIDE DEF S
<1>3. CASE S = {}
  BY <1>1, <1>3
<1>4. CASE S # {}
  <2>1. \E pr \in S : \A o \in S : pr[1] < o[1] \/ (pr[1] = o[1] /\ pr[2] <= o[2])
    BY <1>2, <1>4, FirstPairExists
  <2>2. pick \in S
    BY <2>1
  <2> HIDE DEF pick
  <2>3. pick[1] \in DOMAIN w /\ pick[2] \in DOMAIN w
    BY <1>2, <2>2
  <2> QED BY <1>1, <1>4, <2>3
<1> QED BY <1>3, <1>4

(* Merging two groups leaves a grouping one shorter.                          *)
LEMMA MergedKeeps ==
  ASSUME NEW w, Grouping(w), NEW both, both \in SUBSET DOMAIN w, both # {}, Len(w) > 0
  PROVE  Grouping(MergedInto(w, both)) /\ Len(MergedInto(w, both)) = Len(w) - 1
<1> DEFINE M == WinnerPlaces \ {{}}
           keep == CHOOSE p \in both : \A q \in both : p <= q
           drop == CHOOSE p \in both : \A q \in both : q <= p
           out == MergedInto(w, both)
           n == Len(w)
<1>1. n \in Nat /\ DOMAIN w = 1 .. n /\ \A p \in 1 .. n : w[p] \in M
  BY LenProperties DEF Grouping
<1>2. both \in SUBSET Nat /\ \A p \in both : p <= n
  BY <1>1
<1>3. keep \in both
  <2>1. \E p \in both : \A q \in both : p <= q
    BY <1>2, LeastExists
  <2> QED BY <2>1
<1>4. drop \in both
  <2>1. Max(both) \in both /\ \A q \in both : q <= Max(both)
    BY <1>1, <1>2, GreatestExists
  <2>2. \E p \in both : \A q \in both : q <= p
    BY <2>1
  <2> QED BY <2>2
<1>5. out = [j \in 1 .. (n - 1) |-> IF j = keep THEN w[keep] \cup w[drop]
                                     ELSE IF j < drop THEN w[j] ELSE w[j + 1]]
  BY DEF MergedInto
<1> HIDE DEF keep, drop, n, out
<1>6. w[keep] \in M /\ w[drop] \in M /\ w[keep] \cup w[drop] \in M
  <2>1. w[keep] \in M /\ w[drop] \in M
    BY <1>1, <1>2, <1>3, <1>4 DEF n
  <2> QED BY <2>1 DEF WinnerPlaces
<1> HIDE DEF M
<1>7. \A j \in 1 .. (n - 1) : w[j] \in M /\ w[j + 1] \in M
  <2>1. \A j \in 1 .. (n - 1) : j \in 1 .. n /\ j + 1 \in 1 .. n
    BY <1>1
  <2> QED BY <1>1, <2>1
<1>8. out \in [1 .. (n - 1) -> M]
  BY <1>5, <1>6, <1>7
<1>9. n - 1 \in Nat
  BY <1>1 DEF n
<1>10. out \in Seq(M)
  BY <1>8, <1>9, SeqDef
<1>11. Len(out) = n - 1
  <2>1. Len(out) \in Nat /\ DOMAIN out = 1 .. Len(out)
    BY <1>10, LenProperties
  <2>2. DOMAIN out = 1 .. (n - 1)
    BY <1>8
  <2> QED BY <1>9, <2>1, <2>2
<1> QED BY <1>10, <1>11 DEF Grouping, M, out, n

LEMMA MergeKeeps ==
  ASSUME Ranked1, NEW w, Grouping(w), Len(w) > 1
  PROVE  Grouping(MergeOnce(w))
<1> DEFINE order == WeakestFirst(w)
           both == PairToMerge(w, order)
<1>1. Len(w) \in Nat /\ DOMAIN w = 1 .. Len(w) /\ Len(w) > 0
  BY LenProperties DEF Grouping
<1>2. DOMAIN w \in SUBSET Nat /\ {1, 2} \subseteq DOMAIN w
  BY <1>1
<1>3. \A k \in DOMAIN w : order[k] \in DOMAIN w
  BY WeakestAre
<1> HIDE DEF order
<1>4. both \in SUBSET DOMAIN w /\ both # {}
  BY <1>2, <1>3, PairIs
<1> HIDE DEF both
<1> QED BY <1>1, <1>4, MergedKeeps DEF MergeOnce, both, order

LEMMA MergedDown ==
  ASSUME Ranked1, NEW split, Grouping(split), NEW ceiling \in Nat \ {0}
  PROVE  Grouping(MergeDown(split, ceiling))
<1> DEFINE n == Len(split)
           M == WinnerPlaces \ {{}}
           Then(k, s) == IF Len(s) > ceiling THEN MergeOnce(s) ELSE s
           X == Seq(M)
           T == [k \in 0 .. n |-> X]
           step == [k \in 1 .. n |-> [s \in X |-> Then(k, s)]]
           Is(f) == f = [k \in 0 .. n |-> IF k = 0 THEN split ELSE Then(k, f[k - 1])]
<1>1. n \in Nat
  BY LenProperties DEF Grouping
<1>2. ASSUME NEW k \in 1 .. n, NEW s \in T[k - 1]
      PROVE  s \in X /\ Then(k, s) \in T[k]
  <2>1. k - 1 \in 0 .. n /\ k \in 0 .. n /\ s \in X
    BY <1>1
  <2>2. Grouping(s) /\ Len(s) \in Nat
    BY <2>1, LenProperties DEF Grouping
  <2>3. Len(s) > ceiling => Grouping(MergeOnce(s))
    BY <2>2, MergeKeeps
  <2>4. Then(k, s) \in X
    BY <2>1, <2>3 DEF Grouping
  <2> QED BY <2>1, <2>4
<1>3. split \in T[0]
  BY <1>1 DEF Grouping
<1>4. (\A k \in 1 .. n, s \in X : step[k][s] = Then(k, s)) /\ \A k \in 0 .. n : T[k] \in SUBSET X
  OBVIOUS
<1>5. \A s \in T[n] : n \in 0 .. n => s \in Seq(M)
  OBVIOUS
<1>6. MergeDown(split, ceiling) = (CHOOSE f : Is(f))[n]
  BY DEF MergeDown
<1> HIDE DEF n, T, X, step, Then, M
<1>7. PICK g : Steps(g, T, split, n, step)
  <2>1. Leads(T, X, n, step)
    BY <1>2, <1>4 DEF Leads
  <2> QED BY <1>1, <1>3, <2>1, Unfolding
<1>8. Is(g)
  <2>1. \A k \in 1 .. n : g[k] = Then(k, g[k - 1])
    BY <1>2, <1>4, <1>7 DEF Steps
  <2>2. \A k \in 0 .. n : k = 0 \/ k \in 1 .. n
    BY <1>1
  <2>3. \A k \in 0 .. n : g[k] = IF k = 0 THEN split ELSE Then(k, g[k - 1])
    BY <1>7, <2>1, <2>2 DEF Steps
  <2> QED BY <1>7, <2>3 DEF Steps
<1>9. PICK h : h = (CHOOSE f : Is(f)) /\ Is(h)
  <2> HIDE DEF Is
  <2> QED BY <1>8
<1>10. h[0] = split /\ \A k \in 1 .. n : h[k] = Then(k, h[k - 1])
  <2>1. \A k \in 0 .. n : h[k] = IF k = 0 THEN split ELSE Then(k, h[k - 1])
    BY <1>9
  <2>2. 0 \in 0 .. n /\ \A k \in 1 .. n : k \in 0 .. n /\ k # 0
    BY <1>1
  <2> HIDE DEF Is
  <2> QED BY <2>1, <2>2
<1>11. n \in 0 .. n /\ h[n] \in T[n] /\ MergeDown(split, ceiling) = h[n]
  <2>1. n \in 0 .. n
    BY <1>1
  <2>2. h[0] \in T[0] /\ \A k \in 1 .. n : h[k - 1] \in T[k - 1] => h[k] \in T[k]
    BY <1>2, <1>3, <1>10
  <2>3. \A k \in 0 .. n : h[k] \in T[k]
    BY <1>1, <2>2, Unfolded
  <2> QED BY <1>6, <1>9, <2>1, <2>3
<1> QED BY <1>5, <1>11 DEF Grouping, M

(* Halving an oversized group: its best places stay, the others go last.      *)
LEMMA HalvedKeeps ==
  ASSUME Ranked1, NEW w \in Seq(WinnerPlaces), NEW p \in Nat \ {0}, NEW ceiling
  PROVE  SplitOversize(w, p, ceiling) \in Seq(WinnerPlaces)
<1> DEFINE by == ByRank(w[p], final)
           head == {by[k] : k \in 1 .. MaxSize}
           out == Append([w EXCEPT ![p] = head], w[p] \ head)
<1>1. CASE p > Len(w) \/ Cardinality(w[p]) <= MaxSize \/ Len(w) >= ceiling
  BY <1>1 DEF SplitOversize
<1>2. CASE ~(p > Len(w) \/ Cardinality(w[p]) <= MaxSize \/ Len(w) >= ceiling)
  <2>1. SplitOversize(w, p, ceiling) = out
    BY <1>2 DEF SplitOversize
  <2>2. Len(w) \in Nat /\ DOMAIN w = 1 .. Len(w) /\ w \in [1 .. Len(w) -> WinnerPlaces]
    BY LenProperties
  <2>3. w[p] \in WinnerPlaces /\ w[p] \in SUBSET DOMAIN final
    BY <1>2, <2>2 DEF WinnerPlaces
  <2>4. by \in [1 .. Cardinality(w[p]) -> w[p]] /\ Cardinality(w[p]) \in Nat
    BY <2>3, RankedPlaces DEF Ranked1
  <2> HIDE DEF by
  <2>5. \A k \in 1 .. MaxSize : k \in 1 .. Cardinality(w[p])
    BY <1>2, <2>4, GroupsAssumption
  <2>6. head \in SUBSET w[p]
    BY <2>4, <2>5
  <2> HIDE DEF head
  <2>7. head \in WinnerPlaces /\ w[p] \ head \in WinnerPlaces
    BY <2>3, <2>6 DEF WinnerPlaces
  <2>8. [w EXCEPT ![p] = head] \in [1 .. Len(w) -> WinnerPlaces]
    BY <2>2, <2>7
  <2>9. [w EXCEPT ![p] = head] \in Seq(WinnerPlaces)
    BY <2>2, <2>8, SeqDef
  <2> QED BY <2>1, <2>7, <2>9, AppendProperties
<1> QED BY <1>1, <1>2

LEMMA SplitSizesKeep ==
  ASSUME Ranked1, NEW merged, Grouping(merged), NEW ceiling
  PROVE  SplitSizes(merged, ceiling) \in Seq(WinnerPlaces)
<1> DEFINE n == Len(final)
           Then(k, s) == SplitOversize(s, k, ceiling)
           X == Seq(WinnerPlaces)
           T == [k \in 0 .. n |-> X]
           step == [k \in 1 .. n |-> [s \in X |-> Then(k, s)]]
           Is(f) == f = [k \in 0 .. n |-> IF k = 0 THEN merged ELSE Then(k, f[k - 1])]
<1>1. n \in Nat
  BY ListIs DEF Ranked1, AreQuestions
<1>2. ASSUME NEW k \in 1 .. n, NEW s \in T[k - 1]
      PROVE  s \in X /\ Then(k, s) \in T[k]
  <2>1. k - 1 \in 0 .. n /\ k \in 0 .. n /\ s \in X /\ k \in Nat \ {0}
    BY <1>1
  <2>2. Then(k, s) \in X
    BY <2>1, HalvedKeeps
  <2> QED BY <2>1, <2>2
<1>3. merged \in T[0]
  <2>1. WinnerPlaces \ {{}} \subseteq WinnerPlaces
    OBVIOUS
  <2>2. merged \in X
    BY <2>1, SeqMonotonic DEF Grouping
  <2> QED BY <1>1, <2>2
<1>4. (\A k \in 1 .. n, s \in X : step[k][s] = Then(k, s)) /\ \A k \in 0 .. n : T[k] \in SUBSET X
  OBVIOUS
<1>5. \A s \in T[n] : n \in 0 .. n => s \in Seq(WinnerPlaces)
  OBVIOUS
<1>6. SplitSizes(merged, ceiling) = (CHOOSE f : Is(f))[n]
  BY DEF SplitSizes
<1> HIDE DEF n, T, X, step, Then
<1>7. PICK g : Steps(g, T, merged, n, step)
  <2>1. Leads(T, X, n, step)
    BY <1>2, <1>4 DEF Leads
  <2> QED BY <1>1, <1>3, <2>1, Unfolding
<1>8. Is(g)
  <2>1. \A k \in 1 .. n : g[k] = Then(k, g[k - 1])
    BY <1>2, <1>4, <1>7 DEF Steps
  <2>2. \A k \in 0 .. n : k = 0 \/ k \in 1 .. n
    BY <1>1
  <2>3. \A k \in 0 .. n : g[k] = IF k = 0 THEN merged ELSE Then(k, g[k - 1])
    BY <1>7, <2>1, <2>2 DEF Steps
  <2> QED BY <1>7, <2>3 DEF Steps
<1>9. PICK h : h = (CHOOSE f : Is(f)) /\ Is(h)
  <2> HIDE DEF Is
  <2> QED BY <1>8
<1>10. h[0] = merged /\ \A k \in 1 .. n : h[k] = Then(k, h[k - 1])
  <2>1. \A k \in 0 .. n : h[k] = IF k = 0 THEN merged ELSE Then(k, h[k - 1])
    BY <1>9
  <2>2. 0 \in 0 .. n /\ \A k \in 1 .. n : k \in 0 .. n /\ k # 0
    BY <1>1
  <2> HIDE DEF Is
  <2> QED BY <2>1, <2>2
<1>11. n \in 0 .. n /\ h[n] \in T[n] /\ SplitSizes(merged, ceiling) = h[n]
  <2>1. n \in 0 .. n
    BY <1>1
  <2>2. h[0] \in T[0] /\ \A k \in 1 .. n : h[k - 1] \in T[k - 1] => h[k] \in T[k]
    BY <1>2, <1>3, <1>10
  <2>3. \A k \in 0 .. n : h[k] \in T[k]
    BY <1>1, <2>2, Unfolded
  <2> QED BY <1>6, <1>9, <2>1, <2>3
<1> QED BY <1>5, <1>11

(* Whatever the model proposes, what clamping leaves is a list of groups.     *)
LEMMA ClampedList ==
  ASSUME Ranked1, NEW proposed, Grouping(proposed), NEW ceiling \in Nat \ {0}
  PROVE  IsList(ClampGroups(proposed, ceiling))
<1> DEFINE w == SplitSizes(MergeDown(SplitByParent(proposed), ceiling), ceiling)
           Strongest(R, n) == CHOOSE P \in R : Cardinality({Q \in R : MinRank(Q) < MinRank(P)}) = n - 1
           o == ByStrength(Range(w))
           c == Cardinality(Range(w))
<1>1. w \in Seq(WinnerPlaces)
  BY SplitKeeps, MergedDown, SplitSizesKeep
<1> HIDE DEF w
<1>2. IsList(w)
  BY <1>1, ListOf
<1>3. c \in Nat
  BY <1>2, RangeFinite
<1>4. o = [n \in 1 .. c |-> Strongest(Range(w), n)]
  BY DEF ByStrength
<1> HIDE DEF Strongest, o, c
<1>5. DOMAIN o = 1 .. c /\ o = [n \in 1 .. c |-> o[n]]
  BY <1>4
<1>6. IsList(o)
  BY <1>3, <1>5, IsListFrom
<1> QED BY <1>6 DEF ClampGroups, o, w

(* Stage B's groups, however they were found.                                 *)
LEMMA GroupedAre ==
  ASSUME Ranked1
  PROVE  /\ AreGroups(BuildGroups(FallbackGroups))
         /\ \A raw \in RawAnswers : \A xs :
               AreGroups(BuildGroups(IF ValidateGroups(raw) = <<>> THEN FallbackGroups
                                     ELSE ClampGroups(ValidateGroups(raw), Greater(1, MandateCeiling(xs)))))
         /\ AreGroups(<<>>)
<1>1. AreGroups(BuildGroups(FallbackGroups))
  BY FallbackList, GroupsBuilt DEF Ranked1
<1>2. ASSUME NEW raw \in RawAnswers, NEW xs
      PROVE  AreGroups(BuildGroups(IF ValidateGroups(raw) = <<>> THEN FallbackGroups
                                   ELSE ClampGroups(ValidateGroups(raw), Greater(1, MandateCeiling(xs)))))
  <2>1. Greater(1, MandateCeiling(xs)) \in Nat \ {0}
    BY GroupsAssumption DEF Greater, MandateCeiling
  <2>2. IsList(ClampGroups(ValidateGroups(raw), Greater(1, MandateCeiling(xs))))
    BY <2>1, ValidatedPlaces, ClampedList
  <2>3. IsList(IF ValidateGroups(raw) = <<>> THEN FallbackGroups
               ELSE ClampGroups(ValidateGroups(raw), Greater(1, MandateCeiling(xs))))
    BY <2>2, FallbackList
  <2> QED BY <2>3, GroupsBuilt DEF Ranked1
<1>3. AreGroups(<<>>)
  BY EmptyList DEF AreGroups
<1> QED BY <1>1, <1>2, <1>3

LEMMA GroupFields ==
  ASSUME NEW g, IsGroup(g), NEW ms, AreQuestions(ms)
  PROVE  LET h == [g EXCEPT !.members = ms]
         IN  IsGroup(h) /\ h.bracket = g.bracket /\ h.members = ms
<1> DEFINE h == [g EXCEPT !.members = ms]
<1>1. PICK b : b = g.bracket
  OBVIOUS
<1>2. h \in [bracket : {b}, members : {ms}]
  BY <1>1 DEF IsGroup
<1> HIDE DEF h
<1>3. h.bracket = b /\ h.members = ms
  BY <1>2
<1> QED BY <1>1, <1>2, <1>3 DEF IsGroup, h

LEMMA GroupsIn ==
  ASSUME NEW gs, IsList(gs)
  PROVE  AreGroups(gs) <=> \A g \in Range(gs) : IsGroup(g)
BY DEF AreGroups, Range

LEMMA GroupsJoined ==
  ASSUME NEW a, NEW b, AreGroups(a), AreGroups(b)
  PROVE  AreGroups(a \o b) /\ Range(a \o b) = Range(a) \cup Range(b)
<1>1. IsList(a) /\ IsList(b) /\ IsList(a \o b) /\ Range(a \o b) = Range(a) \cup Range(b)
  BY ListJoined DEF AreGroups
<1> QED BY <1>1, GroupsIn

LEMMA SeatedIs ==
  ASSUME NEW g, IsGroup(g), NEW rs, AreQuestions(rs)
  PROVE  /\ IsGroup(Seated(g, rs)) /\ Seated(g, rs).bracket = g.bracket
         /\ Range(Seated(g, rs).members) = Range(g.members) \cup Range(rs)
<1>1. PICK ms : ms = g.members \o rs
  OBVIOUS
<1>2. AreQuestions(ms) /\ Range(ms) = Range(g.members) \cup Range(rs)
  <2>1. AreQuestions(g.members)
    BY DEF IsGroup
  <2> QED BY <1>1, <2>1, QuestionsJoined, ListJoined DEF AreQuestions
<1>3. Seated(g, rs) = [g EXCEPT !.members = ms]
  BY <1>1 DEF Seated
<1> QED BY <1>2, <1>3, GroupFields

(* A member of a group that sheds riders stays or is among what it sheds.     *)
LEMMA ShedKeeps ==
  ASSUME NEW g, IsGroup(g)
  PROVE  /\ IsGroup(ShedRiders(g)) /\ ShedRiders(g).bracket = g.bracket
         /\ \A m \in Range(g.members) : m.text \in ShedTexts(g) \cup TextsOf(ShedRiders(g).members)
<1> DEFINE S == DOMAIN g.members \ OverBudget(g)
<1>1. PICK ms : ms = Those(g.members, S)
  OBVIOUS
<1>2. AreQuestions(g.members)
  BY DEF IsGroup
<1>3. AreQuestions(ms) /\ Range(ms) = {g.members[k] : k \in S}
  <2>1. S \in SUBSET DOMAIN g.members
    OBVIOUS
  <2> HIDE DEF S
  <2> QED BY <1>1, <1>2, <2>1, QuestionsThose, ThoseAre DEF AreQuestions
<1>4. ShedRiders(g) = [g EXCEPT !.members = ms]
  BY <1>1 DEF ShedRiders
<1>5. IsGroup(ShedRiders(g)) /\ ShedRiders(g).bracket = g.bracket /\ ShedRiders(g).members = ms
  BY <1>3, <1>4, GroupFields
<1>6. ASSUME NEW m \in Range(g.members) PROVE m.text \in ShedTexts(g) \cup TextsOf(ms)
  <2>1. PICK k \in DOMAIN g.members : m = g.members[k]
    BY DEF Range
  <2>2. CASE k \in OverBudget(g)
    BY <2>1, <2>2 DEF ShedTexts
  <2>3. CASE k \notin OverBudget(g)
    <3>1. m \in Range(ms)
      BY <1>3, <2>1, <2>3
    <3> QED BY <3>1 DEF TextsOf
  <2> QED BY <2>2, <2>3
<1> QED BY <1>5, <1>6

LEMMA PartitionedAre ==
  ASSUME NEW qs, AreQuestions(qs)
  PROVE  /\ AreQuestions(PartitionDiscovery(qs).riders) /\ AreQuestions(PartitionDiscovery(qs).cross)
         /\ Range(qs) = Range(PartitionDiscovery(qs).riders) \cup Range(PartitionDiscovery(qs).cross)
<1> DEFINE R == {k \in DOMAIN qs : ~IsCross(qs[k])}
           C == {k \in DOMAIN qs : IsCross(qs[k])}
<1>1. R \in SUBSET DOMAIN qs /\ C \in SUBSET DOMAIN qs /\ DOMAIN qs = R \cup C
  OBVIOUS
<1>2. PartitionDiscovery(qs).riders = Those(qs, R) /\ PartitionDiscovery(qs).cross = Those(qs, C)
  BY DEF PartitionDiscovery
<1> HIDE DEF R, C
<1>3. AreQuestions(Those(qs, R)) /\ AreQuestions(Those(qs, C))
  BY <1>1, QuestionsThose
<1>4. Range(Those(qs, R)) = {qs[k] : k \in R} /\ Range(Those(qs, C)) = {qs[k] : k \in C}
  BY <1>1, ThoseAre DEF AreQuestions
<1>5. Range(qs) = {qs[k] : k \in R} \cup {qs[k] : k \in C}
  BY <1>1 DEF Range
<1> QED BY <1>2, <1>3, <1>4, <1>5

(* The ranks stamped again change nothing else of a group.                    *)
SameGroup(h, g) ==
    /\ h.bracket = g.bracket /\ DOMAIN h.members = DOMAIN g.members
    /\ \A n \in DOMAIN g.members : Kept(h.members[n], g.members[n])

LEMMA RestampedKeeps ==
  ASSUME NEW m, IsQuestion(m), NEW qs, IsList(qs), NEW rider, NEW base \in Nat
  PROVE  IsQuestion(Restamped(m, qs, rider, base)) /\ Kept(Restamped(m, qs, rider, base), m)
<1> DEFINE same == {k \in DOMAIN qs : qs[k].text = m.text}
<1>1. CASE m.rider = rider /\ same # {}
  <2>1. DOMAIN qs \in SUBSET Nat
    BY ListIs
  <2>2. same \in SUBSET Nat
    BY <2>1
  <2>3. Restamped(m, qs, rider, base) = [m EXCEPT !.rank = base + First(same)]
    BY <1>1 DEF Restamped
  <2> HIDE DEF same
  <2>4. First(same) \in Nat
    BY <1>1, <2>2, FirstIs
  <2>5. PICK r \in Nat : r = base + First(same)
    BY <2>4
  <2> QED BY <2>3, <2>5, QuestionFields
<1>2. CASE ~(m.rider = rider /\ same # {})
  BY <1>2 DEF Restamped, Kept
<1> QED BY <1>1, <1>2

LEMMA StampedKeeps ==
  ASSUME NEW gs, AreGroups(gs), NEW qs, IsList(qs), NEW rider, NEW base \in Nat
  PROVE  LET out == Stamped(gs, qs, rider, base)
         IN  /\ AreGroups(out) /\ DOMAIN out = DOMAIN gs
             /\ \A k \in DOMAIN gs : SameGroup(out[k], gs[k])
<1> DEFINE Ms(g) == [n \in DOMAIN g.members |-> Restamped(g.members[n], qs, rider, base)]
           out == Stamped(gs, qs, rider, base)
<1>1. Len(gs) \in Nat /\ DOMAIN gs = 1 .. Len(gs)
  BY ListIs DEF AreGroups
<1>2. out = [k \in DOMAIN gs |-> [gs[k] EXCEPT !.members = Ms(gs[k])]]
  BY DEF Stamped
<1>3. ASSUME NEW g, IsGroup(g)
      PROVE  AreQuestions(Ms(g)) /\ DOMAIN Ms(g) = DOMAIN g.members /\ \A n \in DOMAIN g.members : Kept(Ms(g)[n], g.members[n])
  <2>1. AreQuestions(g.members)
    BY <1>3 DEF IsGroup
  <2>2. Len(g.members) \in Nat /\ DOMAIN g.members = 1 .. Len(g.members)
    BY <2>1, ListIs DEF AreQuestions
  <2>3. PICK ms : ms = Ms(g)
    OBVIOUS
  <2>4. /\ DOMAIN ms = 1 .. Len(g.members) /\ ms = [n \in 1 .. Len(g.members) |-> ms[n]]
        /\ \A n \in 1 .. Len(g.members) : ms[n] = Restamped(g.members[n], qs, rider, base)
    BY <2>2, <2>3
  <2> HIDE DEF Ms
  <2>5. IsList(ms)
    BY <2>2, <2>4, IsListFrom
  <2>6. ASSUME NEW n \in 1 .. Len(g.members) PROVE IsQuestion(ms[n]) /\ Kept(ms[n], g.members[n])
    <3>1. PICK m : m = g.members[n]
      OBVIOUS
    <3>2. IsQuestion(m) /\ ms[n] = Restamped(m, qs, rider, base)
      BY <2>1, <2>2, <2>4, <3>1 DEF AreQuestions
    <3>3. IsQuestion(Restamped(m, qs, rider, base)) /\ Kept(Restamped(m, qs, rider, base), m)
      BY <3>2, RestampedKeeps
    <3> QED BY <3>1, <3>2, <3>3
  <2> QED BY <2>2, <2>3, <2>4, <2>5, <2>6 DEF AreQuestions
<1> HIDE DEF Ms, out
<1>4. ASSUME NEW k \in DOMAIN gs PROVE IsGroup(out[k]) /\ SameGroup(out[k], gs[k])
  <2>1. IsGroup(gs[k])
    BY DEF AreGroups
  <2>2. PICK g, ms : g = gs[k] /\ ms = Ms(g)
    OBVIOUS
  <2>3. out[k] = [g EXCEPT !.members = ms]
    BY <1>2, <2>2
  <2>4. IsGroup(g) /\ AreQuestions(ms) /\ DOMAIN ms = DOMAIN g.members /\ \A n \in DOMAIN g.members : Kept(ms[n], g.members[n])
    BY <1>3, <2>1, <2>2
  <2>5. IsGroup(out[k]) /\ out[k].bracket = g.bracket /\ out[k].members = ms
    BY <2>3, <2>4, GroupFields
  <2> QED BY <2>2, <2>4, <2>5 DEF SameGroup
<1>5. DOMAIN out = 1 .. Len(gs) /\ out = [k \in 1 .. Len(gs) |-> out[k]]
  BY <1>1, <1>2
<1>6. IsList(out)
  BY <1>1, <1>5, IsListFrom
<1> QED BY <1>1, <1>4, <1>5, <1>6 DEF AreGroups, out

Served(gs, l) == \E g \in Range(gs) : IsMandate(g) /\ \E m \in Range(g.members) : ~m.rider /\ Has(m, l)

LEMMA StampedServes ==
  ASSUME NEW gs, AreGroups(gs), NEW qs, IsList(qs), NEW rider, NEW base \in Nat
  PROVE  /\ \A l : Served(gs, l) => Served(Stamped(gs, qs, rider, base), l)
         /\ InGroups(gs) \subseteq InGroups(Stamped(gs, qs, rider, base))
<1> DEFINE out == Stamped(gs, qs, rider, base)
<1>1. DOMAIN out = DOMAIN gs /\ \A k \in DOMAIN gs : SameGroup(out[k], gs[k])
  BY StampedKeeps
<1> HIDE DEF out
<1>2. ASSUME NEW g \in Range(gs)
      PROVE  \E h \in Range(out) : /\ h.bracket = g.bracket
                                   /\ \A m \in Range(g.members) : \E o \in Range(h.members) : Kept(o, m)
  <2>1. PICK k \in DOMAIN gs : g = gs[k]
    BY DEF Range
  <2>2. PICK h : h = out[k]
    OBVIOUS
  <2>3. h \in Range(out)
    BY <1>1, <2>1, <2>2 DEF Range
  <2>4. SameGroup(h, g)
    BY <1>1, <2>1, <2>2
  <2>5. \A m \in Range(g.members) : \E o \in Range(h.members) : Kept(o, m)
    BY <2>4 DEF SameGroup, Range
  <2> QED BY <2>3, <2>4, <2>5 DEF SameGroup
<1>3. ASSUME NEW l, Served(gs, l) PROVE Served(out, l)
  <2>1. PICK g \in Range(gs) : IsMandate(g) /\ \E m \in Range(g.members) : ~m.rider /\ Has(m, l)
    BY <1>3 DEF Served
  <2>2. PICK m \in Range(g.members) : ~m.rider /\ Has(m, l)
    BY <2>1
  <2>3. PICK h \in Range(out) : h.bracket = g.bracket /\ \A x \in Range(g.members) : \E o \in Range(h.members) : Kept(o, x)
    BY <1>2
  <2>4. PICK o \in Range(h.members) : Kept(o, m)
    BY <2>3
  <2>5. IsMandate(h) /\ ~o.rider /\ Has(o, l)
    BY <2>1, <2>2, <2>3, <2>4 DEF IsMandate, Kept, Has
  <2> QED BY <2>5 DEF Served
<1>4. ASSUME NEW t \in InGroups(gs) PROVE t \in InGroups(out)
  <2>1. PICK g \in Range(gs) : t \in TextsOf(g.members)
    BY DEF InGroups
  <2>2. PICK m \in Range(g.members) : t = m.text
    BY <2>1 DEF TextsOf
  <2>3. PICK h \in Range(out) : h.bracket = g.bracket /\ \A x \in Range(g.members) : \E o \in Range(h.members) : Kept(o, x)
    BY <1>2
  <2>4. PICK o \in Range(h.members) : Kept(o, m)
    BY <2>3
  <2>5. o.text = t
    BY <2>2, <2>4 DEF Kept
  <2>6. t \in TextsOf(h.members)
    BY <2>5 DEF TextsOf
  <2> QED BY <2>6 DEF InGroups
<1> QED BY <1>3, <1>4 DEF out

(* The coverage check makes room by dropping discovery's group, never one of  *)
(* the client's.                                                              *)
LEMMA RoomKeeps ==
  ASSUME NEW gs, AreGroups(gs), NEW c
  PROVE  /\ AreGroups(MakeRoom(gs, c)) /\ Range(MakeRoom(gs, c)) \subseteq Range(gs)
         /\ \A g \in Range(gs) : IsMandate(g) => g \in Range(MakeRoom(gs, c))
<1> DEFINE S == {k \in DOMAIN gs : IsMandate(gs[k])}
<1>1. MakeRoom(gs, c) = gs \/ MakeRoom(gs, c) = Those(gs, S)
  BY DEF MakeRoom
<1>2. S \in SUBSET DOMAIN gs
  OBVIOUS
<1>3. IsList(gs)
  BY DEF AreGroups
<1>4. \A g \in Range(gs) : IsMandate(g) => \E k \in S : g = gs[k]
  BY DEF Range
<1> HIDE DEF S
<1>5. /\ IsList(Those(gs, S)) /\ Range(Those(gs, S)) = {gs[k] : k \in S}
      /\ \A n \in DOMAIN Those(gs, S) : Those(gs, S)[n] \in Range(gs)
  BY <1>2, <1>3, ThoseAre
<1>6. Range(Those(gs, S)) \subseteq Range(gs)
  BY <1>2, <1>5 DEF Range
<1>7. AreGroups(Those(gs, S))
  BY <1>3, <1>5, <1>6, GroupsIn
<1>8. \A g \in Range(gs) : IsMandate(g) => g \in Range(Those(gs, S))
  BY <1>4, <1>5
<1> QED BY <1>1, <1>6, <1>7, <1>8

(* After it every client question is served, and no text a group held is      *)
(* neither in a group nor among what was shed.                                *)
LEMMA Repaired ==
  ASSUME NEW gs, AreGroups(gs), NEW ws, AreQuestions(ws),
         AreQuestions(given.ranked), \A k \in DOMAIN given.ranked : ~given.ranked[k].rider
  PROVE  LET fix == RepairCoverage(gs, ws)
         IN  /\ AreQuestions(fix.winners) /\ AreGroups(fix.groups)
             /\ \A l \in Clients : Served(fix.groups, l)
             /\ InGroups(gs) \subseteq fix.shed \cup InGroups(fix.groups)
<1> DEFINE missing == Unserved(CoveredByMandate(gs))
           repairs == Promote(missing, given.ranked, IdxOf(ws))
           left == IF missing = <<>> THEN gs ELSE MakeRoom(gs, Len(missing))
           Alone(q) == BuildGroup({1}, <<q>>, "mandate")
           own == [k \in DOMAIN missing |-> Alone(repairs[k])]
           out == Rerank(repairs \o ws)
           fixed == RestampGroups(own \o left, out)
           shed == UNION {TextsOf(g.members) : g \in Range(gs) \ Range(left)}
<1>1. RepairCoverage(gs, ws) = [groups |-> fixed, winners |-> out, shed |-> shed]
  BY DEF RepairCoverage
<1>2. IsList(missing) /\ Range(missing) = Clients \ CoveredByMandate(gs)
  BY UnservedAre
<1>3. Len(missing) \in Nat /\ DOMAIN missing = 1 .. Len(missing)
  BY <1>2, ListIs
<1>4. AreQuestions(repairs) /\ DOMAIN repairs = DOMAIN missing /\ \A k \in DOMAIN missing : Has(repairs[k], missing[k]) /\ ~repairs[k].rider
  <2> HIDE DEF missing
  <2> QED BY <1>2, PromoteServes
<1>5. /\ AreGroups(left) /\ Range(left) \subseteq Range(gs)
      /\ \A g \in Range(gs) : IsMandate(g) => g \in Range(left)
  BY RoomKeeps
<1> HIDE DEF missing, repairs, left
<1>6. AreQuestions(out)
  BY <1>4, QuestionsJoined, Reranked
<1> HIDE DEF out
<1>7. ASSUME NEW q, IsQuestion(q)
      PROVE  IsGroup(Alone(q)) /\ IsMandate(Alone(q)) /\ Range(Alone(q).members) = {q}
  <2>1. IsList(<<q>>) /\ DOMAIN <<q>> = {1} /\ <<q>>[1] = q
    BY OneList
  <2>2. AreQuestions(<<q>>)
    BY <1>7, <2>1 DEF AreQuestions
  <2>3. PICK ms : ms = <<q>>
    OBVIOUS
  <2>4. /\ IsGroup(BuildGroup({1}, ms, "mandate")) /\ BuildGroup({1}, ms, "mandate").bracket = "mandate"
        /\ Range(BuildGroup({1}, ms, "mandate").members) = {ms[i] : i \in {1} \cap DOMAIN ms}
    BY <2>2, <2>3, GroupBuilt
  <2>5. {ms[i] : i \in {1} \cap DOMAIN ms} = {q}
    BY <2>1, <2>3
  <2> QED BY <2>3, <2>4, <2>5 DEF IsMandate
<1>8. \A k \in 1 .. Len(missing) : IsQuestion(repairs[k])
  BY <1>3, <1>4 DEF AreQuestions
<1>9. AreGroups(own)
  <2>1. DOMAIN own = 1 .. Len(missing) /\ own = [k \in 1 .. Len(missing) |-> own[k]]
        /\ \A k \in 1 .. Len(missing) : own[k] = Alone(repairs[k])
    BY <1>3
  <2> HIDE DEF own, Alone
  <2>2. IsList(own)
    BY <1>3, <2>1, IsListFrom
  <2> QED BY <1>7, <1>8, <2>1, <2>2 DEF AreGroups
<1>10. ASSUME NEW l \in Clients PROVE Served(own \o left, l)
  <2>1. AreGroups(own \o left) /\ Range(own \o left) = Range(own) \cup Range(left)
    BY <1>5, <1>9, GroupsJoined
  <2>2. CASE l \in CoveredByMandate(gs)
    <3>1. PICK g \in {h \in Range(gs) : IsMandate(h)} : l \in ParentsIn(Mandated(g))
      BY <2>2 DEF CoveredByMandate
    <3>2. PICK m \in Mandated(g) : l \in Range(m.parents)
      BY <3>1 DEF ParentsIn
    <3>3. g \in Range(own \o left)
      BY <1>5, <2>1, <3>1
    <3> HIDE DEF own
    <3> QED BY <3>1, <3>2, <3>3 DEF Served, Mandated, Has
  <2>3. CASE l \notin CoveredByMandate(gs)
    <3>1. PICK k \in DOMAIN missing : missing[k] = l
      BY <1>2, <2>3 DEF Range
    <3>2. PICK q : q = repairs[k]
      OBVIOUS
    <3>3. IsQuestion(q) /\ Has(q, l) /\ ~q.rider
      BY <1>3, <1>4, <1>8, <3>1, <3>2
    <3>4. Alone(q) \in Range(own)
      BY <3>2 DEF Range
    <3>5. IsMandate(Alone(q)) /\ Range(Alone(q).members) = {q}
      BY <1>7, <3>3
    <3> HIDE DEF own, Alone
    <3> QED BY <2>1, <3>3, <3>4, <3>5 DEF Served
  <2> QED BY <2>2, <2>3
<1> HIDE DEF own, Alone
<1>11. AreGroups(own \o left) /\ Range(own \o left) = Range(own) \cup Range(left)
  BY <1>5, <1>9, GroupsJoined
<1>12. PICK all : all = own \o left
  OBVIOUS
<1>13. fixed = Stamped(all, out, FALSE, 0) /\ IsList(out)
  BY <1>6, <1>12 DEF RestampGroups, AreQuestions
<1>14. AreGroups(fixed) /\ (\A l \in Clients : Served(fixed, l)) /\ InGroups(all) \subseteq InGroups(fixed)
  <2> HIDE DEF fixed
  <2> QED BY <1>10, <1>11, <1>12, <1>13, StampedKeeps, StampedServes
<1>15. ASSUME NEW t \in InGroups(gs) PROVE t \in shed \cup InGroups(all)
  <2>1. PICK g \in Range(gs) : t \in TextsOf(g.members)
    BY DEF InGroups
  <2>2. CASE g \in Range(left)
    BY <1>11, <1>12, <2>1, <2>2 DEF InGroups
  <2>3. CASE g \notin Range(left)
    BY <2>1, <2>3
  <2> QED BY <2>2, <2>3
<1> HIDE DEF fixed, shed
<1> QED BY <1>1, <1>6, <1>14, <1>15

HandedQuestions(h) ==
    /\ AreQuestions(h.winners) /\ AreQuestions(h.ranked) /\ \A k \in DOMAIN h.ranked : ~h.ranked[k].rider
    /\ IsList(h.conflicts) /\ IsList(h.angles)
LEMMA HandoversAre == \A h \in Handovers : HandedQuestions(h)
<1> TAKE h \in Handovers
<1>1. IsList(h.winners) /\ IsList(h.ranked) /\ IsList(h.conflicts) /\ IsList(h.angles)
  BY GroupsAssumption DEF IsList
<1>2. (\A m \in Range(h.winners) : IsQuestion(m)) /\ \A m \in Range(h.ranked) : IsQuestion(m) /\ ~m.rider
  BY GroupsAssumption
<1>3. AreQuestions(h.winners) /\ AreQuestions(h.ranked)
  BY <1>1, <1>2, QuestionsIn
<1>4. \A k \in DOMAIN h.ranked : ~h.ranked[k].rider
  BY <1>2 DEF Range
<1> QED BY <1>1, <1>3, <1>4 DEF HandedQuestions

LEMMA EvolvedAre ==
  ASSUME NEW ws, AreQuestions(ws), NEW S
  PROVE  AreQuestions([k \in DOMAIN ws |-> IF k \in S THEN [ws[k] EXCEPT !.text = Reworded] ELSE ws[k]])
<1> DEFINE out == [k \in DOMAIN ws |-> IF k \in S THEN [ws[k] EXCEPT !.text = Reworded] ELSE ws[k]]
<1>1. Len(ws) \in Nat /\ DOMAIN ws = 1 .. Len(ws)
  BY ListIs DEF AreQuestions
<1>2. /\ DOMAIN out = 1 .. Len(ws) /\ out = [k \in 1 .. Len(ws) |-> out[k]]
      /\ \A k \in 1 .. Len(ws) : out[k] = ws[k] \/ out[k] = [ws[k] EXCEPT !.text = Reworded]
  BY <1>1
<1> HIDE DEF out
<1>3. IsList(out)
  BY <1>1, <1>2, IsListFrom
<1>4. ASSUME NEW k \in 1 .. Len(ws) PROVE IsQuestion(out[k])
  <2>1. PICK m : m = ws[k]
    OBVIOUS
  <2>2. IsQuestion(m) /\ IsQuestion([m EXCEPT !.text = Reworded])
    BY <1>1, <2>1, RewordedQuestion DEF AreQuestions
  <2> QED BY <1>2, <2>1, <2>2
<1> QED BY <1>2, <1>3, <1>4 DEF AreQuestions, out

LEMMA RanksMoved ==
  ASSUME NEW qs, AreQuestions(qs), NEW base \in Nat
  PROVE  AreQuestions([k \in DOMAIN qs |-> [qs[k] EXCEPT !.rank = base + k]])
<1> DEFINE out == [k \in DOMAIN qs |-> [qs[k] EXCEPT !.rank = base + k]]
<1>1. Len(qs) \in Nat /\ DOMAIN qs = 1 .. Len(qs)
  BY ListIs DEF AreQuestions
<1>2. /\ DOMAIN out = 1 .. Len(qs) /\ out = [k \in 1 .. Len(qs) |-> out[k]]
      /\ \A k \in 1 .. Len(qs) : out[k] = [qs[k] EXCEPT !.rank = base + k]
  BY <1>1
<1> HIDE DEF out
<1>3. IsList(out)
  BY <1>1, <1>2, IsListFrom
<1>4. ASSUME NEW k \in 1 .. Len(qs) PROVE IsQuestion(out[k])
  <2>1. PICK m, r : m = qs[k] /\ r = base + k
    OBVIOUS
  <2>2. IsQuestion(m) /\ r \in Nat
    BY <1>1, <2>1 DEF AreQuestions
  <2> QED BY <1>2, <2>1, <2>2, QuestionFields
<1> QED BY <1>2, <1>3, <1>4 DEF AreQuestions, out

LEMMA FallbackServes ==
  LET own == [k \in DOMAIN ClientSeq |-> BuildGroup({k}, FallbackWinners, "mandate")]
  IN  AreQuestions(FallbackWinners) /\ AreGroups(own) /\ \A l \in Clients : Served(own, l)
<1> DEFINE own == [k \in DOMAIN ClientSeq |-> BuildGroup({k}, FallbackWinners, "mandate")]
           n == Len(ClientSeq)
           ws == FallbackWinners
<1>1. n \in Nat /\ DOMAIN ClientSeq = 1 .. n
  BY GroupsAssumption, ListIs DEF IsList
<1>2. /\ DOMAIN ws = 1 .. n /\ ws = [k \in 1 .. n |-> ws[k]]
      /\ \A k \in 1 .. n : ws[k] = [VerbatimWinner(ClientSeq[k]) EXCEPT !.idx = k - 1, !.rank = k]
  BY <1>1 DEF FallbackWinners
<1>3. DOMAIN own = 1 .. n /\ own = [k \in 1 .. n |-> own[k]] /\ \A k \in 1 .. n : own[k] = BuildGroup({k}, ws, "mandate")
  BY <1>1
<1> HIDE DEF own, ws
<1>4. ASSUME NEW k \in 1 .. n PROVE IsQuestion(ws[k]) /\ Has(ws[k], ClientSeq[k]) /\ ~ws[k].rider
  <2>1. PICK l, q : l = ClientSeq[k] /\ q = [VerbatimWinner(l) EXCEPT !.idx = k - 1, !.rank = k]
    OBVIOUS
  <2>3. k \in Nat
    OBVIOUS
  <2>4. /\ IsQuestion([VerbatimWinner(l) EXCEPT !.idx = k - 1, !.rank = k])
        /\ Has([VerbatimWinner(l) EXCEPT !.idx = k - 1, !.rank = k], l)
        /\ ~[VerbatimWinner(l) EXCEPT !.idx = k - 1, !.rank = k].rider
    BY <2>3, MadeQuestions
  <2>2. IsQuestion(q) /\ Has(q, l) /\ ~q.rider
    BY <2>1, <2>4
  <2> QED BY <1>2, <2>1, <2>2
<1>5. AreQuestions(ws)
  BY <1>1, <1>2, <1>4, IsListFrom DEF AreQuestions
<1>6. ASSUME NEW k \in 1 .. n
      PROVE  IsGroup(own[k]) /\ IsMandate(own[k]) /\ ws[k] \in Range(own[k].members)
  <2>1. {k} \cap DOMAIN ws = {k}
    BY <1>2
  <2>2. /\ IsGroup(BuildGroup({k}, ws, "mandate")) /\ BuildGroup({k}, ws, "mandate").bracket = "mandate"
        /\ Range(BuildGroup({k}, ws, "mandate").members) = {ws[i] : i \in {k} \cap DOMAIN ws}
    BY <1>5, GroupBuilt
  <2> QED BY <1>3, <2>1, <2>2 DEF IsMandate
<1>7. AreGroups(own)
  BY <1>1, <1>3, <1>6, IsListFrom DEF AreGroups
<1>8. ASSUME NEW l \in Clients PROVE Served(own, l)
  <2>1. PICK k \in 1 .. n : ClientSeq[k] = l
    BY <1>1 DEF Clients, Range
  <2>2. own[k] \in Range(own)
    BY <1>3 DEF Range
  <2> QED BY <1>4, <1>6, <2>1, <2>2 DEF Served
<1> QED BY <1>5, <1>7, <1>8 DEF own, ws

(* A rider is seated with a group, shed by it, or told it has none.           *)
Seating(gs, rs) == [k \in DOMAIN gs |-> Seated(gs[k], RidersOf(gs, rs, k))]
LEMMA RidersSeated ==
  ASSUME NEW gs, AreGroups(gs), NEW rs, AreQuestions(rs)
  PROVE  LET stays == [k \in DOMAIN gs |-> ShedRiders(Seating(gs, rs)[k])]
         IN  /\ AreGroups(stays)
             /\ \A r \in Range(rs) : \/ HostOfRider(gs, r) = {}
                                     \/ r.text \in UNION {ShedTexts(Seating(gs, rs)[k]) : k \in DOMAIN gs}
                                     \/ r.text \in InGroups(stays)
<1> DEFINE seat == Seating(gs, rs)
           stays == [k \in DOMAIN gs |-> ShedRiders(seat[k])]
<1>1. Len(gs) \in Nat /\ DOMAIN gs = 1 .. Len(gs)
  BY ListIs DEF AreGroups
<1>2. ASSUME NEW k \in DOMAIN gs
      PROVE  /\ IsGroup(seat[k])
             /\ \A r \in Range(rs) : k \in HostOfRider(gs, r) => r \in Range(seat[k].members)
  <2> DEFINE S == {n \in DOMAIN rs : k \in HostOfRider(gs, rs[n])}
  <2>1. PICK g, ms : g = gs[k] /\ ms = RidersOf(gs, rs, k)
    OBVIOUS
  <2>2. seat[k] = Seated(g, ms)
    BY <2>1 DEF Seating
  <2>3. ms = Those(rs, S) /\ S \in SUBSET DOMAIN rs
    BY <2>1 DEF RidersOf
  <2>4. \A r \in Range(rs) : k \in HostOfRider(gs, r) => \E n \in S : r = rs[n]
    BY DEF Range
  <2> HIDE DEF S, seat
  <2>5. AreQuestions(ms) /\ Range(ms) = {rs[n] : n \in S}
    BY <2>3, QuestionsThose, ThoseAre DEF AreQuestions
  <2>6. IsGroup(g)
    BY <2>1 DEF AreGroups
  <2>7. IsGroup(Seated(g, ms)) /\ Range(Seated(g, ms).members) = Range(g.members) \cup Range(ms)
    BY <2>5, <2>6, SeatedIs
  <2> QED BY <2>2, <2>4, <2>5, <2>7
<1>3. DOMAIN stays = 1 .. Len(gs) /\ stays = [k \in 1 .. Len(gs) |-> stays[k]] /\ \A k \in 1 .. Len(gs) : stays[k] = ShedRiders(seat[k])
  BY <1>1
<1> HIDE DEF stays, seat
<1>4. \A k \in 1 .. Len(gs) : IsGroup(stays[k])
  BY <1>1, <1>2, <1>3, ShedKeeps
<1>5. AreGroups(stays)
  BY <1>1, <1>3, <1>4, IsListFrom DEF AreGroups
<1>6. ASSUME NEW r \in Range(rs), NEW k \in HostOfRider(gs, r)
      PROVE  r.text \in (UNION {ShedTexts(seat[j]) : j \in DOMAIN gs}) \cup InGroups(stays)
  <2>1. k \in DOMAIN gs
    BY DEF HostOfRider
  <2>2. r \in Range(seat[k].members) /\ IsGroup(seat[k])
    BY <1>2, <2>1
  <2>3. r.text \in ShedTexts(seat[k]) \cup TextsOf(ShedRiders(seat[k]).members)
    BY <2>2, ShedKeeps
  <2>4. ShedRiders(seat[k]) \in Range(stays)
    BY <1>1, <1>3, <2>1 DEF Range
  <2> QED BY <2>1, <2>3, <2>4 DEF InGroups
<1> QED BY <1>5, <1>6 DEF stays, seat

(* The inductive invariant: what the lists hold, and where a text the         *)
(* evidence raised may be at each phase.                                      *)
Working == {"evolved", "scoped", "allocated", "grouped", "ridden"}
GroupLists == /\ AreQuestions(final) /\ AreQuestions(discovery) /\ AreQuestions(cross) /\ AreGroups(groups)
              /\ gphase \in Working => given \in Handovers
WinnersRanked == gphase \in {"scoped", "allocated"} => \A k \in DOMAIN final : final[k].rank = k
CrossPlaced == gphase = "grouped" =>
    TextsOf(PartitionDiscovery(discovery).cross) \subseteq TextsOf(cross) \cup notResearched
AllPlaced == gphase = "ridden" => TextsOf(discovery) \subseteq notResearched \cup InGroups(groups)
GroupsInv == GroupLists /\ WinnersRanked /\ CrossPlaced /\ AllPlaced /\ EveryQuestionGrouped /\ DiscoveryAccounted

LEMMA ServedIsGrouped ==
  ASSUME \A l \in Clients : Served(groups, l)
  PROVE  EveryQuestionGrouped
BY DEF EveryQuestionGrouped, Served

LEMMA GroupsStart == GInit => GroupsInv
<1> SUFFICES ASSUME GInit PROVE GroupsInv
  OBVIOUS
<1>1. AreQuestions(<<>>) /\ AreGroups(<<>>)
  BY EmptyList DEF AreQuestions, AreGroups
<1>2. GroupLists
  BY <1>1 DEF GInit, GroupLists, Working
<1> QED BY <1>2 DEF GInit, GroupsInv, WinnersRanked, CrossPlaced, AllPlaced, EveryQuestionGrouped, DiscoveryAccounted

(* Before the groups are ridden nothing is promised of them yet.              *)
LEMMA GroupsEarly ==
  ASSUME GroupsInv, AreQuestions(final'), gphase' \in {"evolved", "scoped", "allocated"}, given' \in Handovers,
         gphase' # "evolved" => \A k \in DOMAIN final' : final'[k].rank = k,
         AreQuestions(discovery'), UNCHANGED <<cross, groups>>
  PROVE  GroupsInv'
<1>1. AreQuestions(cross') /\ AreGroups(groups')
  BY DEF GroupsInv, GroupLists
<1>2. GroupLists'
  BY <1>1 DEF GroupLists
<1> QED BY <1>2 DEF GroupsInv, WinnersRanked, CrossPlaced, AllPlaced, EveryQuestionGrouped, DiscoveryAccounted

LEMMA EvolvesGroups == GroupsInv /\ EvolveWinners => GroupsInv'
<1> SUFFICES ASSUME GroupsInv, EvolveWinners PROVE GroupsInv'
  OBVIOUS
<1>0. PICK h \in Handovers : \E S \in UsableLines(h.winners) :
          /\ given' = h
          /\ final' = [k \in DOMAIN h.winners |-> IF k \in S THEN [h.winners[k] EXCEPT !.text = Reworded]
                                                 ELSE h.winners[k]]
  BY DEF EvolveWinners
<1>1. PICK S : /\ given' = h
               /\ final' = [k \in DOMAIN h.winners |-> IF k \in S THEN [h.winners[k] EXCEPT !.text = Reworded]
                                                      ELSE h.winners[k]]
  BY <1>0
<1>2. PICK ws : ws = h.winners /\ AreQuestions(ws)
  BY HandoversAre DEF HandedQuestions
<1>3. AreQuestions(final')
  BY <1>1, <1>2, EvolvedAre
<1>4. gphase' = "evolved" /\ UNCHANGED <<discovery, cross, groups>>
  BY DEF EvolveWinners
<1>5. AreQuestions(discovery')
  BY <1>4 DEF GroupsInv, GroupLists
<1> QED BY <1>1, <1>3, <1>4, <1>5, GroupsEarly

LEMMA GuardsScope == GroupsInv /\ EnforceScopeGuard => GroupsInv'
<1> SUFFICES ASSUME GroupsInv, EnforceScopeGuard PROVE GroupsInv'
  OBVIOUS
<1>1. gphase = "evolved" /\ given \in Handovers /\ AreQuestions(final) /\ AreQuestions(discovery)
  BY DEF GroupsInv, GroupLists, EnforceScopeGuard, Working
<1>2. HandedQuestions(given)
  BY <1>1, HandoversAre
<1>3. PICK ws : ws = ScopeGuard(final, given.ranked)
  OBVIOUS
<1>4. AreQuestions(ws) /\ \A k \in DOMAIN ws : ws[k].rank = k
  BY <1>1, <1>2, <1>3, ScopeGuardKeeps DEF HandedQuestions
<1>5. final' = ws /\ gphase' = "scoped" /\ UNCHANGED <<given, discovery, cross, groups>>
  BY <1>3 DEF EnforceScopeGuard
<1> QED BY <1>1, <1>4, <1>5, GroupsEarly

LEMMA AllocatesDiscovery == GroupsInv /\ Allocate => GroupsInv'
<1> SUFFICES ASSUME GroupsInv, Allocate PROVE GroupsInv'
  OBVIOUS
<1>1. gphase = "scoped" /\ given \in Handovers /\ AreQuestions(final) /\ \A k \in DOMAIN final : final[k].rank = k
  BY DEF GroupsInv, GroupLists, WinnersRanked, Allocate, Working
<1>2. HandedQuestions(given)
  BY <1>1, HandoversAre
<1>3. PICK qs : qs = FillRemainingSlots(AllocateDiscovery(given.conflicts), given.angles) /\ AreQuestions(qs)
  BY <1>2, AllocatedAre, FilledAre DEF HandedQuestions
<1>4. PICK base \in Nat : base = Len(final)
  BY <1>1, ListIs DEF AreQuestions
<1>5. discovery' = [k \in DOMAIN qs |-> [qs[k] EXCEPT !.rank = base + k]]
  BY <1>3, <1>4 DEF Allocate
<1>6. AreQuestions(discovery')
  BY <1>3, <1>5, RanksMoved
<1>7. gphase' = "allocated" /\ UNCHANGED <<given, final, cross, groups>>
  BY DEF Allocate
<1> QED BY <1>1, <1>6, <1>7, GroupsEarly

LEMMA GroupsTheWinners == GroupsInv /\ GroupWinners => GroupsInv'
<1> SUFFICES ASSUME GroupsInv, GroupWinners PROVE GroupsInv'
  OBVIOUS
<1> DEFINE xs == PartitionDiscovery(discovery).cross
<1>1. Ranked1 /\ given \in Handovers /\ AreQuestions(discovery)
  BY DEF GroupsInv, GroupLists, WinnersRanked, GroupWinners, Working, Ranked1
<1>2. gphase' = "grouped" /\ UNCHANGED <<given, final, discovery>>
  BY DEF GroupWinners
<1>3. /\ cross' = IF YieldsItsSlot(xs) THEN <<>> ELSE xs
      /\ notResearched' = IF YieldsItsSlot(xs) THEN TextsOf(xs) ELSE {}
  BY DEF GroupWinners
<1>4. \/ groups' = BuildGroups(FallbackGroups) \/ groups' = <<>>
      \/ \E raw \in RawAnswers :
            groups' = BuildGroups(IF ValidateGroups(raw) = <<>> THEN FallbackGroups
                                  ELSE ClampGroups(ValidateGroups(raw), Greater(1, MandateCeiling(xs))))
  BY DEF GroupWinners
<1> HIDE DEF xs
<1>5. AreGroups(groups')
  BY <1>1, <1>4, GroupedAre
<1>6. AreQuestions(cross')
  <2>1. AreQuestions(xs) /\ AreQuestions(<<>>)
    BY <1>1, PartitionedAre, EmptyList DEF xs, AreQuestions
  <2> QED BY <1>3, <2>1
<1>7. TextsOf(xs) \subseteq TextsOf(cross') \cup notResearched'
  BY <1>3
<1>8. GroupLists'
  BY <1>1, <1>2, <1>5, <1>6 DEF GroupLists, Ranked1
<1>9. CrossPlaced'
  BY <1>2, <1>7 DEF CrossPlaced, xs
<1> QED BY <1>2, <1>8, <1>9 DEF GroupsInv, WinnersRanked, AllPlaced, EveryQuestionGrouped, DiscoveryAccounted

LEMMA AttachesRiders == GroupsInv /\ AttachRiders => GroupsInv'
<1> SUFFICES ASSUME GroupsInv, AttachRiders PROVE GroupsInv'
  OBVIOUS
<1>1. /\ gphase = "grouped" /\ given \in Handovers /\ AreQuestions(final) /\ AreQuestions(discovery)
      /\ AreQuestions(cross) /\ AreGroups(groups)
      /\ TextsOf(PartitionDiscovery(discovery).cross) \subseteq TextsOf(cross) \cup notResearched
  BY DEF GroupsInv, GroupLists, CrossPlaced, AttachRiders, Working
<1>2. gphase' = "ridden" /\ UNCHANGED <<given, final, discovery, cross>>
  BY DEF AttachRiders
<1>3. PICK rs, xs : rs = PartitionDiscovery(discovery).riders /\ xs = PartitionDiscovery(discovery).cross
  OBVIOUS
<1>4. AreQuestions(rs) /\ Range(discovery) = Range(rs) \cup Range(xs)
  BY <1>1, <1>3, PartitionedAre
<1>5. PICK seat, stays : seat = Seating(groups, rs) /\ stays = [k \in DOMAIN groups |-> ShedRiders(Seating(groups, rs)[k])]
  OBVIOUS
<1>6. PICK own : own = BuildGroup(DOMAIN cross, cross, "discovery")
  OBVIOUS
<1>7. PICK last : last = IF cross = <<>> THEN <<>> ELSE <<own>>
  OBVIOUS
<1>8. /\ groups' = stays \o last
      /\ notResearched' = notResearched \cup {r.text : r \in {q \in Range(rs) : HostOfRider(groups, q) = {}}}
                            \cup UNION {ShedTexts(seat[k]) : k \in DOMAIN groups}
  BY <1>3, <1>5, <1>6, <1>7 DEF AttachRiders, Seating
<1>9. /\ AreGroups(stays)
      /\ \A r \in Range(rs) : \/ HostOfRider(groups, r) = {}
                              \/ r.text \in UNION {ShedTexts(seat[k]) : k \in DOMAIN groups}
                              \/ r.text \in InGroups(stays)
  BY <1>1, <1>4, <1>5, RidersSeated
<1>10. IsGroup(own) /\ Range(own.members) = Range(cross)
  <2>1. DOMAIN cross \cap DOMAIN cross = DOMAIN cross
    OBVIOUS
  <2>2. PICK S, ms : S = DOMAIN cross /\ ms = cross
    OBVIOUS
  <2>3. /\ IsGroup(BuildGroup(S, ms, "discovery"))
        /\ Range(BuildGroup(S, ms, "discovery").members) = {ms[i] : i \in S \cap DOMAIN ms}
    BY <1>1, <2>2, GroupBuilt
  <2>4. IsGroup(own) /\ Range(own.members) = {cross[i] : i \in DOMAIN cross \cap DOMAIN cross}
    BY <1>6, <2>2, <2>3
  <2> QED BY <2>1, <2>4 DEF Range
<1>11. AreGroups(last) /\ TextsOf(cross) \subseteq InGroups(last)
  <2>1. CASE cross = <<>>
    BY <1>7, <2>1, EmptyList DEF AreGroups, TextsOf
  <2>2. CASE cross # <<>>
    <3>1. IsList(<<own>>) /\ Range(<<own>>) = {own}
      BY OneList
    <3>2. AreGroups(<<own>>)
      BY <1>10, <3>1, GroupsIn
    <3>3. TextsOf(own.members) = TextsOf(cross)
      BY <1>10 DEF TextsOf
    <3> QED BY <1>7, <2>2, <3>1, <3>2, <3>3 DEF InGroups
  <2> QED BY <2>1, <2>2
<1>12. AreGroups(groups') /\ InGroups(groups') = InGroups(stays) \cup InGroups(last)
  <2>1. AreGroups(stays \o last) /\ Range(stays \o last) = Range(stays) \cup Range(last)
    BY <1>9, <1>11, GroupsJoined
  <2> QED BY <1>8, <2>1 DEF InGroups
<1>13. ASSUME NEW q \in Range(discovery) PROVE q.text \in notResearched' \cup InGroups(groups')
  <2>1. CASE q \in Range(rs)
    BY <1>8, <1>9, <1>12, <2>1
  <2>2. CASE q \in Range(xs)
    <3>1. q.text \in TextsOf(cross) \cup notResearched
      BY <1>1, <1>3, <2>2 DEF TextsOf
    <3> QED BY <1>8, <1>11, <1>12, <3>1
  <2> QED BY <1>4, <2>1, <2>2
<1>14. AllPlaced'
  BY <1>2, <1>13 DEF AllPlaced, TextsOf
<1>15. GroupLists'
  BY <1>1, <1>2, <1>12 DEF GroupLists
<1> QED BY <1>2, <1>14, <1>15 DEF GroupsInv, WinnersRanked, CrossPlaced, EveryQuestionGrouped, DiscoveryAccounted

LEMMA ChecksCoverage == GroupsInv /\ EnforceGroupCoverage => GroupsInv'
<1> SUFFICES ASSUME GroupsInv, EnforceGroupCoverage PROVE GroupsInv'
  OBVIOUS
<1>1. /\ gphase = "ridden" /\ given \in Handovers /\ AreQuestions(final) /\ AreQuestions(discovery)
      /\ AreQuestions(cross) /\ AreGroups(groups)
      /\ TextsOf(discovery) \subseteq notResearched \cup InGroups(groups)
  BY DEF GroupsInv, GroupLists, AllPlaced, EnforceGroupCoverage, Working
<1>2. gphase' = "grouping_done" /\ UNCHANGED <<given, discovery, cross>>
  BY DEF EnforceGroupCoverage
<1>3. PICK fix : fix = RepairCoverage(groups, final)
  OBVIOUS
<1>4. /\ AreQuestions(fix.winners) /\ AreGroups(fix.groups)
      /\ \A l \in Clients : Served(fix.groups, l)
      /\ InGroups(groups) \subseteq fix.shed \cup InGroups(fix.groups)
  BY <1>1, <1>3, HandoversAre, Repaired DEF HandedQuestions
<1>5. PICK silent : silent = notResearched \cup (fix.shed \cap TextsOf(discovery))
  OBVIOUS
<1>6. PICK told : told = Those(discovery, {k \in DOMAIN discovery : discovery[k].text \notin silent})
  OBVIOUS
<1>7. PICK base : base = Greater(1, Len(fix.winners))
  OBVIOUS
<1>8. final' = fix.winners /\ groups' = Stamped(fix.groups, told, TRUE, base) /\ notResearched' = silent
  BY <1>3, <1>5, <1>6, <1>7 DEF EnforceGroupCoverage, StampDiscoveryRanks
<1>9. base \in Nat
  BY <1>4, <1>7, ListIs DEF AreQuestions, Greater
<1>10. IsList(told)
  <2> DEFINE S == {k \in DOMAIN discovery : discovery[k].text \notin silent}
  <2>1. S \in SUBSET DOMAIN discovery
    OBVIOUS
  <2> HIDE DEF S
  <2>2. IsList(Those(discovery, S))
    BY <1>1, <2>1, ThoseAre DEF AreQuestions
  <2> QED BY <1>6, <2>2 DEF S
<1>11. /\ AreGroups(groups') /\ \A l \in Clients : Served(groups', l)
       /\ InGroups(fix.groups) \subseteq InGroups(groups')
  BY <1>4, <1>8, <1>9, <1>10, StampedKeeps, StampedServes
<1>12. EveryQuestionGrouped'
  BY <1>11 DEF EveryQuestionGrouped, Served
<1>13. TextsOf(discovery) \subseteq silent \cup InGroups(groups')
  BY <1>1, <1>4, <1>5, <1>11
<1>14. DiscoveryAccounted'
  BY <1>2, <1>8, <1>13 DEF DiscoveryAccounted, InGroups
<1>15. GroupLists'
  BY <1>1, <1>2, <1>4, <1>8, <1>11 DEF GroupLists, Working
<1> QED BY <1>2, <1>12, <1>14, <1>15 DEF GroupsInv, WinnersRanked, CrossPlaced, AllPlaced

LEMMA CrashesToFallback == GroupsInv /\ GroupingCrash => GroupsInv'
<1> SUFFICES ASSUME GroupsInv, GroupingCrash PROVE GroupsInv'
  OBVIOUS
<1>1. /\ gphase' = "crashed" /\ final' = FallbackWinners /\ discovery' = <<>> /\ cross' = <<>>
      /\ groups' = [k \in DOMAIN ClientSeq |-> BuildGroup({k}, FallbackWinners, "mandate")]
  BY DEF GroupingCrash
<1>2. AreQuestions(final') /\ AreGroups(groups') /\ \A l \in Clients : Served(groups', l)
  BY <1>1, FallbackServes
<1>3. AreQuestions(discovery') /\ AreQuestions(cross')
  BY <1>1, EmptyList DEF AreQuestions
<1>4. GroupLists'
  BY <1>1, <1>2, <1>3 DEF GroupLists, Working
<1>5. EveryQuestionGrouped'
  BY <1>2 DEF EveryQuestionGrouped, Served
<1> QED BY <1>1, <1>4, <1>5 DEF GroupsInv, WinnersRanked, CrossPlaced, AllPlaced, DiscoveryAccounted

LEMMA GroupsStep == GroupsInv /\ [GNext]_gvars => GroupsInv'
<1> SUFFICES ASSUME GroupsInv, [GNext]_gvars PROVE GroupsInv'
  OBVIOUS
<1>1. CASE UNCHANGED gvars
  BY <1>1 DEF GroupsInv, GroupLists, WinnersRanked, CrossPlaced, AllPlaced, EveryQuestionGrouped, DiscoveryAccounted,
     gvars, PartitionDiscovery
<1> QED BY <1>1, EvolvesGroups, GuardsScope, AllocatesDiscovery, GroupsTheWinners, AttachesRiders, ChecksCoverage,
           CrashesToFallback DEF GNext

(* Whatever the grouping model answers, whatever is shed and wherever stage B *)
(* crashes, every client question ends in a group of the client's bracket     *)
(* (enforce_group_coverage, workshop_rank.py).                                *)
THEOREM EveryQuestionGroupedHolds == GSpec => []EveryQuestionGrouped
<1>1. GroupsInv => EveryQuestionGrouped
  BY DEF GroupsInv
<1> QED BY <1>1, GroupsStart, GroupsStep, PTL DEF GSpec

(* Every allocated discovery question is in a group or on the list of what is *)
(* not researched (attach_riders, stage_b).                                   *)
THEOREM DiscoveryAccountedHolds == GSpec => []DiscoveryAccounted
<1>1. GroupsInv => DiscoveryAccounted
  BY DEF GroupsInv
<1> QED BY <1>1, GroupsStart, GroupsStep, PTL DEF GSpec
=============================================================================
