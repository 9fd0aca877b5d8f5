-------------------------- MODULE WorkshopIntake --------------------------
(***************************************************************************)
(* Stage A of the question workshop (workshop.py): the questions are       *)
(* normalised, each is oriented by a grounded session of its own, split    *)
(* into aspects and deepened into candidates, and near-duplicates across   *)
(* questions become one candidate that serves several of them.  Nothing    *)
(* here may fail the run: what goes wrong falls back to the question       *)
(* verbatim.                                                               *)
(***************************************************************************)
EXTENDS Integers, FiniteSets, Sequences, SequencesExt

CONSTANTS
    Briefs,            \* what may come in: [asked |-> labels given, detected |-> found in the brief]
    LabelWith(_, _),   \* a label with its suffix, 1 for none
    RowAnswers,        \* what a generation may answer: sequences of the aspect a row claims, 0 for none
    MaxOriented,       \* _ORIENT_MAX_QUESTIONS
    OrientSlots,       \* _WORKSHOP_CONCURRENCY
    MaxTurns, MaxPauses,              \* _ORIENT_MAX_TURNS and the pauses a session may take
    MaxAspects,        \* _ASPECTS_PER_QUESTION_MAX
    MaxCandidates,     \* _MAX_CANDIDATES
    ClusterBlock, CandidateBatch      \* _CLUSTER_MAX_BLOCK, _CLUSTER_BATCH

VARIABLES
    iphase,        \* "start" | "orient" | "decompose" | "generate" | "cluster" | "intake_done"
    questions,     \* the labels, in order
    oriented,      \* label -> [state, turns, pauses]
    conflicts,     \* sourced or not: [question, sourced]
    aspects,       \* label -> number of aspects, 0 when the split failed
    candidates,    \* [index, parents, source], in index order
    intakeFallback

ivars == <<iphase, questions, oriented, conflicts, aspects, candidates, intakeFallback>>

LabelSet == Range(questions)

---------------------------------------------------------------------------
(* Without questions the ones the brief spells out are used, and without      *)
(* those the brief is the only question.  A label already given gets the      *)
(* first suffix that makes it new.                                            *)
Entries(in) ==
    IF in.asked # <<>> THEN in.asked ELSE IF in.detected # <<>> THEN in.detected ELSE <<"brief">>

ASSUME IntakeAssumption ==
    /\ MaxCandidates \in Nat /\ MaxAspects \in Nat
    /\ \A answer \in RowAnswers : answer \in Seq(Range(answer))
    /\ \A in \in Briefs : LET given == Entries(in) IN
          /\ given \in Seq(Range(given))
          /\ \A b \in Range(given) : \A m, n \in 1..Len(given) : LabelWith(b, m) = LabelWith(b, n) => m = n

Suffixed(base, out) ==
    LabelWith(base, CHOOSE n \in 1..(Len(out) + 1) :
        LabelWith(base, n) \notin Range(out) /\ \A m \in 1..(n - 1) : LabelWith(base, m) \in Range(out))

LabelsAsGiven(in) ==                              \* variant: two questions may share a label
    [k \in DOMAIN in.asked |-> LabelWith(in.asked[k], 1)]

LabelsUpTo(given) ==
    LET out[k \in 0..Len(given)] == IF k = 0 THEN <<>> ELSE Append(out[k - 1], Suffixed(given[k], out[k - 1]))
    IN  out
NormaliseQuestions(in) == LabelsUpTo(Entries(in))[Len(Entries(in))]

NotOriented == [state |-> "waiting", turns |-> 0, pauses |-> 0]

Normalise ==
    /\ iphase = "start"
    /\ \E in \in Briefs : questions' = NormaliseQuestions(in)
    /\ oriented' = [l \in {questions'[k] : k \in {n \in DOMAIN questions' : n <= MaxOriented}} |-> NotOriented]
    /\ iphase' = "orient"
    /\ UNCHANGED <<conflicts, aspects, candidates, intakeFallback>>

---------------------------------------------------------------------------
(* One orientation session: a paused turn is continued while pauses are left, *)
(* the last turn forces the answer, and a session that fails leaves nothing.  *)
(* A session that ended has no counts any more.                               *)
Running == {l \in DOMAIN oriented : oriented[l].state = "running"}
SessionEnded(how) == [NotOriented EXCEPT !.state = how]

StartOrientation(l) ==
    /\ iphase = "orient" /\ oriented[l].state = "waiting"
    /\ Cardinality(Running) < OrientSlots
    /\ oriented' = [oriented EXCEPT ![l].state = "running"]
    /\ UNCHANGED <<iphase, questions, conflicts, aspects, candidates, intakeFallback>>

(* An answer's conflicts need an assumption and what the world says instead;  *)
(* one whose source is no web address is kept without a source.               *)
ParseOrientation(l) == SUBSET [question : {l}, sourced : BOOLEAN]

OneOrientation(l) ==
    /\ iphase = "orient" /\ oriented[l].state = "running"
    /\ \/ /\ oriented[l].pauses < MaxPauses
          /\ oriented' = [oriented EXCEPT ![l].pauses = @ + 1]
          /\ UNCHANGED conflicts
       \/ /\ oriented[l].turns + 1 < MaxTurns              \* a tool call that is not the answer
          /\ oriented' = [oriented EXCEPT ![l].turns = @ + 1]
          /\ UNCHANGED conflicts
       \/ \E found \in ParseOrientation(l) :
             /\ conflicts' = conflicts \cup found
             /\ oriented' = [oriented EXCEPT ![l] = SessionEnded("done")]
       \/ /\ oriented' = [oriented EXCEPT ![l] = SessionEnded("failed")]   \* no answer, an error, an open circuit
          /\ UNCHANGED conflicts
    /\ UNCHANGED <<iphase, questions, aspects, candidates, intakeFallback>>

RunOrientation ==                                 \* every session has ended
    /\ iphase = "orient"
    /\ \A l \in DOMAIN oriented : oriented[l].state \in {"done", "failed"}
    /\ iphase' = "decompose"
    /\ UNCHANGED <<questions, oriented, conflicts, aspects, candidates, intakeFallback>>

---------------------------------------------------------------------------
ParseAspects == 0..MaxAspects                     \* distinct numbered lines; none when the call failed

DecomposeQuestions ==
    /\ iphase = "decompose"
    /\ aspects' \in [LabelSet -> ParseAspects]
    /\ iphase' = "generate"
    /\ UNCHANGED <<questions, oriented, conflicts, candidates, intakeFallback>>

(* A row names the aspect it deepens, or none; a claim out of range is none.  *)
ParseRows(answer, l) == {answer[k] : k \in DOMAIN answer} \cap 1..aspects[l]
Made(l, source, n) == [k \in 1..n |-> [parents |-> {l}, source |-> source]]

(* The rows of an answer, then one candidate for each aspect no row deepens;  *)
(* no rows at all is the question verbatim.                                   *)
RepairUncoveredAspects(answer, l) == aspects[l] - Cardinality(ParseRows(answer, l))
CandidatesOf(answer, l) ==
    IF answer = <<>> THEN Made(l, "verbatim", 1)
    ELSE Made(l, "model", Len(answer)) \o Made(l, "aspect_repair", RepairUncoveredAspects(answer, l))

MadeUpTo(answers) ==
    LET cs[k \in 0..Len(questions)] ==
            IF k = 0 THEN <<>> ELSE cs[k - 1] \o CandidatesOf(answers[questions[k]], questions[k])
    IN  cs

(* Over the ceiling the candidates are kept in rounds, one of each question   *)
(* in turn; the ceiling is never below the number of questions.               *)
DepthOf(cs, k) == Cardinality({j \in 1..k : cs[j].parents = cs[k].parents})
TrimRoundRobin(cs, limit) ==
    LET Earlier(j, k) == DepthOf(cs, j) < DepthOf(cs, k) \/ (DepthOf(cs, j) = DepthOf(cs, k) /\ j < k)
        kept == {k \in DOMAIN cs : Cardinality({j \in DOMAIN cs : Earlier(j, k)}) < limit}
    IN  [n \in 1..Cardinality(kept) |-> cs[CHOOSE k \in kept : Cardinality({j \in kept : j < k}) = n - 1]]

CandidateCap == IF MaxCandidates < Cardinality(LabelSet) THEN Cardinality(LabelSet) ELSE MaxCandidates

GenerateCandidates ==
    /\ iphase = "generate"
    /\ \E answers \in [LabelSet -> RowAnswers] :
          LET kept == TrimRoundRobin(MadeUpTo(answers)[Len(questions)], CandidateCap)
          IN  candidates' = [k \in DOMAIN kept |-> [index |-> k - 1, parents |-> kept[k].parents,
                                                    source |-> kept[k].source]]
    /\ iphase' = "cluster"
    /\ UNCHANGED <<questions, oriented, conflicts, aspects, intakeFallback>>

---------------------------------------------------------------------------
(* Near-duplicates: the clusterer numbers the candidates of each chunk, -1    *)
(* for one it did not place; the first of a cluster stays, for all their      *)
(* parents.  A clustering that fails leaves every candidate alone.            *)
ChunkOf(k) == IF Len(candidates) > ClusterBlock THEN (k - 1) \div CandidateBatch ELSE 0
ClusterKey(cids, k) == IF cids[k] < 0 THEN <<-1, k>> ELSE <<ChunkOf(k), cids[k]>>
Representatives(cids) ==
    LET Mates(k) == {j \in DOMAIN candidates : ClusterKey(cids, j) = ClusterKey(cids, k)}
        first    == {k \in DOMAIN candidates : \A j \in Mates(k) : k <= j}
    IN  [n \in 1..Cardinality(first) |->
            LET k == CHOOSE i \in first : Cardinality({j \in first : j < i}) = n - 1
            IN  [candidates[k] EXCEPT !.parents = UNION {candidates[j].parents : j \in Mates(k)}]]

AllVerbatim(cs) == \A k \in DOMAIN cs : cs[k].source = "verbatim"

ClusterStageA ==
    /\ iphase = "cluster"
    /\ \E cids \in [DOMAIN candidates -> {-1, 0, 1}] : candidates' = Representatives(cids)
    /\ intakeFallback' = AllVerbatim(candidates')
    /\ iphase' = "intake_done"
    /\ UNCHANGED <<questions, oriented, conflicts, aspects>>

(* A crash anywhere: every question verbatim, no conflicts.                   *)
VerbatimCandidates ==
    [k \in DOMAIN questions |-> [index |-> k - 1, parents |-> {questions[k]}, source |-> "verbatim"]]
StageACrash ==
    /\ iphase \notin {"start", "intake_done"}
    /\ candidates' = VerbatimCandidates /\ conflicts' = {}
    /\ intakeFallback' = TRUE /\ iphase' = "intake_done"
    /\ UNCHANGED <<questions, oriented, aspects>>

IInit ==
    /\ iphase = "start" /\ questions = <<>> /\ oriented = [l \in {} |-> NotOriented] /\ conflicts = {}
    /\ aspects = [l \in {} |-> 0] /\ candidates = <<>> /\ intakeFallback = FALSE

INext ==
    \/ Normalise \/ RunOrientation \/ DecomposeQuestions \/ GenerateCandidates \/ ClusterStageA
    \/ StageACrash
    \/ \E l \in DOMAIN oriented : StartOrientation(l) \/ OneOrientation(l)

ISpec == IInit /\ [][INext]_ivars

---------------------------------------------------------------------------

(* Whatever the model answers, however the ceiling trims and the clustering   *)
(* merges, and wherever the stage crashes, every question the caller asked    *)
(* leaves the stage as a question of its own label that a candidate serves.   *)
EveryQuestionHandedOver ==
    iphase = "intake_done" =>
        /\ Cardinality(LabelSet) = Len(questions)
        /\ \A l \in LabelSet : \E k \in DOMAIN candidates : l \in candidates[k].parents
=============================================================================
