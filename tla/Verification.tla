---------------------------- MODULE Verification ------------------------------
(***************************************************************************)
(* From distilled claims to what may be written (pipeline.py _run_staged,  *)
(* the stages merge, gate, verify, adjudicate, coverage and conflict, with *)
(* grouping.py, gates.py, group_skeptic.py, adjudicate.py, coverage_gate   *)
(* .py and steps.scrub_research).  Claims are 1..N in distilled order;     *)
(* models and providers answer anything, crash or time out.                *)
(***************************************************************************)
EXTENDS Integers, FiniteSets, Sequences, FiniteSetsExt, SequencesExt

CONSTANTS
    N,               \* claims
    HighStakes,      \* claims whose facet is high-stakes (_propagate_stakes)
    FoundBy,         \* claim -> the providers that stated it
    SentenceOf,      \* claim -> the sentence of the reports that holds its evidence, or "none"
    ClusterBatch,    \* _CLUSTER_BATCH
    SkepticConcurrency,     \* _SKEPTIC_CONCURRENCY
    PerClaim,        \* _PER_CLAIM_SKEPTICS
    MaxReentry       \* coverage_gate.MAX_REENTRY

VARIABLES
    stage,      \* merge, gate, verify, adjudicate, coverage, settle, conflict, scrub, done, cancelled
    byGroup,    \* _GROUP_VERIFY
    queue,      \* the units still to verify, each a set of claims
    strict,     \* claim -> gate.strict
    verifyRan,  \* verify_ran
    verdicts,   \* claim -> what its skeptics said
    exceeded,   \* budget_exceeded
    reentries,  \* reentry_count
    booked,     \* unchecked_ids
    funnel,     \* verification_funnel: checked, should_have_been_checked, checked_incidentally
    dropped,    \* what adjudication drops
    losers,     \* what the conflict pass drops
    prose       \* the sentences of cleaned_reports

vvars == <<stage, byGroup, queue, strict, verifyRan, verdicts, exceeded, reentries, booked,
           funnel, dropped, losers, prose>>

Claim == 1..N
Silent == [said |-> 0, refuted |-> 0, sourced |-> FALSE]
Sentence == {SentenceOf[c] : c \in Claim} \ {"none"}

---------------------------------------------------------------------------
(* merge: entity tags, then one clustering call per chunk of an entity's      *)
(* claims.  An untagged claim, or one the call did not place, stays alone.    *)
Chunk(tagged, c) == Cardinality({d \in tagged : d < c}) \div ClusterBatch
KeyOf(tagged, id, c) ==
    IF c \notin tagged \/ id[c] < 0 THEN <<"singleton", c, 0>> ELSE <<"entity", Chunk(tagged, c), id[c]>>
Assemble(keys) == {{c \in Claim : keys[c] = k} : k \in {keys[c] : c \in Claim}}
Singletons == {{c} : c \in Claim}

(* A failed or unreadable call tags nothing, and places nothing.              *)
Tags == SUBSET Claim
ClusterIds == [Claim -> -1..1]
Partitions == {Assemble([c \in Claim |-> KeyOf(tagged, id, c)]) : tagged \in Tags, id \in ClusterIds}

(* The order of work: what fewest providers found comes first.                *)
Corroboration(u) == Cardinality(UNION {FoundBy[c] : c \in u})
Before(u, v) == \/ Corroboration(u) < Corroboration(v)
                \/ Corroboration(u) = Corroboration(v) /\ Min(u) < Min(v)
CorroborationOrder(us) == SetToSortSeq(us, Before)
ClaimOrder(us) == SetToSortSeq(us, LAMBDA u, v : Min(u) < Min(v))
Selected(u, gate) == \E c \in u : gate[c] = "VERIFY"

Merge ==
    /\ stage = "merge"
    /\ \E us \in IF byGroup THEN Partitions ELSE {Singletons} : queue' = ClaimOrder(us)
    /\ stage' = "gate"
    /\ UNCHANGED <<byGroup, strict, verifyRan, verdicts, exceeded, reentries, booked, funnel, dropped, losers, prose>>

---------------------------------------------------------------------------
(* gate: materiality, then stability of what was kept.  A missing, invalid    *)
(* or self-contradictory answer keeps the claim and selects it (gate_error).  *)
Materiality(answer) == IF answer = "DROP" THEN "DROP" ELSE "KEEP"
Strict(answer, second) ==
    IF Materiality(answer) = "DROP" THEN "none" ELSE IF second = "SKIP_STABLE" THEN "SKIP_STABLE" ELSE "VERIFY"
GateError(answer, second) == answer = "missing" \/ (Materiality(answer) = "KEEP" /\ second = "missing")

Gate ==
    /\ stage = "gate"
    /\ \E answer \in [Claim -> {"KEEP", "DROP", "missing"}], second \in [Claim -> {"VERIFY", "SKIP_STABLE", "missing"}] :
          LET gate == [c \in Claim |-> Strict(answer[c], second[c])]
              us == {u \in ToSet(queue) : Selected(u, gate)}
          IN  /\ strict' = gate
              /\ verifyRan' = (\E c \in Claim : ~GateError(answer[c], second[c]))
              /\ queue' = IF byGroup THEN CorroborationOrder(us) ELSE ClaimOrder(us)
    /\ stage' = "verify"
    /\ UNCHANGED <<byGroup, verdicts, exceeded, reentries, booked, funnel, dropped, losers, prose>>

---------------------------------------------------------------------------
(* One skeptic session over a unit: it crashes, or says something of every    *)
(* claim, all with the session's own sources.                                 *)
Crashed == [ok |-> FALSE, refuted |-> {}, sourced |-> FALSE]
Spoken(u) == [ok : {TRUE}, refuted : SUBSET u, sourced : BOOLEAN]
GroupSession(u) == {Crashed} \cup Spoken(u)
SoloSession(u) == {Crashed} \cup Spoken(u)
SkepticSession(u) == IF byGroup THEN GroupSession(u) ELSE SoloSession(u)
Heard(v, u, s) ==
    [c \in Claim |->
        IF ~s.ok \/ c \notin u THEN v[c]
        ELSE [said |-> v[c].said + 1,
              refuted |-> v[c].refuted + IF c \in s.refuted THEN 1 ELSE 0,
              sourced |-> v[c].sourced \/ (c \in s.refuted /\ s.sourced)]]
SessionsOf(u) == IF byGroup THEN 1 ELSE PerClaim
HeardAll(v, us, ss) == FoldLeft(LAMBDA w, i : FoldLeft(LAMBDA x, s : Heard(x, us[i], s), w, ss[i]),
                                v, [i \in DOMAIN us |-> i])

ToBook(cs) == {c \in cs : strict[c] = "VERIFY"}
BatchSize == LET full == {n \in 1..Len(queue) : n * SessionsOf({}) >= SkepticConcurrency}
             IN  IF full = {} THEN Len(queue) ELSE Min(full)
FullBatch == BatchSize * SessionsOf({}) >= SkepticConcurrency

(* _flush_groups, _flush_batch: a crashed group session books its claims as   *)
(* unchecked; a crashed single session books nothing.                         *)
(* After a full batch the run may prove cancelled, or the cap reached; a      *)
(* failing cost query counts as "not reached".  The last, partial batch is    *)
(* flushed without either question.                                           *)
VerifyBatch ==
    /\ stage = "verify" /\ queue # <<>> /\ ~exceeded
    /\ LET us == SubSeq(queue, 1, BatchSize)
           rest == SubSeq(queue, BatchSize + 1, Len(queue))
       IN  \E ss \in {f \in [1..BatchSize -> UNION {[1..SessionsOf({}) -> SkepticSession(u)] : u \in ToSet(us)}] :
                         \A i \in 1..BatchSize : f[i] \in [1..SessionsOf({}) -> SkepticSession(us[i])]} :
              /\ verdicts' = HeardAll(verdicts, us, ss)
              /\ booked' = IF byGroup
                           THEN booked \cup UNION {ToBook(us[i]) : i \in {j \in 1..BatchSize : ~ss[j][1].ok}}
                           ELSE booked
              /\ queue' = rest
    /\ IF FullBatch
       THEN \/ stage' = "cancelled" /\ UNCHANGED exceeded
            \/ stage' = "verify" /\ exceeded' \in BOOLEAN
       ELSE UNCHANGED <<stage, exceeded>>
    /\ UNCHANGED <<byGroup, strict, verifyRan, reentries, funnel, dropped, losers, prose>>

(* Over the cap: the rest of the queue is booked as unchecked, not run.       *)
SkipTheRest ==
    /\ stage = "verify" /\ queue # <<>> /\ exceeded
    /\ booked' = booked \cup ToBook(UNION ToSet(queue))
    /\ queue' = <<>>
    /\ UNCHANGED <<stage, byGroup, strict, verifyRan, verdicts, exceeded, reentries, funnel, dropped, losers, prose>>

---------------------------------------------------------------------------
(* adjudicate: a claim falls to a majority of refuters, one of them sourced.  *)
Refuted(v) == v.said > 0 /\ 2 * v.refuted > v.said /\ v.sourced
AdjudicateAll(v) == {c \in Claim : Refuted(v[c])}

Adjudicate ==
    /\ stage = "verify" /\ queue = <<>>
    /\ dropped' = AdjudicateAll(verdicts)
    /\ stage' = "coverage"
    /\ UNCHANGED <<byGroup, queue, strict, verifyRan, verdicts, exceeded, reentries, booked, funnel, losers, prose>>

(* coverage: the selected high-stakes claims nobody spoke about.              *)
UncoveredClaims == {c \in HighStakes : strict[c] = "VERIFY" /\ verdicts[c].said = 0}

(* _coverage_reentry_pass: one session per uncovered claim, or none when the  *)
(* breaker of the skeptics is open; what still has no verdict is booked.      *)
StandingVerdict(v) == dropped
AfterReentry(v) == AdjudicateAll(v)
Reenter ==
    /\ stage = "coverage" /\ UncoveredClaims # {} /\ reentries < MaxReentry /\ ~exceeded
    /\ \E s \in [UncoveredClaims -> SkepticSession(UncoveredClaims)] :
          LET v == [c \in Claim |-> IF c \in UncoveredClaims THEN Heard(verdicts, {c}, s[c])[c] ELSE verdicts[c]]
          IN  /\ verdicts' = v
              /\ booked' = booked \cup {c \in UncoveredClaims : v[c].said = 0}
              /\ dropped' = AfterReentry(v)
    /\ reentries' = reentries + 1
    /\ UNCHANGED <<stage, byGroup, queue, strict, verifyRan, exceeded, funnel, losers, prose>>

ReentryBlocked ==
    /\ stage = "coverage" /\ UncoveredClaims # {} /\ reentries < MaxReentry /\ ~exceeded
    /\ booked' = booked \cup UncoveredClaims
    /\ reentries' = MaxReentry
    /\ UNCHANGED <<stage, byGroup, queue, strict, verifyRan, verdicts, exceeded, funnel, dropped, losers, prose>>

---------------------------------------------------------------------------
(* The counts a reader is shown are of claims observed without a verdict,     *)
(* whatever the loops booked, and of claims a cluster happened to cover.      *)
NoFunnel == [checked |-> 0, unchecked |-> 0, incidental |-> 0]
Observed == {c \in Claim : strict[c] = "VERIFY" /\ verdicts[c].said = 0}

Incidental == {c \in Claim : strict[c] # "VERIFY" /\ verdicts[c].said > 0}
BuildFunnel(missed, extra) ==
    LET selected == Cardinality(ToBook(Claim))
    IN  [checked |-> selected - Min({missed, selected}), unchecked |-> Min({missed, selected}),
         incidental |-> Min({extra, N - selected})]

Settle ==
    /\ stage = "coverage"
    /\ UncoveredClaims = {} \/ reentries >= MaxReentry \/ exceeded
    /\ funnel' = BuildFunnel(Cardinality(Observed), Cardinality(Incidental))
    /\ stage' = "conflict"
    /\ UNCHANGED <<byGroup, queue, strict, verifyRan, verdicts, exceeded, reentries, booked, dropped, losers, prose>>

(* conflict_detector: each clean conflict names a loser among the survivors,  *)
(* or is contested; every named loser falls, whatever became of the winner.   *)
Survivors == Claim \ (dropped \cup losers)
Conflict ==
    /\ stage = "conflict"
    /\ IF Cardinality(Survivors) >= 2 THEN losers' \in SUBSET Survivors ELSE UNCHANGED losers
    /\ stage' = "scrub"
    /\ UNCHANGED <<byGroup, queue, strict, verifyRan, verdicts, exceeded, reentries, booked, funnel, dropped, prose>>

(* scrub_research: the spans the model names go, and then every sentence that *)
(* still holds the evidence of a removed claim.  The run may be cancelled     *)
(* first.                                                                     *)
Purge(text, claims) == text \ {SentenceOf[c] : c \in claims}
FactcheckDropped == dropped
Removed == dropped \cup losers
Scrub ==
    /\ stage = "scrub"
    /\ \/ stage' = "cancelled" /\ UNCHANGED prose
       \/ /\ stage' = "done"
          /\ IF Removed = {} THEN UNCHANGED prose
             ELSE \E spans \in SUBSET prose : prose' = Purge(prose \ spans, Removed)
    /\ UNCHANGED <<byGroup, queue, strict, verifyRan, verdicts, exceeded, reentries, booked, funnel, dropped, losers>>

VInit ==
    /\ stage = "merge" /\ byGroup \in BOOLEAN /\ queue = <<>>
    /\ strict = [c \in Claim |-> "none"] /\ verifyRan = TRUE
    /\ verdicts = [c \in Claim |-> Silent] /\ exceeded = FALSE /\ reentries = 0
    /\ booked = {} /\ funnel = NoFunnel /\ dropped = {} /\ losers = {} /\ prose = Sentence

VNext == \/ Merge \/ Gate \/ VerifyBatch \/ SkipTheRest \/ Adjudicate \/ Reenter \/ ReentryBlocked
         \/ Settle \/ Conflict \/ Scrub
VSpec == VInit /\ [][VNext]_vvars

---------------------------------------------------------------------------
(* Once the stage is settled, what was dropped as refuted is what the         *)
(* verdicts say, those of the coverage re-entry included: no survivor was     *)
(* refuted by a later session, no claim fell to a verdict it did not get      *)
(* (pipeline.py 3540, 3681-3684).                                             *)
VerdictsDecide ==
    stage \in {"conflict", "scrub", "done"} =>
        dropped = {c \in Claim : verdicts[c].said > 0 /\ 2 * verdicts[c].refuted > verdicts[c].said /\ verdicts[c].sourced}

(* The reports handed to the writer hold no evidence of a claim that fell,    *)
(* to its skeptics or to a contradiction (pipeline.py 3894, 4036).            *)
DroppedLeavesNoTrace ==
    stage = "done" => prose \cap {SentenceOf[c] : c \in dropped \cup losers} = {}
=============================================================================
