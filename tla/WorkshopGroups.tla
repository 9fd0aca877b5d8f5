-------------------------- MODULE WorkshopGroups --------------------------
(***************************************************************************)
(* What stage B of the workshop does with its winners: the last rewording, *)
(* the scope guard, the discovery questions the evidence raised, the       *)
(* research groups, the riders and the coverage check (workshop_rank.py,   *)
(* discovery_bracket.py, question_grouping.py).  A group is one bundle of  *)
(* paid research calls, so their number is the run's spend; a client       *)
(* question without a group is not researched at all.                      *)
(***************************************************************************)
EXTENDS Integers, FiniteSets, Sequences, SequencesExt

CONSTANTS
    ClientSeq,        \* the client's questions, in order
    Discovery,        \* DISCOVERY_PARENT
    Reworded,         \* a text the rewording may return, for several winners alike
    Handovers,        \* what the loop may hand over: [winners, ranked, conflicts, angles]
    RawAnswers,       \* what the grouping model may answer: sequences of lists of numbers
    MaxGroups, MaxSize, MaxRiders,     \* _D6_MAX_GROUPS, _D6_MAX_GROUP_SIZE, riders per group
    DiscoverySlots, ParentCap          \* _DISCOVERY_MAX_SLOTS, _DISCOVERY_PER_PARENT_CAP

(* A question, the client's or one the evidence raised.  A hand-over is lists *)
(* of what its names say; the loop ranks the client's questions only.         *)
IsQuestion(m) == m \in [text : {m.text}, idx : {m.idx}, parents : {m.parents}, rank : Nat, rider : BOOLEAN]
ASSUME GroupsAssumption ==
    /\ ClientSeq \in Seq(Range(ClientSeq))
    /\ \A raw \in RawAnswers : raw \in Seq(Range(raw))
    /\ \A h \in Handovers :
          /\ h.winners \in Seq(Range(h.winners)) /\ \A m \in Range(h.winners) : IsQuestion(m)
          /\ h.ranked \in Seq(Range(h.ranked)) /\ \A m \in Range(h.ranked) : IsQuestion(m) /\ ~m.rider
          /\ h.conflicts \in Seq(Range(h.conflicts)) /\ h.angles \in Seq(Range(h.angles))
    /\ MaxGroups \in Nat /\ MaxSize \in Nat

VARIABLES
    gphase,         \* "start" | "evolved" | "scoped" | "allocated" | "grouped" | "ridden" | "grouping_done"
    given,          \* the hand-over being worked on
    final,          \* winners, best first: [text, idx, parents, rank, rider]
    discovery,      \* allocated discovery questions, same shape
    cross,          \* those that serve no single question, [text |-> , ...]
    groups,         \* [bracket, members]
    notResearched   \* discovery questions the run says it does not research

gvars == <<gphase, given, final, discovery, cross, groups, notResearched>>

Clients == Range(ClientSeq)
Lesser(a, b) == IF a < b THEN a ELSE b
Greater(a, b) == IF a < b THEN b ELSE a
First(S) == CHOOSE m \in S : \A x \in S : m <= x
Ascending(S) == [k \in 1..Cardinality(S) |-> CHOOSE i \in S : Cardinality({j \in S : j < i}) = k - 1]
Those(s, S) == [n \in 1..Cardinality(S) |-> s[Ascending(S)[n]]]     \* what s has at the places S
NoHandover == [winners |-> <<>>, ranked |-> <<>>, conflicts |-> <<>>, angles |-> <<>>]

(* The parents of a question are a list; the first one is the one it owns.    *)
OwnParent(m) == m.parents[1]
Has(m, l) == l \in Range(m.parents)
ParentsIn(S) == UNION {Range(m.parents) : m \in S}
Unserved(labels) == Those(ClientSeq, {k \in DOMAIN ClientSeq : ClientSeq[k] \notin labels})

VerbatimWinner(l) == [text |-> l, idx |-> -1, parents |-> <<l>>, rank |-> 0, rider |-> FALSE]
Rerank(ws) == [k \in DOMAIN ws |-> [ws[k] EXCEPT !.rank = k]]
TextsOf(ws) == {w.text : w \in Range(ws)}
IdxOf(ws) == {w.idx : w \in Range(ws)}
FallbackWinners == [k \in DOMAIN ClientSeq |-> [VerbatimWinner(ClientSeq[k]) EXCEPT !.idx = k - 1, !.rank = k]]

---------------------------------------------------------------------------
(* The winners are reworded one by one; a line that cannot be used, and every *)
(* line of a call that failed, leaves its winner's text as it is.             *)
UsableLines(ws) == SUBSET DOMAIN ws
EvolveWinners ==
    /\ gphase = "start"
    /\ \E h \in Handovers : \E S \in UsableLines(h.winners) :
          /\ given' = h
          /\ final' = [k \in DOMAIN h.winners |-> IF k \in S THEN [h.winners[k] EXCEPT !.text = Reworded]
                                                 ELSE h.winners[k]]
    /\ gphase' = "evolved"
    /\ UNCHANGED <<discovery, cross, groups, notResearched>>

---------------------------------------------------------------------------
(* Every client question has a winner of its own: the best-ranked candidate   *)
(* that serves it and is not taken, else the question verbatim, put in front. *)
BestFor(l, ranked, taken) ==
    LET open == {k \in DOMAIN ranked : Has(ranked[k], l) /\ ranked[k].idx \notin taken}
    IN  IF open = {} THEN VerbatimWinner(l) ELSE ranked[First(open)]

Promote(missing, ranked, taken) ==
    LET out[k \in 0..Len(missing)] ==
            IF k = 0 THEN <<>>
            ELSE Append(out[k - 1], BestFor(missing[k], ranked, IdxOf(out[k - 1]) \cup taken))
    IN  out[Len(missing)]

ScopeGuard(winners, ranked) ==
    LET out   == Promote(Unserved(ParentsIn(Range(winners))), ranked, IdxOf(winners)) \o winners
        still == Unserved(ParentsIn(Range(out)))
    IN  Rerank([k \in DOMAIN still |-> VerbatimWinner(still[k])] \o out)

EnforceScopeGuard ==
    /\ gphase = "evolved"
    /\ final' = ScopeGuard(final, given.ranked)
    /\ gphase' = "scoped"
    /\ UNCHANGED <<given, discovery, cross, groups, notResearched>>

---------------------------------------------------------------------------
(* A sourced conflict of the brief with the world becomes a question of the   *)
(* client question it came from, or of discovery; at most ParentCap for each, *)
(* and what is left of the slots goes to the admitted angles.                 *)
CountedFor(qs, p) == Cardinality({k \in DOMAIN qs : OwnParent(qs[k]) = p})
Question(t, p) == [text |-> t, idx |-> -1, parents |-> <<p>>, rank |-> 0, rider |-> TRUE]

ParentOf(c) == IF c.origin \in Clients THEN c.origin ELSE Discovery
TakeConflict(qs, c) ==
    IF \/ Len(qs) >= DiscoverySlots \/ ~c.sourced
       \/ Question(c.text, ParentOf(c)) \in Range(qs)
       \/ CountedFor(qs, ParentOf(c)) >= ParentCap
    THEN qs ELSE Append(qs, Question(c.text, ParentOf(c)))
AllocateDiscovery(conflicts) ==
    LET qs[k \in 0..Len(conflicts)] == IF k = 0 THEN <<>> ELSE TakeConflict(qs[k - 1], conflicts[k])
    IN  qs[Len(conflicts)]

TakeAngle(qs, a) ==
    IF Len(qs) >= DiscoverySlots \/ a.text \in TextsOf(qs) \/ CountedFor(qs, a.parent) >= ParentCap
    THEN qs ELSE Append(qs, Question(a.text, a.parent))
FillRemainingSlots(start, angles) ==
    LET qs[k \in 0..Len(angles)] == IF k = 0 THEN start ELSE TakeAngle(qs[k - 1], angles[k])
    IN  qs[Len(angles)]

IsCross(q) == OwnParent(q) = Discovery
PartitionDiscovery(qs) == [riders |-> Those(qs, {k \in DOMAIN qs : ~IsCross(qs[k])}),
                           cross  |-> Those(qs, {k \in DOMAIN qs : IsCross(qs[k])})]

Allocate ==
    /\ gphase = "scoped"
    /\ LET qs == FillRemainingSlots(AllocateDiscovery(given.conflicts), given.angles)
       IN  discovery' = [k \in DOMAIN qs |-> [qs[k] EXCEPT !.rank = Len(final) + k]]
    /\ gphase' = "allocated"
    /\ UNCHANGED <<given, final, cross, groups, notResearched>>

---------------------------------------------------------------------------
(* Groups are built from lists of positions; members by rank.                 *)
ByRank(S, ms) == [k \in 1..Cardinality(S) |->
    CHOOSE i \in S : Cardinality({j \in S : \/ ms[j].rank < ms[i].rank
                                            \/ (ms[j].rank = ms[i].rank /\ j < i)}) = k - 1]
BuildGroup(S, ms, bracket) ==
    [bracket |-> bracket, members |-> LET by == ByRank(S \cap DOMAIN ms, ms) IN [k \in DOMAIN by |-> ms[by[k]]]]
BuildGroups(assignment) ==
    [k \in DOMAIN assignment |-> BuildGroup(assignment[k], final, "mandate")]

MinRank(S) == First({final[i].rank : i \in S})
OwnParents(S) == {OwnParent(final[i]) : i \in S}

(* One group per client question that has a winner; a winner of an unknown    *)
(* parent goes to the first question.                                         *)
FallbackGroups ==
    LET Home(i) == IF OwnParent(final[i]) \in Clients THEN OwnParent(final[i]) ELSE ClientSeq[1]
        Bucket(l) == {i \in DOMAIN final : Home(i) = l}
        used == Those(ClientSeq, {k \in DOMAIN ClientSeq : Bucket(ClientSeq[k]) # {}})
    IN  [k \in DOMAIN used |-> Bucket(used[k])]

(* The model's lists made a partition: numbers out of range and repeats are   *)
(* dropped, a question no list claims joins the group of its parent's best,   *)
(* else the smallest group.                                                   *)
PlaceOrphan(assignment, orphan) ==
    LET Kin(p) == {i \in assignment[p] : OwnParent(final[i]) = OwnParent(final[orphan])}
        near   == {p \in DOMAIN assignment : Kin(p) # {}}
        small  == {p \in DOMAIN assignment :
                     \A q \in DOMAIN assignment : Cardinality(assignment[p]) <= Cardinality(assignment[q])}
    IN  IF near = {} THEN First(small)
        ELSE CHOOSE p \in near : \A q \in near : \/ MinRank(Kin(p)) < MinRank(Kin(q))
                                                 \/ MinRank(Kin(p)) = MinRank(Kin(q)) /\ p <= q

ClaimedGroups(raw) ==
    LET New(k) == {i \in Range(raw[k]) \cap DOMAIN final : \A j \in 1..(k - 1) : i \notin Range(raw[j])}
        live   == Ascending({k \in DOMAIN raw : New(k) # {}})
    IN  [n \in DOMAIN live |-> New(live[n])]

PlaceAll(claimed, orphans) ==
    LET placed[k \in 0..Len(orphans)] ==
            IF k = 0 THEN claimed
            ELSE [placed[k - 1] EXCEPT ![PlaceOrphan(placed[k - 1], orphans[k])] = @ \cup {orphans[k]}]
    IN  placed[Len(orphans)]

ValidateGroups(raw) ==
    LET claimed == ClaimedGroups(raw)
    IN  IF claimed = <<>> THEN <<>>
        ELSE PlaceAll(claimed, Ascending(DOMAIN final \ UNION Range(claimed)))

(* Clamping: a group of several parents is split, the weakest are merged down *)
(* to the ceiling (same parent first), and an oversized one is halved while   *)
(* there is room.                                                             *)
PartsOf(S) == {{i \in S : OwnParent(final[i]) = p} : p \in OwnParents(S)}
BestPart(S) == CHOOSE P \in PartsOf(S) : \A Q \in PartsOf(S) : MinRank(P) <= MinRank(Q)
ByStrength(R) == [n \in 1..Cardinality(R) |-> CHOOSE P \in R : Cardinality({Q \in R : MinRank(Q) < MinRank(P)}) = n - 1]
SplitByParent(assignment) ==
    LET work[k \in 0..Len(assignment)] ==
            IF k = 0 THEN [j \in DOMAIN assignment |-> BestPart(assignment[j])]
            ELSE work[k - 1] \o ByStrength(PartsOf(assignment[k]) \ {BestPart(assignment[k])})
    IN  work[Len(assignment)]

WeakestFirst(work) ==
    LET Weaker(p, q) == \/ MinRank(work[p]) > MinRank(work[q])
                        \/ MinRank(work[p]) = MinRank(work[q]) /\ p > q
    IN  [n \in DOMAIN work |-> CHOOSE p \in DOMAIN work : Cardinality({q \in DOMAIN work : Weaker(q, p)}) = n - 1]
PairToMerge(work, order) ==
    LET same == {pr \in (DOMAIN work) \X (DOMAIN work) :
                   pr[1] # pr[2] /\ Cardinality(OwnParents(work[order[pr[1]]] \cup work[order[pr[2]]])) = 1}
        pick == CHOOSE pr \in same : \A o \in same : pr[1] < o[1] \/ (pr[1] = o[1] /\ pr[2] <= o[2])
    IN  IF same = {} THEN {order[1], order[2]} ELSE {order[pick[1]], order[pick[2]]}
MergedInto(work, both) ==
    LET keep == CHOOSE p \in both : \A q \in both : p <= q
        drop == CHOOSE p \in both : \A q \in both : q <= p
    IN  [n \in 1..(Len(work) - 1) |-> IF n = keep THEN work[keep] \cup work[drop]
                                      ELSE IF n < drop THEN work[n] ELSE work[n + 1]]
MergeOnce(work) == MergedInto(work, PairToMerge(work, WeakestFirst(work)))
MergeDown(split, ceiling) ==
    LET work[k \in 0..Len(split)] ==
            IF k = 0 THEN split
            ELSE IF Len(work[k - 1]) > ceiling THEN MergeOnce(work[k - 1]) ELSE work[k - 1]
    IN  work[Len(split)]

SplitOversize(work, p, ceiling) ==
    IF p > Len(work) \/ Cardinality(work[p]) <= MaxSize \/ Len(work) >= ceiling THEN work
    ELSE LET by   == ByRank(work[p], final)
             head == {by[k] : k \in 1..MaxSize}
         IN  Append([work EXCEPT ![p] = head], work[p] \ head)
SplitSizes(merged, ceiling) ==
    LET work[p \in 0..Len(final)] == IF p = 0 THEN merged ELSE SplitOversize(work[p - 1], p, ceiling)
    IN  work[Len(final)]

ClampGroups(assignment, ceiling) ==
    ByStrength(Range(SplitSizes(MergeDown(SplitByParent(assignment), ceiling), ceiling)))

(* Discovery's own group takes one of the slots, unless the client's          *)
(* questions need them all: then the cross-cutting questions stand back.      *)
YieldsItsSlot(xs) == xs # <<>> /\ Cardinality(Clients) > MaxGroups - 1
MandateCeiling(xs) == IF xs # <<>> /\ ~YieldsItsSlot(xs) THEN MaxGroups - 1 ELSE MaxGroups

(* Per question (the default), or as the model proposes; a call that fails or *)
(* an answer that cannot be used falls back to one group per question.        *)
GroupWinners ==
    /\ gphase = "allocated"
    /\ LET xs == PartitionDiscovery(discovery).cross
       IN  /\ cross' = IF YieldsItsSlot(xs) THEN <<>> ELSE xs
           /\ notResearched' = IF YieldsItsSlot(xs) THEN TextsOf(xs) ELSE {}
           /\ \/ groups' = BuildGroups(FallbackGroups)
              \/ \E raw \in RawAnswers :
                    LET proposed == ValidateGroups(raw)
                    IN  groups' = BuildGroups(IF proposed = <<>> THEN FallbackGroups
                                    ELSE ClampGroups(proposed, Greater(1, MandateCeiling(xs))))
              \/ groups' = <<>>         \* build_groups raised
    /\ gphase' = "grouped"
    /\ UNCHANGED <<given, final, discovery>>

---------------------------------------------------------------------------
IsMandate(g) == g.bracket = "mandate"
Mandated(g) == {m \in Range(g.members) : ~m.rider}
Riders(g) == {k \in DOMAIN g.members : g.members[k].rider}

(* A rider joins the group whose own members serve its parent best; past the  *)
(* budget of a group the worst-ranked riders are shed.                        *)
HostOfRider(gs, r) ==
    LET fit  == {k \in DOMAIN gs : IsMandate(gs[k]) /\ OwnParent(r) \in ParentsIn(Mandated(gs[k]))}
        Best(k) == First({m.rank : m \in {x \in Mandated(gs[k]) : Has(x, OwnParent(r))}})
    IN  {k \in fit : \A j \in fit : Best(k) < Best(j) \/ (Best(k) = Best(j) /\ k <= j)}

Seated(g, rs) == [g EXCEPT !.members = @ \o rs]
RidersOf(gs, rs, k) == Those(rs, {n \in DOMAIN rs : k \in HostOfRider(gs, rs[n])})

OverBudget(g) == {k \in Riders(g) : Cardinality({j \in Riders(g) :
                     \/ g.members[j].rank < g.members[k].rank
                     \/ g.members[j].rank = g.members[k].rank /\ j < k}) >= MaxRiders}
ShedRiders(g) == [g EXCEPT !.members = Those(@, DOMAIN @ \ OverBudget(g))]
NoneShed(g) == {}                                \* variant: a shed rider is not handed back
ShedTexts(g) == {g.members[k].text : k \in OverBudget(g)}

AttachRiders ==
    /\ gphase = "grouped"
    /\ LET rs     == PartitionDiscovery(discovery).riders
           seated == [k \in DOMAIN groups |-> Seated(groups[k], RidersOf(groups, rs, k))]
       IN  /\ groups' = [k \in DOMAIN groups |-> ShedRiders(seated[k])]
                          \o (IF cross = <<>> THEN <<>>
                              ELSE <<BuildGroup(DOMAIN cross, cross, "discovery")>>)
           /\ notResearched' = notResearched \cup {r.text : r \in {q \in Range(rs) : HostOfRider(groups, q) = {}}}
                                 \cup UNION {ShedTexts(seated[k]) : k \in DOMAIN groups}
    /\ gphase' = "ridden"
    /\ UNCHANGED <<given, final, discovery, cross>>

---------------------------------------------------------------------------
(* The coverage check over the groups: a question none of the mandate members *)
(* serves gets a group of its own; at the ceiling the discovery group gives   *)
(* its place up, and coverage outranks the ceiling when there is none.        *)
CoveredByWinners(gs) == ParentsIn(Range(final))   \* variant: asks the winners, not the groups
CoveredByMandate(gs) == UNION {ParentsIn(Mandated(g)) : g \in {h \in Range(gs) : IsMandate(h)}}

(* Room for the repairs, of which there is at least one: the discovery group  *)
(* counts against the ceiling until it is gone.                               *)
MakeRoom(gs, repairs) ==
    LET mandates  == {k \in DOMAIN gs : IsMandate(gs[k])}
        allowance == Greater(1, IF mandates = DOMAIN gs THEN MaxGroups ELSE MaxGroups - 1)
    IN  IF Cardinality(mandates) + repairs <= allowance THEN gs ELSE Those(gs, mandates)

(* Ranks are stamped again by text: winners by their place, the dispatched    *)
(* discovery questions after them.                                            *)
Restamped(m, qs, rider, base) ==
    LET same == {k \in DOMAIN qs : qs[k].text = m.text}
    IN  IF m.rider = rider /\ same # {} THEN [m EXCEPT !.rank = base + First(same)] ELSE m
Stamped(gs, qs, rider, base) ==
    [k \in DOMAIN gs |-> [gs[k] EXCEPT !.members = [n \in DOMAIN @ |-> Restamped(@[n], qs, rider, base)]]]
RestampGroups(gs, ws) == Stamped(gs, ws, FALSE, 0)
StampDiscoveryRanks(gs, dispatched, base) == Stamped(gs, dispatched, TRUE, base)

RepairCoverage(gs, ws) ==
    LET missing == Unserved(CoveredByMandate(gs))
        repairs == Promote(missing, given.ranked, IdxOf(ws))
        left    == IF missing = <<>> THEN gs ELSE MakeRoom(gs, Len(missing))
        own     == [k \in DOMAIN missing |-> BuildGroup({1}, <<repairs[k]>>, "mandate")]
        out     == Rerank(repairs \o ws)
    IN  [groups |-> RestampGroups(own \o left, out), winners |-> out,
         shed   |-> UNION {TextsOf(g.members) : g \in Range(gs) \ Range(left)}]

EnforceGroupCoverage ==
    /\ gphase = "ridden"
    /\ LET fix    == RepairCoverage(groups, final)
           silent == notResearched \cup (fix.shed \cap TextsOf(discovery))
           told   == Those(discovery, {k \in DOMAIN discovery : discovery[k].text \notin silent})
       IN  /\ final' = fix.winners
           /\ groups' = StampDiscoveryRanks(fix.groups, told, Greater(1, Len(fix.winners)))
           /\ notResearched' = silent
    /\ gphase' = "grouping_done"
    /\ UNCHANGED <<given, discovery, cross>>

(* A crash of stage B, or of stage A before it, at any point: every question  *)
(* verbatim, one group each, and nothing of what the evidence raised.         *)
GroupingCrash ==
    /\ gphase \notin {"grouping_done", "crashed"}
    /\ final' = FallbackWinners
    /\ groups' = [k \in DOMAIN ClientSeq |-> BuildGroup({k}, FallbackWinners, "mandate")]
    /\ discovery' = <<>> /\ cross' = <<>> /\ notResearched' = {}
    /\ gphase' = "crashed"
    /\ UNCHANGED given

GInit ==
    /\ gphase = "start" /\ given = NoHandover /\ final = <<>> /\ discovery = <<>>
    /\ cross = <<>> /\ groups = <<>> /\ notResearched = {}

GNext == \/ EvolveWinners \/ EnforceScopeGuard \/ Allocate \/ GroupWinners
         \/ AttachRiders \/ EnforceGroupCoverage \/ GroupingCrash

GSpec == GInit /\ [][GNext]_gvars

---------------------------------------------------------------------------

(* Whatever the grouping model answers, whatever is shed and wherever the     *)
(* stage crashes, every client question ends with a winner in a research      *)
(* group of the client's bracket.                                             *)
EveryQuestionGrouped ==
    gphase \in {"grouping_done", "crashed"} => \A l \in Clients : \E g \in Range(groups) :
        IsMandate(g) /\ \E m \in Range(g.members) : ~m.rider /\ Has(m, l)

(* Nothing the evidence raised goes missing: every allocated discovery        *)
(* question is in a group or on the list of what is not researched.           *)
DiscoveryAccounted ==
    gphase = "grouping_done" =>
        TextsOf(discovery) \subseteq notResearched \cup UNION {TextsOf(g.members) : g \in Range(groups)}
=============================================================================
