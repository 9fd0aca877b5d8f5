-------------------------- MODULE ResearchDivision --------------------------
(***************************************************************************)
(* How the workshop's winners become paid research angles                  *)
(* (research_division.py): the focus areas and their stakes, the groups    *)
(* cut back to the winners that are dispatched, one angle for each group   *)
(* and stream, and the ladder that trims them to the ceiling.  Without     *)
(* winners the older division by focus area is used.                       *)
(***************************************************************************)
EXTENDS Integers, FiniteSets, Sequences, SequencesExt

CONSTANTS
    Workshops,            \* what may be handed over: [labels, winners, groups]
    Streams,              \* _D6_STREAMS
    StakesProvider,       \* _STAKES_PROVIDER: stakes -> stream
    Redundancy,           \* _HIGH_REDUNDANCY_PROVIDER
    MaxAngles, MaxWinners,
    MinCorroboration, HighRanks

(* A hand-over is lists.                                                      *)
ASSUME DivisionAssumption ==
    /\ MaxAngles \in Nat /\ MinCorroboration \in Nat /\ Streams \in Seq(Range(Streams))
    /\ \A w \in Workshops : /\ w.labels \in Seq(Range(w.labels)) /\ w.winners \in Seq(Range(w.winners))
                            /\ w.groups \in Seq(Range(w.groups))

VARIABLES
    dphase,       \* "start" | "divided" | "trimmed"
    workshop,     \* the hand-over: winners [text, rank, parent], groups of members
    angles,       \* [area, stream, group, rank], group 0 for none, in dispatch order
    kept,         \* positions of angles that are dispatched
    trims         \* [angle, kind], in order

dvars == <<dphase, workshop, angles, kept, trims>>

Smallest(S) == CHOOSE m \in S : \A x \in S : m <= x
Upwards(S) == [n \in 1..Cardinality(S) |-> CHOOSE i \in S : Cardinality({j \in S : j < i}) = n - 1]
Default(w) == IF w.labels = <<>> THEN "general" ELSE w.labels[1]

(* Winners by rank; an unusable rank is the position, one without a parent    *)
(* belongs to the first question.                                             *)
NormaliseWinners(w) ==
    LET own   == [k \in DOMAIN w.winners |-> [w.winners[k] EXCEPT
                     !.rank   = IF @ < 1 THEN k ELSE @,
                     !.parent = IF @ = "" THEN Default(w) ELSE @]]
        Before(j, k) == own[j].rank < own[k].rank \/ (own[j].rank = own[k].rank /\ j < k)
    IN  [n \in DOMAIN own |-> own[CHOOSE k \in DOMAIN own : Cardinality({j \in DOMAIN own : Before(j, k)}) = n - 1]]

StakesForRank(rank, n) ==
    IF rank <= HighRanks THEN "high" ELSE IF 10 * rank <= 6 * n + 9 THEN "med" ELSE "low"   \* ceil(0.6 n)

(* One focus area for each question, or for each parent when none was asked;  *)
(* its stakes are the highest of its winners, "med" without any.              *)
AreaLabels(w, ws) ==
    LET firsts  == Upwards({k \in DOMAIN ws : \A j \in DOMAIN ws : ws[j].parent = ws[k].parent => k <= j})
        parents == [n \in DOMAIN firsts |-> ws[firsts[n]].parent]
    IN  IF w.labels # <<>> THEN w.labels ELSE IF parents # <<>> THEN parents ELSE <<"general">>

FocusAreas(labels, ws) ==
    LET Home(v) == IF v.parent \in Range(labels) THEN v.parent ELSE labels[1]
        Of(l)   == {StakesForRank(v.rank, Len(ws)) : v \in {x \in Range(ws) : Home(x) = l}}
        Top(S)  == IF S = {} THEN "med" ELSE IF "high" \in S THEN "high" ELSE IF "med" \in S THEN "med" ELSE "low"
    IN  [k \in DOMAIN labels |-> [area |-> labels[k], stakes |-> Top(Of(labels[k]))]]

---------------------------------------------------------------------------
(* Without winners: one angle for each area by its stakes, and a second       *)
(* stream for the high ones, which the ceiling drops first.                   *)
Angle(area, stream, group, rank) == [area |-> area, stream |-> stream, group |-> group, rank |-> rank]

DivideByArea(areas) ==
    LET all   == {s \in (DOMAIN areas) \X {0, 1} : s[2] = 0 \/ areas[s[1]].stakes = "high"}
        over  == Cardinality(all) > MaxAngles
        Before(s, t) == IF over THEN s[2] < t[2] \/ (s[2] = t[2] /\ s[1] < t[1])
                        ELSE s[1] < t[1] \/ (s[1] = t[1] /\ s[2] < t[2])
        Of(s) == Angle(areas[s[1]].area, IF s[2] = 0 THEN StakesProvider[areas[s[1]].stakes] ELSE Redundancy, 0, s[2])
    IN  [n \in 1..(IF over THEN MaxAngles ELSE Cardinality(all)) |->
            Of(CHOOSE s \in all : Cardinality({t \in all : Before(t, s)}) = n - 1)]

---------------------------------------------------------------------------
(* Groups keep the members that are dispatched winners, and the riders; an    *)
(* empty one is gone.  Without any groups there is one for each parent.       *)
BoundGroups(w, ws) ==
    LET texts  == {v.text : v \in Range(ws)}
        Cut(g) == {m \in Range(g.members) : m.rider \/ m.text \in texts}
        live   == Upwards({k \in DOMAIN w.groups : Cut(w.groups[k]) # {}})
    IN  [n \in DOMAIN live |-> [parent |-> w.groups[live[n]].parent, members |-> Cut(w.groups[live[n]])]]

FallbackByParent(w, areas, ws) ==
    LET Of(l) == {v \in Range(ws) : v.parent = l \/ (l = Default(w) /\ v.parent \notin Range(w.labels))}
        used  == Upwards({k \in DOMAIN areas : Of(areas[k].area) # {}})
    IN  [n \in DOMAIN used |-> [parent |-> areas[used[n]].area,
            members |-> {[text |-> v.text, rank |-> v.rank, rider |-> FALSE] : v \in Of(areas[used[n]].area)}]]

GroupRank(g) == Smallest({IF m.rank < 1 THEN 10^9 ELSE m.rank : m \in g.members})
AreaOf(areas, g) == IF \E a \in Range(areas) : a.area = g.parent THEN g.parent ELSE areas[1].area

GroupAngle(areas, gs, n) ==
    LET g == gs[((n - 1) \div Len(Streams)) + 1]
    IN  Angle(AreaOf(areas, g), Streams[((n - 1) % Len(Streams)) + 1], ((n - 1) \div Len(Streams)) + 1, GroupRank(g))

DivideFromWinners(w, areas, ws) ==
    LET gs == IF w.groups = <<>> THEN FallbackByParent(w, areas, ws) ELSE BoundGroups(w, ws)
    IN  IF gs = <<>> THEN DivideByArea(areas)
        ELSE [n \in 1..(Len(gs) * Len(Streams)) |-> GroupAngle(areas, gs, n)]

MissionBrief(w) == FocusAreas(AreaLabels(w, NormaliseWinners(w)), NormaliseWinners(w))
Dispatched(ws) == SubSeq(ws, 1, IF Len(ws) > MaxWinners THEN MaxWinners ELSE Len(ws))

Divide ==
    /\ dphase = "start"
    /\ \E w \in Workshops :
          /\ workshop' = w
          /\ angles' = IF w.winners = <<>> THEN DivideByArea(MissionBrief(w))
                        ELSE DivideFromWinners(w, MissionBrief(w), Dispatched(NormaliseWinners(w)))
    /\ kept' = DOMAIN angles' /\ trims' = <<>>
    /\ dphase' = "divided"

---------------------------------------------------------------------------
(* The ladder: the first angle of every area is protected; a surplus angle    *)
(* goes first, then a copy beyond the corroboration a group needs, and only   *)
(* then one whose loss breaks corroboration.                                  *)
Protected == {k \in DOMAIN angles : \A j \in DOMAIN angles : angles[j].area = angles[k].area => k <= j}
Copies(S, k) == {j \in S : angles[j].group = angles[k].group /\ angles[j].group # 0}
StreamPlace(k) == CHOOSE n \in DOMAIN Streams : Streams[n] = angles[k].stream
Weaker(j, k) ==
    \/ angles[j].rank > angles[k].rank
    \/ /\ angles[j].rank = angles[k].rank
       /\ \/ StreamPlace(j) > StreamPlace(k)
          \/ StreamPlace(j) = StreamPlace(k) /\ j > k

Surplus == {k \in kept \ Protected : angles[k].group = 0}
Spare == {k \in kept \ Protected : Cardinality(Copies(kept, k)) > MinCorroboration}
AnyUnprotected == [rung |-> kept \ Protected, kind |-> "corroboration_lost"]     \* variant: no ladder
Rung == CASE Surplus # {} -> [rung |-> Surplus, kind |-> "surplus"]
          [] Surplus = {} /\ Spare # {} -> [rung |-> Spare, kind |-> "corroboration"]
          [] OTHER -> [rung |-> kept \ Protected, kind |-> "corroboration_lost"]

TrimLadder ==
    /\ dphase = "divided"
    /\ Cardinality(kept) > MaxAngles /\ Rung.rung # {}
    /\ \E victim \in Rung.rung :
          /\ \A j \in Rung.rung \ {victim} : Weaker(victim, j)
          /\ kept' = kept \ {victim}
          /\ trims' = Append(trims, [angle |-> victim, kind |-> Rung.kind])
    /\ UNCHANGED <<dphase, workshop, angles>>

DispatchAngles ==
    /\ dphase = "divided"
    /\ Cardinality(kept) <= MaxAngles \/ Rung.rung = {}
    /\ dphase' = "trimmed"
    /\ UNCHANGED <<workshop, angles, kept, trims>>

DInit ==
    /\ dphase = "start" /\ workshop = [labels |-> <<>>, winners |-> <<>>, groups |-> <<>>]
    /\ angles = <<>> /\ kept = {} /\ trims = <<>>
DNext == Divide \/ TrimLadder \/ DispatchAngles
DSpec == DInit /\ [][DNext]_dvars

---------------------------------------------------------------------------
(* Trimming to the spend ceiling never leaves a focus area without research,  *)
(* and says that corroboration was lost only when no group had a copy to      *)
(* spare: then every group that is left with unprotected angles has at most   *)
(* the copies it needs.                                                       *)
TrimInOrder ==
    dphase = "trimmed" =>
        /\ {angles[k].area : k \in kept} = {angles[k].area : k \in DOMAIN angles}
        /\ Cardinality(kept) <= MaxAngles \/ kept \subseteq Protected
        /\ (\E n \in DOMAIN trims : trims[n].kind = "corroboration_lost") =>
              \A k \in kept \ Protected : Cardinality(Copies(kept, k)) <= MinCorroboration
=============================================================================
