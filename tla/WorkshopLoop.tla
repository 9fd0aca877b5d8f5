--------------------------- MODULE WorkshopLoop ---------------------------
(***************************************************************************)
(* The critique-and-evolve loop of the question workshop (run_workshop_    *)
(* stage_b of workshop_rank.py, with workshop_register.py, workshop_loop.py*)
(* and workshop_evolve.py).  A round screens the pool of candidate         *)
(* questions, bars the defective ones, ranks the rest, drafts new ones,    *)
(* buys a look-up for every invented angle, clusters the drafts and        *)
(* decides whether to go on.  Every answer of a model is a choice here: a  *)
(* verdict, a ranking, a draft, an admission, a cluster.  A candidate's    *)
(* text is a value compared by equality (the register's key).              *)
(***************************************************************************)
EXTENDS Integers, FiniteSets, Sequences, SequencesExt

CONSTANTS
    LabelSeq,       \* the client's questions, in order
    Disc,           \* DISCOVERY_PARENT
    StageAPool,     \* candidates of stage A: index |-> Candidate
    Drafts,         \* what evolve_generative may return: sequences of Row
    FloorPerQuestion, CrossSlots,      \* _FLOOR_PER_QUESTION, _CROSS_CUTTING_SLOTS
    MaxRounds, MinRounds               \* _LOOP_MAX_ROUNDS, _LOOP_MIN_ROUNDS

VARIABLES
    wphase,       \* where the round is
    population,   \* index |-> Candidate
    screened,     \* index |-> verdict, for the survivors of the critique
    resurrected,  \* survivors a guard brought back
    selected,     \* the round's winners, best first
    played,       \* index |-> text it last played under (games and pairs seen)
    register,     \* [barred: text |-> cause, weak: text |-> passes]
    drafts,       \* rows of the round not stamped yet
    stamped,      \* index |-> Candidate, new in this round
    placed,       \* the clusterer's answer for them
    nextIndex, loopRound,
    invented,     \* the admitted angles, [text, parent]
    bought        \* text |-> rounds in which a look-up was paid for it

loopvars == <<wphase, population, screened, resurrected, selected, played, register,
           drafts, stamped, placed, nextIndex, loopRound, invented, bought>>

Labels == Range(LabelSeq)
Low(a, b) == IF a < b THEN a ELSE b
High(a, b) == IF a < b THEN b ELSE a
Bound(S) == IF S = {} THEN -1 ELSE CHOOSE m \in S : \A x \in S : x <= m
Least(S) == CHOOSE m \in S : \A x \in S : m <= x
At(s, S) == [k \in 1..Cardinality(S) |-> s[CHOOSE i \in S : Cardinality({j \in S : j < i}) = k - 1]]
Up(S) == [k \in 1..Cardinality(S) |-> CHOOSE i \in S : Cardinality({j \in S : j < i}) = k - 1]
Texts == {c.text : c \in Range(StageAPool)} \cup {r.text : r \in UNION {Range(d) : d \in Drafts}}

(* born: round it was made for, 0 in stage A; family: cluster id, -1 its own. *)
Candidate == [text: Texts, parents: SUBSET (Labels \cup {Disc}), born: 0..MaxRounds + 1,
              family: -1..1, merged: BOOLEAN]
Causes == {"kill_defect", "weak_twice", "lookup_failed"}

ASSUME LoopAssumption ==
    /\ FloorPerQuestion \in Nat /\ CrossSlots \in Nat
    /\ LabelSeq \in Seq(Labels)
    /\ IsFiniteSet(DOMAIN StageAPool) /\ DOMAIN StageAPool \in SUBSET Nat
    /\ \A rows \in Drafts : rows \in Seq(Range(rows))

ParentsOf(i) == population[i].parents
Covered(S) == UNION {ParentsOf(i) : i \in S}

---------------------------------------------------------------------------
(* The critique.  An answer that cannot be read counts as KEEP.               *)
Verdicts == {"KEEP", "WEAK", "KILL"}
LowestIndexWithParent(l) == Least({i \in DOMAIN population : l \in ParentsOf(i)})

OrderedParentLabels ==
    LET all == LabelSeq \o <<Disc>>
        here == {k \in DOMAIN all : all[k] \in Covered(DOMAIN population)}
        First(k) == LowestIndexWithParent(all[k])
        Earlier(j, k) == First(j) < First(k) \/ (First(j) = First(k) /\ j < k)
    IN  [n \in 1..Cardinality(here) |->
            all[CHOOSE k \in here : Cardinality({j \in here : Earlier(j, k)}) = n - 1]]

(* A label left without a survivor gets back its lowest-indexed candidate; an *)
(* empty field gets everyone back.                                            *)
BroughtBack(alive) ==
    LET back[k \in 0..Len(OrderedParentLabels)] ==
            IF k = 0 THEN {}
            ELSE LET l == OrderedParentLabels[k]
                 IN  back[k - 1] \cup IF l \in Covered(alive \cup back[k - 1]) THEN {}
                                      ELSE {LowestIndexWithParent(l)}
    IN  back
Rescued(v) ==
    LET alive   == {i \in DOMAIN population : v[i] # "KILL"}
        byLabel == BroughtBack(alive)[Len(OrderedParentLabels)]
    IN  IF alive \cup byLabel = {} THEN DOMAIN population ELSE byLabel

KillIsRestatement(i) ==
    \/ population[i].merged
    \/ \E j \in DOMAIN population \ {i} :
          population[j].family = population[i].family /\ population[i].family >= 0

NewRegister == [barred |-> <<>>, weak |-> [t \in Texts |-> 0]]
Barred == DOMAIN register.barred

Bar(reg, texts, cause) ==       \* a text already barred keeps its first cause
    [reg EXCEPT !.barred = [t \in DOMAIN @ \cup texts |-> IF t \in DOMAIN @ THEN @[t] ELSE cause]]

NoteWeakPass(reg, weak) ==
    [reg EXCEPT !.weak = [t \in Texts |->
        @[t] + Cardinality({i \in weak : population[i].text = t})]]

BarTheCritique(v, back) ==
    LET killed == {i \in DOMAIN population : v[i] = "KILL"} \ back
        defect == {population[i].text : i \in {k \in killed : ~KillIsRestatement(k)}}
        weak   == {i \in DOMAIN population \ back : v[i] = "WEAK"}
        noted  == NoteWeakPass(Bar(register, defect, "kill_defect"), weak)
    IN  Bar(noted, {t \in {population[i].text : i \in weak} : noted.weak[t] >= 2}, "weak_twice")

CritiqueCandidates ==
    /\ wphase = "critique"
    /\ \E v \in [DOMAIN population -> Verdicts] :
         LET back == Rescued(v)
         IN  /\ screened' = [i \in {j \in DOMAIN v : v[j] # "KILL"} \cup back |->
                                IF i \in back THEN "KEEP" ELSE v[i]]
             /\ resurrected' = back
             /\ register' = BarTheCritique(v, back)
    /\ wphase' = "rank"
    /\ UNCHANGED <<population, selected, played, drafts, stamped, placed, nextIndex,
                   loopRound, invented, bought>>

---------------------------------------------------------------------------
(* The tournament (module Tournament) may rank any survivor first; it carries *)
(* what an index earned under that index.  Fewer than two play no game.       *)
Rankings(S) ==
    LET c == Cardinality(S)
    IN  {[k \in 1..c |-> Up(S)[IF k + n <= c THEN k + n ELSE k + n - c]] : n \in 0..(c - 1)}

IsCrossCutting(i) == Disc \in ParentsOf(i) \/ Cardinality(ParentsOf(i) \cap Labels) >= 2

(* Of the places that fit and are free one is taken, a KEEP before a better   *)
(* WEAK, as long as the target leaves room.                                   *)
Slots == FloorPerQuestion * Len(LabelSeq) + CrossSlots
Target(order) == Low(Len(order), Slots)
Pick(taken, fitting, order) ==
    LET open == fitting \ taken
        keep == {p \in open : screened[order[p]] = "KEEP"}
    IN  taken \cup IF Cardinality(taken) >= Target(order) \/ open = {} THEN {}
                   ELSE {Least(IF keep # {} THEN keep ELSE open)}
Picks(taken, fitting, order, times) ==
    LET t[k \in 0..times] == IF k = 0 THEN taken ELSE Pick(t[k - 1], fitting, order)
    IN  t

(* A floor of winners for every question, slots for questions that serve      *)
(* several, then the best of the rest.                                        *)
Serving(l, order) == {p \in DOMAIN order : l \in ParentsOf(order[p])}
FloorUpTo(order) ==
    LET t[k \in 0..Len(LabelSeq)] ==
            IF k = 0 THEN {}
            ELSE Picks(t[k - 1], Serving(LabelSeq[k], order), order, FloorPerQuestion)[FloorPerQuestion]
    IN  t

SelectWinners(order) ==
    LET floor   == FloorUpTo(order)[Len(LabelSeq)]
        several == {p \in DOMAIN order : IsCrossCutting(order[p])}
        cross   == Picks(floor, several, order, CrossSlots)[CrossSlots]
        won     == Up(Picks(cross, DOMAIN order, order, Len(order))[Len(order)])
    IN  [k \in DOMAIN won |-> order[won[k]]]

RankAndSelect ==
    /\ wphase = "rank"
    /\ \E order \in Rankings(DOMAIN screened) : selected' = SelectWinners(order)
    /\ played' = IF Cardinality(DOMAIN screened) < 2 THEN played
                    ELSE [i \in DOMAIN screened |-> population[i].text] @@ played
    /\ wphase' = "generate"
    /\ UNCHANGED <<population, screened, resurrected, register, drafts, stamped, placed,
                   nextIndex, loopRound, invented, bought>>

---------------------------------------------------------------------------
(* New rows.  An invention has the discovery parent and waits for a look-up;  *)
(* any other move inherits the parents of the winners it names, and a row     *)
(* that names none is discarded.                                              *)
WinnersNamed(row) == {selected[k] : k \in row.from \cap DOMAIN selected}
UsableRow(row) == row.move = "INVENT" \/ Covered(WinnersNamed(row)) # {}

EvolveGenerative ==
    /\ wphase = "generate"
    /\ \E rows \in Drafts : drafts' = At(rows, {k \in DOMAIN rows : UsableRow(rows[k])})
    /\ wphase' = "admit"
    /\ UNCHANGED <<population, screened, resurrected, selected, played, register, stamped,
                   placed, nextIndex, loopRound, invented, bought>>

(* An angle already admitted, or barred, is not bought a second time.         *)
AlreadyBarred == Barred         \* variant: the admitted angles are forgotten
AlreadyBought == {a.text : a \in invented} \cup Barred

Admissible == {k \in DOMAIN drafts : drafts[k].move = "INVENT" /\ drafts[k].text \notin AlreadyBought}

(* One angle's look-up: a call that fails, a premise found false and an       *)
(* answer without an admitting source all leave it out.                       *)
OneAdmission == {"admitted", "lookup_failed", "premise_false", "no_source"}
ClassifyParent == Labels \cup {Disc}     \* what cannot be read is filed under discovery

(* Every fresh angle is looked up; what is not admitted is barred, what is    *)
(* admitted becomes a conflict of the question it is filed under.             *)
AdmitInventedAngles ==
    /\ wphase = "admit"
    /\ \E found \in [Admissible -> OneAdmission], parent \in [Admissible -> ClassifyParent] :
         LET won == {k \in Admissible : found[k] = "admitted"}
         IN  /\ register' = Bar(register, {drafts[k].text : k \in Admissible \ won}, "lookup_failed")
             /\ invented' = invented \cup {[text |-> drafts[k].text, parent |-> parent[k]] : k \in won}
    /\ bought' = [t \in Texts |-> IF \E k \in Admissible : drafts[k].text = t
                                  THEN bought[t] \cup {loopRound} ELSE bought[t]]
    /\ drafts' = At(drafts, {k \in DOMAIN drafts : drafts[k].move # "INVENT"})
    /\ wphase' = "cluster"
    /\ UNCHANGED <<population, screened, resurrected, selected, played, stamped, placed,
                   nextIndex, loopRound>>

(* Mutations are numbered from nextIndex before they are clustered.           *)
FirstIndex == nextIndex

StampLoopCandidates ==
    [i \in FirstIndex..(FirstIndex + Len(drafts) - 1) |->
        LET row == drafts[i - FirstIndex + 1]
        IN  [text |-> row.text, parents |-> Covered(WinnersNamed(row)), born |-> loopRound + 1,
             family |-> -1, merged |-> FALSE]]

(* ids: the clusterer's id for every draft and barred shadow, -1 unplaced.    *)
SameBucket(i, j, ids) == i = j \/ (ids[i] >= 0 /\ ids[i] = ids[j])

ClusterCandidates(new, ids, shadow) ==
    LET onBar(i) == ids[i] >= 0 /\ \E t \in DOMAIN shadow : shadow[t] = ids[i]
        bucket(i) == {j \in DOMAIN new : SameBucket(i, j, ids)}
        reps == {i \in DOMAIN new : ~onBar(i) /\ i = Least(bucket(i))}
    IN  [i \in reps |-> [new[i] EXCEPT !.parents = UNION {new[j].parents : j \in bucket(i)},
                                       !.family  = ids[i],
                                       !.merged  = bucket(i) # {i}]]

ClusterDrafts ==
    /\ wphase = "cluster"
    /\ LET new == StampLoopCandidates
       IN  \E ids \in [DOMAIN new -> -1..1], shadow \in [Barred -> -1..0] :
             /\ Cardinality(DOMAIN new) + Cardinality(Barred) < 2 =>
                   Range(ids) \cup Range(shadow) \subseteq {-1}   \* too few: no call
             /\ stamped' = ClusterCandidates(new, ids, shadow)
             /\ placed' = ids
             /\ nextIndex' = nextIndex + Cardinality(DOMAIN new)
    /\ drafts' = <<>>
    /\ wphase' = "verdict"
    /\ UNCHANGED <<population, screened, resurrected, selected, played, register, loopRound,
                   invented, bought>>

---------------------------------------------------------------------------
Winners == Range(selected)
CoverageOk == Labels \subseteq Covered({i \in Winners : screened[i] = "KEEP"})
QualityOk == \A i \in Winners : /\ i \notin resurrected
                                /\ screened[i] = "WEAK" => IsCrossCutting(i)
SaturationOk == \A i \in Winners : population[i].born # loopRound
ShouldExit == CoverageOk /\ QualityOk /\ SaturationOk /\ loopRound >= Low(MinRounds, High(1, MaxRounds))

PoolWithoutBarred ==        \* variant: no question is spared
    {i \in DOMAIN population : population[i].text \notin Barred}

(* Barred candidates leave the pool, except those a question would lose its   *)
(* last candidate with; a pool that would be empty is left alone.             *)
BarredInPool == {i \in DOMAIN population : population[i].text \in Barred}
SavedUpTo(barred) ==
    LET kept[k \in 0..Len(barred)] ==
            IF k = 0 THEN DOMAIN population \ BarredInPool
            ELSE kept[k - 1] \cup IF (ParentsOf(barred[k]) \cap Labels) \subseteq Covered(kept[k - 1])
                                  THEN {} ELSE {barred[k]}
    IN  kept
PoolAfterBars ==
    LET barred == Up(BarredInPool)
        pool   == SavedUpTo(barred)[Len(barred)]
    IN  IF pool = {} THEN DOMAIN population ELSE pool

ExitVerdict ==
    /\ wphase = "verdict"
    /\ population' = IF ShouldExit THEN population
                     ELSE [i \in PoolAfterBars \cup DOMAIN stamped |->
                              IF i \in DOMAIN stamped THEN stamped[i] ELSE population[i]]
    /\ stamped' = <<>> /\ placed' = <<>>
    /\ IF ShouldExit \/ loopRound = MaxRounds
         THEN wphase' = "done" /\ UNCHANGED <<loopRound, screened, resurrected, selected>>
         ELSE /\ wphase' = "critique" /\ loopRound' = loopRound + 1   \* set anew before they are read
              /\ screened' = <<>> /\ resurrected' = {} /\ selected' = <<>>
    /\ UNCHANGED <<played, register, drafts, nextIndex, invented, bought>>

(* Whatever raises inside the loop sends every client question on verbatim,   *)
(* and nothing of the loop is used again.                                     *)
StageBCrash ==
    /\ wphase \notin {"done", "fallback"}
    /\ wphase' = "fallback" /\ population' = StageAPool /\ nextIndex' = 0 /\ loopRound' = 0
    /\ screened' = <<>> /\ resurrected' = {} /\ selected' = <<>> /\ played' = <<>>
    /\ register' = NewRegister /\ drafts' = <<>> /\ stamped' = <<>> /\ placed' = <<>>
    /\ invented' = {} /\ bought' = [t \in Texts |-> {}]

LoopInit ==
    /\ wphase = "critique" /\ population = StageAPool
    /\ screened = <<>> /\ resurrected = {} /\ selected = <<>> /\ played = <<>>
    /\ register = NewRegister /\ drafts = <<>> /\ stamped = <<>> /\ placed = <<>>
    /\ nextIndex = Bound(DOMAIN StageAPool) + 1 /\ loopRound = 1
    /\ invented = {} /\ bought = [t \in Texts |-> {}]

LoopNext == \/ CritiqueCandidates \/ RankAndSelect \/ EvolveGenerative \/ AdmitInventedAngles
         \/ ClusterDrafts \/ ExitVerdict \/ StageBCrash

LoopSpec == LoopInit /\ [][LoopNext]_loopvars

---------------------------------------------------------------------------

(* No client question is lost in the loop: whatever is killed, barred, merged *)
(* or outranked, every question stage A had a candidate for has one in the    *)
(* pool and, once winners are chosen, a winner of its own.                    *)
NoQuestionLost ==
    \A l \in Labels : (\E c \in Range(StageAPool) : l \in c.parents) =>
        /\ l \in Covered(DOMAIN population)
        /\ wphase \in {"generate", "admit", "cluster", "verdict"} => l \in Covered(Winners)

(* A look-up is paid for an angle in one round at most, admitted or refused.  *)
BoughtOnce == \A t \in Texts : Cardinality(bought[t]) <= 1
=============================================================================
