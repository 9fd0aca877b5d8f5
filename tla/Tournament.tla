---------------------------- MODULE Tournament ----------------------------
(***************************************************************************)
(* The Swiss tournament of the question workshop (workshop_rank.py): the   *)
(* candidates meet in pairs before a judge, and the standings are carried  *)
(* from one round of the workshop to the next.  An entrant is its index.   *)
(* Elo is kept as a small integer: the favourite's win moves 1 point, any  *)
(* other win 2, which keeps what the order of the table depends on (a      *)
(* zero-sum exchange, larger for an upset).  A judge's answer is chosen    *)
(* nondeterministically for every match, "unread" standing for a failed    *)
(* call, a line that does not parse and a match the answer leaves out.     *)
(***************************************************************************)
EXTENDS Integers, FiniteSets, Sequences, SequencesExt

CONSTANTS
    Incumbents,      \* indexes of the first round's candidates
    Newcomers,       \* Newcomers[h]: indexes the h-th generation brings, never used before
    OverrideRounds,  \* _TOURNAMENT_ROUNDS, 0 when the formula decides
    CatchUpMax,      \* _CATCH_UP_MAX_MATCHES
    MaxTournaments   \* bound: tournaments played before the workshop stops

VARIABLES
    tphase,     \* "idle" | "catch_up" | "round" | "over"
    entries,    \* the entrants of the running tournament, index |-> Entry
    standings,  \* what the workshop carries between tournaments
    seen,       \* pairs that have met, carried with the standings
    roundNo,    \* round being played
    held,       \* tournaments finished
    ranked      \* the last ranking, a sequence of indexes

tvars == <<tphase, entries, standings, seen, roundNo, held, ranked>>

Entry == [wins: Nat, elo: Int, byes: Nat, matches: Nat]
NewEntry == [wins |-> 0, elo |-> 0, byes |-> 0, matches |-> 0]

LeastOf(a, b) == IF a < b THEN a ELSE b
MostOf(a, b) == IF a < b THEN b ELSE a
CeilLog2(n) == CHOOSE k \in 0..n : 2^k >= n /\ \A j \in 0..(k - 1) : 2^j < n

TournamentRounds(n) ==
    IF n < 2 THEN 0
    ELSE LeastOf(10, LeastOf(n - 1, IF OverrideRounds > 0 THEN OverrideRounds
                                    ELSE MostOf(6, CeilLog2(n))))

Before(t, a, b) ==
    \/ t[a].wins > t[b].wins
    \/ t[a].wins = t[b].wins /\ t[a].elo > t[b].elo
    \/ t[a].wins = t[b].wins /\ t[a].elo = t[b].elo /\ a < b

Sorted(S, Lt(_, _)) ==     \* sorted(S): Lt is a strict total order on S
    [k \in 1..Cardinality(S) |->
        CHOOSE i \in S : Cardinality({j \in S : Lt(j, i)}) = k - 1]

Table(t) == Sorted(DOMAIN t, LAMBDA a, b : Before(t, a, b))
ByIndex(S) == Sorted(S, LAMBDA a, b : a < b)
Place(t, i) == Cardinality({j \in DOMAIN t : Before(t, j, i)})

PairKey(a, b) == IF a <= b THEN <<a, b>> ELSE <<b, a>>

(* The low median of the games played so far: what a newcomer has to make up. *)
CatchUpMatches(t) ==
    LET games == Sorted(DOMAIN t, LAMBDA a, b :
                   \/ t[a].matches < t[b].matches
                   \/ t[a].matches = t[b].matches /\ a < b)
    IN  IF games = <<>> THEN 0 ELSE t[games[(Len(games) + 1) \div 2]].matches

(* An odd field sits out the entrant with the fewest byes, the lowest placed. *)
ByeOf(t, order) ==
    CHOOSE i \in DOMAIN t : \A j \in DOMAIN t \ {i} :
        \/ t[i].byes < t[j].byes
        \/ t[i].byes = t[j].byes /\ \E p, q \in DOMAIN order :
               order[p] = j /\ order[q] = i /\ p < q

(* Each entrant in turn takes the nearest one it has not met, else the nearest. *)
RECURSIVE PairUp(_, _)
PairUp(pool, met) ==
    IF Len(pool) < 2 THEN <<>>
    ELSE LET first  == Head(pool)
             rest   == Tail(pool)
             fresh  == {k \in DOMAIN rest : PairKey(first, rest[k]) \notin met}
             k      == IF fresh = {} THEN 1 ELSE CHOOSE j \in fresh : \A l \in fresh : j <= l
         IN  <<PairKey(first, rest[k])>> \o PairUp(Remove(rest, rest[k]), met)

PairRound(t, r, met) ==
    LET order == IF r <= 1 THEN ByIndex(DOMAIN t) ELSE Table(t)
        odd   == Len(order) % 2 = 1
        bye   == IF odd THEN {ByeOf(t, order)} ELSE {}
    IN  [pairs |-> PairUp(SelectSeq(order, LAMBDA i : i \notin bye), met), bye |-> bye]

NoCatchUpPairs(t, met) == <<>>                      \* variant: newcomers start unmeasured

(* A newcomer's games against the entrants at the median, nearest in the table first. *)
CatchUpPairs(t, met) ==
    LET median == CatchUpMatches(t)
        stable == {i \in DOMAIN t : t[i].matches >= median}
        Dist(i, j) == IF Place(t, i) > Place(t, j) THEN Place(t, i) - Place(t, j)
                      ELSE Place(t, j) - Place(t, i)
        Near(me) == Sorted((IF stable = {} THEN DOMAIN t ELSE stable) \ {me},
                      LAMBDA a, b : \/ Dist(a, me) < Dist(b, me)
                                    \/ Dist(a, me) = Dist(b, me) /\ a < b)
        Add(acc, me) ==     \* one game of entrant me, given those drawn so far
            LET near  == Near(me)
                fresh == SelectSeq(near, LAMBDA o : PairKey(me, o) \notin acc.met)
                again == Cardinality({g \in DOMAIN acc.games :
                             acc.games[g].of = me /\ acc.games[g].rematch})
                other == IF fresh # <<>> THEN Head(fresh) ELSE near[(again % Len(near)) + 1]
            IN  IF near = <<>> \/ Len(acc.games) >= CatchUpMax THEN acc
                ELSE [met   |-> acc.met \cup {PairKey(me, other)},
                      games |-> Append(acc.games, [of |-> me, pair |-> PairKey(me, other),
                                                   rematch |-> fresh = <<>>])]
        owed == FoldLeft(LAMBDA s, i : s \o [k \in 1..MostOf(0, median - t[i].matches) |-> i],
                         <<>>, ByIndex(DOMAIN t))
        drawn == FoldLeft(Add, [met |-> met, games |-> <<>>], owed)
    IN  IF median <= 0 THEN <<>>
        ELSE [g \in DOMAIN drawn.games |-> drawn.games[g].pair]

(* Sides alternate from match to match; what a judge says of them is mapped back. *)
Present(pair, r, m) == IF (r + m) % 2 = 1 THEN <<pair[2], pair[1]>> ELSE pair

Answers(pairs) == [DOMAIN pairs -> {"A", "B", "unread"}]

JudgeRound(pairs, r, said) ==
    [m \in DOMAIN pairs |->
        LET sides == Present(pairs[m], r, m - 1)
        IN  CASE said[m] = "A" -> sides[1]
              [] said[m] = "B" -> sides[2]
              [] OTHER         -> pairs[m][1]]

EloMove(t, winner, loser) == IF t[winner].elo > t[loser].elo THEN 1 ELSE 2

ApplyVerdicts(t, pairs, winners) ==
    LET Play(u, m) ==
          LET w == winners[m]
              l == IF w = pairs[m][1] THEN pairs[m][2] ELSE pairs[m][1]
              d == EloMove(u, w, l)
          IN  [u EXCEPT ![w].wins = @ + 1, ![w].matches = @ + 1, ![w].elo = @ + d,
                        ![l].matches = @ + 1, ![l].elo = @ - d]
    IN  FoldLeft(Play, t, [m \in DOMAIN pairs |-> m])

GiveBye(t, bye) ==
    [i \in DOMAIN t |-> IF i \in bye THEN [t[i] EXCEPT !.wins = @ + 1, !.byes = @ + 1] ELSE t[i]]

CarriedState(pool) == [i \in pool |-> IF i \in DOMAIN standings THEN standings[i] ELSE NewEntry]

---------------------------------------------------------------------------
TInit ==
    /\ tphase = "idle" /\ entries = <<>> /\ standings = <<>> /\ seen = {}
    /\ roundNo = 0 /\ held = 0 /\ ranked = <<>>

(* The field of one workshop round: the incumbents first, then any pool that  *)
(* has lost and gained candidates.  Fewer than two are ranked without a game, *)
(* and the standings are left as they were.                                   *)
RunTournament(pool) ==
    /\ tphase = "idle" /\ held < MaxTournaments
    /\ IF Cardinality(pool) < 2
         THEN /\ ranked' = ByIndex(pool) /\ held' = held + 1
              /\ UNCHANGED <<tphase, entries, roundNo>>
         ELSE /\ entries' = CarriedState(pool) /\ tphase' = "catch_up" /\ roundNo' = 0
              /\ UNCHANGED <<held, ranked>>
    /\ UNCHANGED <<standings, seen>>

CatchUp ==
    /\ tphase = "catch_up"
    /\ LET pairs == CatchUpPairs(entries, seen)
       IN  \E said \in Answers(pairs) :
             /\ entries' = ApplyVerdicts(entries, pairs, JudgeRound(pairs, 0, said))
             /\ seen' = seen \cup Range(pairs)
    /\ tphase' = "round" /\ roundNo' = 1
    /\ UNCHANGED <<standings, held, ranked>>

Rounds == MostOf(1, TournamentRounds(Cardinality(DOMAIN entries)))

PlayRound ==
    /\ tphase = "round" /\ roundNo <= Rounds
    /\ LET drawn == PairRound(entries, roundNo, seen)
       IN  \E said \in Answers(drawn.pairs) :
             /\ entries' = ApplyVerdicts(GiveBye(entries, drawn.bye), drawn.pairs,
                                         JudgeRound(drawn.pairs, roundNo, said))
             /\ seen' = seen \cup Range(drawn.pairs)
    /\ roundNo' = roundNo + 1
    /\ UNCHANGED <<tphase, standings, held, ranked>>

Finish ==
    /\ tphase = "round" /\ roundNo > Rounds
    /\ ranked' = Table(entries)
    /\ standings' = entries
    /\ tphase' = "idle" /\ held' = held + 1
    /\ UNCHANGED <<entries, seen, roundNo>>

Field == IF held = 0 THEN {Incumbents}
         ELSE {(Range(ranked) \ out) \cup new : out \in SUBSET Range(ranked), new \in SUBSET Newcomers[held]}

TNext == (\E pool \in Field : RunTournament(pool)) \/ CatchUp \/ PlayRound \/ Finish

TSpec == TInit /\ [][TNext]_tvars

---------------------------------------------------------------------------

(* Nobody is ranked on fewer games than the others: when a tournament ends,   *)
(* every entrant, newcomer or not, has played what the median entrant brought *)
(* in and has been drawn, or sat out, once in each of its rounds.             *)
FairShare ==
    [][ tphase = "round" /\ tphase' = "idle" =>
          \A i \in DOMAIN entries :
              entries[i].matches + entries[i].byes
                  >= CatchUpMatches(CarriedState(DOMAIN entries)) + Rounds ]_tvars
=============================================================================
