------------------------------- MODULE MCEngine --------------------------------
(***************************************************************************)
(* The engine's stages on instances TLC can exhaust.  A stage hands its    *)
(* result to the next one as a value, so each is checked on its own from   *)
(* every hand-over its constants give: `at` says which one a behaviour is  *)
(* about, the other stages' variables keep their initial values.  The      *)
(* parts with theorems of their own are extended as they are; their        *)
(* constants are in the configuration.                                     *)
(***************************************************************************)
EXTENDS Reliability, StageFeed, OwnResearcher, ResearchRun, TribunalPipeline, Intake,
        Verification, RunFeed, Report, WorkshopIntake, WorkshopLoop, WorkshopGroups,
        ResearchDivision, Claims, TLC

---------------------------------------------------------------------------
(* Workshop, before the loop: a brief with two questions of the same words    *)
(* and one worded like the second's label, one with a question only its text  *)
(* shows, one with none.                                                      *)
LabelText(base, n) == IF n = 1 THEN base ELSE base \o " (" \o ToString(n) \o ")"
BriefsSeen == {[asked |-> <<"x", "x", "x (2)">>, detected |-> <<>>], [asked |-> <<>>, detected |-> <<"x">>],
               [asked |-> <<>>, detected |-> <<>>]}
AnswersSeen == {<<>>, <<1>>, <<0, 1>>}

(* Tournament: three incumbents, then two newcomers, then one.                *)
Incumbents == {0, 1, 2}
Newcomers == <<{3, 4}, {5}>>
OverrideRounds == 2     CatchUpMax == 120   MaxTournaments == 2

(* Loop: two questions, two candidates of stage A, two rounds of drafts.      *)
TwoQuestions == <<"p", "q">>
OfStageA(t, ps, f) == [text |-> t, parents |-> ps, born |-> 0, family |-> f, merged |-> FALSE]
TwoCandidates == (0 :> OfStageA("b", {"p", "q"}, 0)) @@ (1 :> OfStageA("b", {"q"}, -1))
Draft(m, t, f) == [move |-> m, text |-> t, from |-> f]
TwoRounds == {<<Draft("MUTATE", "c", {1}), Draft("INVENT", "e", {})>>, <<Draft("MUTATE", "a", {2})>>}

(* Grouping: hand-overs with a full, a partial and an empty final set,        *)
(* conflicts that were sourced or not, and invented angles.                   *)
ThreeQuestions == <<"p", "q", "r">>
Winner(t, ps, r) == [text |-> t, idx |-> r, parents |-> ps, rank |-> r, rider |-> FALSE]
Disagreement(t, o, s) == [text |-> t, origin |-> o, sourced |-> s]
Invented(t, p) == [text |-> t, parent |-> p]
Pool == <<Winner("a", <<"p">>, 1), Winner("b", <<"q">>, 2), Winner("c", <<"q", "p">>, 3),
          Winner("d", <<"p">>, 4), Winner("e", <<"r">>, 5)>>
WinnersHandedOver ==
    {[winners |-> [k \in DOMAIN w |-> Pool[w[k]]], ranked |-> Pool, conflicts |-> c, angles |-> a] :
        w \in {<<1, 2, 3, 5>>, <<3, 4>>, <<2, 4, 5>>, <<1>>, <<>>, <<2, 3>>},
        c \in {<<>>, <<Disagreement("x", "p", TRUE), Disagreement("y", "zz", TRUE)>>, <<Disagreement("x", "zz", TRUE)>>,
               <<Disagreement("x", "p", TRUE), Disagreement("y", "p", TRUE), Disagreement("z", "p", TRUE), Disagreement("v", "q", FALSE)>>},
        a \in {<<>>, <<Invented("u", "q"), Invented("x", "disc")>>, <<Invented("u", "disc"), Invented("t", "disc")>>}}
ProposedGroups == {<<>>, <<<<1, 2, 3>>>>, <<<<1, 2>>, <<2, 9>>>>, <<<<3>>, <<2>>, <<1>>>>, <<<<2>>>>,
                   <<<<1, 2, 3, 4>>>>, <<<<1>>, <<2>>, <<3>>, <<4>>>>}

(* Division: workshops with and without questions, winners and groups, one    *)
(* whose group names a question that is gone.                                 *)
Ranked(t, r, p) == [text |-> t, rank |-> r, parent |-> p]
Member(t, r, x) == [text |-> t, rank |-> r, rider |-> x]
Bracket(p, ms) == [parent |-> p, members |-> ms]
HandOvers == {[labels |-> l, winners |-> w, groups |-> g] :
    l \in {<<"p", "q", "r">>, <<"p">>, <<>>},
    w \in {<<>>, <<Ranked("a", 1, "p"), Ranked("b", 2, "q"), Ranked("c", 3, "p")>>,
           <<Ranked("b", 0, "q"), Ranked("a", 1, "")>>,
           <<Ranked("a", 1, "zz"), Ranked("b", 4, "q"), Ranked("c", 5, "r"), Ranked("d", 3, "q")>>},
    g \in {<<>>, <<Bracket("p", <<Member("gone", 1, FALSE)>>)>>,
           <<Bracket("p", <<Member("a", 1, FALSE), Member("x", 0, TRUE)>>),
             Bracket("q", <<Member("b", 2, FALSE), Member("c", 3, FALSE)>>)>>,
           <<Bracket("p", <<Member("a", 1, FALSE)>>), Bracket("q", <<Member("b", 2, FALSE)>>),
             Bracket("disc", <<Member("x", 4, TRUE)>>)>>}}
ThreeStreams == <<"gemini", "openai", "claude">>
ByStakes == [high |-> "gemini", med |-> "openai", low |-> "claude"]

(* Research: two angles that corroborate each other; the configured fleets.   *)
AnglePair == <<[area |-> "p", stream |-> "openai", group |-> 1], [area |-> "p", stream |-> "claude", group |-> 1]>>
FleetChoices == {<<"openai", "claude">>, <<"openai">>}

(* Claims: reports whose fact lists are whole, broken or missing, from        *)
(* streams that corroborate each other or not.                                *)
FactLine(k, t, u, s) == [kind |-> k, text |-> t, urls |-> u, single |-> s]
NormText(t) == CASE t = "a!" -> "a" [] t = "zz" -> "" [] OTHER -> t
ReportOf(p, f, g, pr, own, ls) ==
    [prov |-> p, facet |-> f, group |-> g, prompted |-> pr, given |-> own, lines |-> ls]
Whole == <<FactLine("prose", "", {}, FALSE), FactLine("fact", "a", {"u1"}, FALSE),
           FactLine("bad", "", {}, FALSE), FactLine("gap", "g1", {}, FALSE)>>
Mixed == <<FactLine("cite", "a!", {"u2"}, TRUE), FactLine("rejected", "b", {"u3"}, FALSE),
           FactLine("fact", "zz", {"u1"}, FALSE), FactLine("gap", "g1", {}, FALSE), FactLine("gap", "g2", {}, FALSE)>>
Missing == <<FactLine("prose", "", {}, FALSE), FactLine("placeholder", "c", {}, FALSE), FactLine("prose", "", {}, FALSE)>>
HaulsSeen == {
    <<ReportOf("gemini", "p", 1, TRUE, <<>>, Whole), ReportOf("openai", "p", 1, TRUE, <<>>, Mixed),
      ReportOf("gemini", "q", 2, TRUE, <<>>, Missing)>>,
    <<ReportOf("gemini", "p", 1, TRUE, <<>>, Missing), ReportOf("claude", "q", 2, TRUE, <<>>, Missing),
      ReportOf("openai", "q", 2, FALSE, <<>>, <<>>)>>,
    <<ReportOf("own", "p", 1, FALSE, <<FactLine("fact", "a", {"u5"}, FALSE)>>, Whole),
      ReportOf("claude", "q", 0, FALSE, <<>>, Mixed)>>}
SecondAnswers == {<<FactLine("fact", "c", {"u4"}, FALSE)>>, <<FactLine("bad", "", {}, FALSE)>>}
TextsStated == {"a!", "c"}

(* Verification: three claims, two of them high-stakes, two evidenced by the  *)
(* same sentence.                                                             *)
Providers == <<{"a", "b"}, {"a"}, {"b"}>>
Evidence == <<"s1", "s1", "none">>

(* Report: two facts that share a source, one of them judged; two executions. *)
ClaimSources == "p" :> {"u", "v"} @@ "q" :> {"v"}
SessionSources == "p" :> {"w"} @@ "q" :> {}
UuidOrder == "u" :> 1 @@ "v" :> 2 @@ "w" :> 3

(* Intake: the saves, and what a transcript yields.                           *)
SavedBatches == {"goal" :> "long" @@ "ideas" :> "list"}
Extracted == {"goal" :> "short"}

(* Activity feed: two stages of one row and their dividers.                   *)
TwoStages == <<"intake", "workshop">>

(* The whole run: a workshop whose plan was trimmed, one that fell back.      *)
WorkshopResults == {[plan |-> "x", fallback |-> FALSE, trimmed |-> TRUE], [plan |-> "y", fallback |-> TRUE, trimmed |-> FALSE]}
---------------------------------------------------------------------------
VARIABLES
    at,     \* the part this behaviour is about
    tphase, entries, standings, seen, roundNo, held, ranked

tournamentVars == <<tphase, entries, standings, seen, roundNo, held, ranked>>

T == INSTANCE Tournament

---------------------------------------------------------------------------
Part == {"proposal", "intake", "tournament", "loop", "groups", "division",
         "research", "claims", "verification", "report", "breaker", "case",
         "feed", "card", "own", "pipeline"}
EngineInit ==
    /\ at \in Part
    /\ IInit
    /\ T!TInit
    /\ LoopInit
    /\ GInit
    /\ DInit
    /\ RInit
    /\ CInit
    /\ VInit
    /\ WInit
    /\ LInit
    /\ XInit
    /\ FInit
    /\ SFInit
    /\ OInit
    /\ PInit
    /\ (at # "verification" => byGroup)
    /\ (at # "pipeline" => brief = [interactive |-> FALSE, decided |-> TRUE])
    /\ (at # "own" => keyed)

Still(parts) ==     \* every part but these keeps its state
    /\ ("intake" \notin parts => UNCHANGED ivars)
    /\ ("tournament" \notin parts => UNCHANGED tournamentVars)
    /\ ("loop" \notin parts => UNCHANGED loopvars)
    /\ ("groups" \notin parts => UNCHANGED gvars)
    /\ ("division" \notin parts => UNCHANGED dvars)
    /\ ("research" \notin parts => UNCHANGED rvars)
    /\ ("claims" \notin parts => UNCHANGED cvars)
    /\ ("verification" \notin parts => UNCHANGED vvars)
    /\ ("report" \notin parts => UNCHANGED wvars)
    /\ ("breaker" \notin parts => UNCHANGED lvars)
    /\ ("case" \notin parts => UNCHANGED xvars)
    /\ ("feed" \notin parts => UNCHANGED fvars)
    /\ ("card" \notin parts => UNCHANGED sfvars)
    /\ ("own" \notin parts => UNCHANGED ovars)
    /\ ("pipeline" \notin parts => UNCHANGED pvars)

(* The proposal is asked for over one claim and its gaps, the document is     *)
(* written over two claims without any.                                       *)
OneClaim == handed'.survivors \subseteq {"p"} /\ \A k \in DOMAIN claimRows' : claimRows'[k].prefix = "x"
NoGaps == handed'.gaps = {}

EngineNext ==
    \/ at = "intake" /\ INext /\ Still({"intake"}) /\ UNCHANGED at
    \/ at = "tournament" /\ T!TNext /\ Still({"tournament"}) /\ UNCHANGED at
    \/ at = "loop" /\ LoopNext /\ Still({"loop"}) /\ UNCHANGED at
    \/ at = "groups" /\ GNext /\ Still({"groups"}) /\ UNCHANGED at
    \/ at = "division" /\ DNext /\ Still({"division"}) /\ UNCHANGED at
    \/ at = "research" /\ RNext /\ Still({"research"}) /\ UNCHANGED at
    \/ at = "claims" /\ CNext /\ Still({"claims"}) /\ UNCHANGED at
    \/ at = "verification" /\ VNext /\ Still({"verification"}) /\ UNCHANGED at
    \/ at = "report" /\ WNext /\ NoGaps /\ asker' = asker /\ Still({"report"}) /\ UNCHANGED at
    \/ at = "proposal" /\ WNext /\ OneClaim /\ Still({"report"}) /\ UNCHANGED at
    \/ at = "breaker" /\ LNext /\ Still({"breaker"}) /\ UNCHANGED at
    \/ at = "case" /\ XNext /\ Still({"case"}) /\ UNCHANGED at
    \/ at = "feed" /\ FNext /\ Still({"feed"}) /\ UNCHANGED at
    \/ at = "card" /\ SFNext /\ Still({"card"}) /\ UNCHANGED at
    \/ at = "own" /\ ONext /\ Still({"own"}) /\ UNCHANGED at
    \/ at = "pipeline" /\ PNext /\ Still({"pipeline"}) /\ UNCHANGED at

engineVars ==
    <<at, ivars, tournamentVars, loopvars, gvars, dvars, rvars, cvars, vvars,
      wvars, lvars, xvars, fvars, sfvars, ovars, pvars>>
EngineSpec == EngineInit /\ [][EngineNext]_engineVars

---------------------------------------------------------------------------
(* The properties of the stages, stated and explained in their modules.       *)
FairShare == T!FairShare
=============================================================================
