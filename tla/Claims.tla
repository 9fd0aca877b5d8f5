------------------------------- MODULE Claims --------------------------------
(***************************************************************************)
(* From the streams' reports to one list of claims (facts.py,              *)
(* synthesis/steps.py collect_provider_facts): a report's own fact list is *)
(* parsed, a garbled one is asked for once more, a report without one goes *)
(* to the distiller in chunks, and what several streams say is merged.     *)
(***************************************************************************)
EXTENDS Integers, FiniteSets, Sequences, SequencesExt

CONSTANTS
    Hauls,               \* sequences of reports the research may return
    Norm(_),             \* a statement without case and punctuation, "" when nothing is left
    RetryLines,          \* what the second request for a fact list may answer
    DistilledTexts,      \* what the distiller may state
    RetryProviders,      \* _FACT_LIST_RETRY_PROVIDERS
    MaxFacts, MaxGaps, MaxNotFound, ChunkLines, DistillSlots, MaxDistilled

VARIABLES
    cphase,      \* "start" | "reading" | "distilling" | "collected"
    haul,        \* <<[prov, facet, group, prompted, given, lines]>>
    unread,      \* position of the next report
    listed,      \* claims from fact lists, in order
    record,      \* per report: "unread" | "list" | "retried" | "fellback" | "empty" | "unreadable"
    unit,        \* per distiller unit: [prov, n, st, rows]
    gaps,        \* <<[prov, text]>>: what a stream says it could not find
    claims       \* the merged claims

ASSUME ClaimsAssumption ==
    /\ MaxFacts \in Nat /\ MaxDistilled \in Nat /\ ChunkLines \in Nat \ {0}
    /\ \A ls \in RetryLines : ls \in Seq(Range(ls))
    /\ \A h \in Hauls : /\ h \in Seq(Range(h))
                        /\ \A r \in Range(h) : r.given \in Seq(Range(r.given)) /\ r.lines \in Seq(Range(r.lines))

cvars == <<cphase, haul, unread, listed, record, unit, gaps, claims>>

---------------------------------------------------------------------------
(* A line is one fact with the links it resolves to, or what is wrong with    *)
(* it; a fact with a placeholder link is no fact, one with a rejected link    *)
(* is a fact without a source.                                                *)
Only(ls, kinds) ==
    LET at == {k \in DOMAIN ls : ls[k].kind \in kinds}
    IN  [n \in 1..Cardinality(at) |-> ls[CHOOSE k \in at : Cardinality({j \in at : j < k}) = n - 1]]
FirstOf(ls, most) == SubSeq(ls, 1, IF Len(ls) > most THEN most ELSE Len(ls))
LinksOf(l) == IF l.kind = "rejected" THEN {} ELSE l.urls
FactLines(ls) == Only(ls, {"fact", "cite", "rejected"})

ParseFactList(ls) ==
    [facts    |-> FirstOf(FactLines(ls), MaxFacts),
     notFound |-> FirstOf(Only(ls, {"gap"}), MaxGaps),
     fallback |-> FactLines(ls) = <<>>]

NormaliseFactClaim(l, r, source) ==
    [text |-> l.text, found |-> {r.prov}, urls |-> IF source = "fallback" THEN {} ELSE LinksOf(l),
     single |-> source = "list" /\ l.single, facet |-> r.facet, group |-> r.group, source |-> source]

StripFactBlock(r) == Only(r.lines, {"prose"})
Report(n) == haul[n]
ClaimsOf(ls, r) == [k \in DOMAIN ls |-> NormaliseFactClaim(ls[k], r, "list")]
GapsOf(ls, r) == [k \in DOMAIN ls |-> [prov |-> r.prov, text |-> ls[k].text]]

(* A long report is cut into chunks, a short one is one.                      *)
Chunks(ls) == LET n == (Len(ls) + ChunkLines - 1) \div ChunkLines
              IN  [k \in 1..n |-> SubSeq(ls, (k - 1) * ChunkLines + 1, IF k = n THEN Len(ls) ELSE k * ChunkLines)]
UnitsOf(r, n) == [k \in DOMAIN Chunks(StripFactBlock(r)) |-> [prov |-> r.prov, n |-> n, st |-> "queued", rows |-> <<>>]]

RetryFactList(r) ==
    IF r.prompted /\ r.prov \in RetryProviders THEN RetryLines \cup {<<>>} ELSE {<<>>}

(* One report at a time: facts it came with, its own list, the corrected list *)
(* or the distiller; a report without any text gives nothing.  Whatever is    *)
(* raised over a report ends its reading: what was taken from it stays, and   *)
(* the distiller is not asked.                                                *)
ReadReport ==
    /\ cphase = "reading" /\ unread <= Len(haul)
    /\ LET r == Report(unread)
           p == ParseFactList(r.lines)
           Take(facts, nf, how) ==
                /\ listed' = listed \o ClaimsOf(facts, r)
                /\ gaps' = gaps \o GapsOf(nf, r)
                /\ record' = [record EXCEPT ![unread] = how]
                /\ UNCHANGED unit
       IN  \/ Take(<<>>, <<>>, "unreadable")
           \/ \E most \in 0..Len(r.given) - 1 : Take(FirstOf(r.given, most), <<>>, "unreadable")
           \/ /\ r.given = <<>>
              /\ \E most \in 0..Len(p.facts) - 1 : Take(FirstOf(p.facts, most), p.notFound, "unreadable")
           \/ r.given # <<>> /\ Take(r.given, p.notFound, "list")
           \/ r.given = <<>> /\ r.lines = <<>> /\ Take(<<>>, <<>>, "empty")
           \/ r.given = <<>> /\ ~p.fallback /\ Take(p.facts, p.notFound, "list")
           \/ /\ r.given = <<>> /\ r.lines # <<>> /\ p.fallback
              /\ \E again \in RetryFactList(r) :
                    LET q == ParseFactList(again)
                    IN  \/ ~q.fallback /\ Take(q.facts, p.notFound \o q.notFound, "retried")
                        \/ /\ q.fallback
                           /\ unit' = unit \o UnitsOf(r, unread)
                           /\ gaps' = gaps \o GapsOf(p.notFound, r)
                           /\ record' = [record EXCEPT ![unread] = "fellback"]
                           /\ UNCHANGED listed
    /\ unread' = unread + 1
    /\ UNCHANGED <<cphase, haul, claims>>

Collect ==
    /\ cphase = "start"
    /\ \E h \in Hauls : haul' = h /\ record' = [n \in DOMAIN h |-> "unread"]
    /\ cphase' = "reading" /\ unread' = 1
    /\ UNCHANGED <<listed, unit, gaps, claims>>

---------------------------------------------------------------------------
(* The units run together, as many as there are slots; one that fails gives   *)
(* no claims.                                                                 *)
StartUnit(u) ==
    /\ cphase = "reading" /\ unread > Len(haul) /\ unit[u].st = "queued"
    /\ Cardinality({v \in DOMAIN unit : unit[v].st = "running"}) < DistillSlots
    /\ unit' = [unit EXCEPT ![u].st = "running"]
    /\ UNCHANGED <<cphase, haul, unread, listed, record, gaps, claims>>

DistillUnit(u) ==
    /\ unit[u].st = "running"
    /\ \E rows \in SeqOf(DistilledTexts, MaxDistilled) : unit' = [unit EXCEPT ![u].st = "done", ![u].rows = rows]
    /\ UNCHANGED <<cphase, haul, unread, listed, record, gaps, claims>>

DistilledLine(t) == [kind |-> "fact", text |-> t, urls |-> {}, single |-> FALSE]
ClaimsOfUnit(u) ==
    [k \in DOMAIN u.rows |->
        NormaliseFactClaim(DistilledLine(u.rows[k]), [prov |-> u.prov, facet |-> "general", group |-> 0], "fallback")]
DistilledUpTo(us) ==
    LET rows[n \in 0..Len(us)] == IF n = 0 THEN <<>> ELSE rows[n - 1] \o ClaimsOfUnit(us[n])
    IN  rows
Distilled == DistilledUpTo(unit)[Len(unit)]

---------------------------------------------------------------------------
(* Two claims of the same normalised text are one: the first keeps its place, *)
(* its text and its attribution and gains the streams and the links; it is    *)
(* certain only when both were.                                               *)
MergeLaterGroup(kept, c) ==         \* variant: the later claim's attribution wins
    [kept EXCEPT !.found = @ \cup c.found, !.urls = @ \cup c.urls, !.single = @ \/ c.single,
                 !.facet = c.facet, !.group = c.group]
MergeInto(kept, c) == [kept EXCEPT !.found = @ \cup c.found, !.urls = @ \cup c.urls, !.single = @ \/ c.single]

Joined(cs, c) ==
    LET same == {k \in DOMAIN cs : Norm(cs[k].text) = Norm(c.text)}
    IN  IF Norm(c.text) = "" THEN cs
        ELSE IF same = {} THEN Append(cs, c)
        ELSE [cs EXCEPT ![CHOOSE k \in same : TRUE] = MergeInto(@, c)]
DedupedUpTo(cs) ==
    LET kept[n \in 0..Len(cs)] == IF n = 0 THEN <<>> ELSE Joined(kept[n - 1], cs[n])
    IN  kept
DedupeClaims(cs) == DedupedUpTo(cs)[Len(cs)]

(* The streams' gaps, each once, as many as the report has room for.          *)
NotFound == FirstOf(FoldLeft(LAMBDA all, g : IF g \in Range(all) THEN all ELSE Append(all, g), <<>>, gaps), MaxNotFound)

(* The distiller's own merge, and then the one over all streams.              *)
MergeFacts ==
    /\ cphase = "reading" /\ unread > Len(haul) /\ \A u \in DOMAIN unit : unit[u].st = "done"
    /\ claims' = DedupeClaims(listed \o DedupeClaims(Distilled))
    /\ gaps' = NotFound
    /\ cphase' = "collected"
    /\ UNCHANGED <<haul, unread, listed, record, unit>>

CInit == /\ cphase = "start" /\ haul = <<>> /\ unread = 0 /\ listed = <<>> /\ record = <<>>
         /\ unit = <<>> /\ gaps = <<>> /\ claims = <<>>
CNext == Collect \/ ReadReport \/ MergeFacts \/ \E u \in DOMAIN unit : StartUnit(u) \/ DistillUnit(u)
CSpec == CInit /\ [][CNext]_cvars

---------------------------------------------------------------------------
(* Merging loses no witness: whatever a stream stated is in exactly one claim *)
(* that names this stream and has its links, a doubt of any stream stays a    *)
(* doubt, and the claim has the words and the attribution (its area and its   *)
(* corroboration group) of the first fact list that stated it, however the    *)
(* distiller's answers come in (steps.py 2040-2053, 3436-3447).               *)
Stated == listed \o Distilled
SameText(a, b) == Norm(a.text) = Norm(b.text)
FirstIn(cs, i) == \A k \in 1..i - 1 : ~SameText(cs[k], cs[i])
Attribution(c) == [text |-> c.text, facet |-> c.facet, group |-> c.group, source |-> c.source]
WitnessesKept ==
    cphase = "collected" =>
        \A k \in DOMAIN Stated : Norm(Stated[k].text) # "" =>
            LET same == {j \in DOMAIN claims : SameText(claims[j], Stated[k])}
            IN  /\ Cardinality(same) = 1
                /\ \A j \in same :
                      /\ Stated[k].found \subseteq claims[j].found
                      /\ Stated[k].urls \subseteq claims[j].urls
                      /\ Stated[k].single => claims[j].single
                      /\ k \in DOMAIN listed /\ FirstIn(listed, k) => Attribution(claims[j]) = Attribution(Stated[k])
=============================================================================
