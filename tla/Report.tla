------------------------------- MODULE Report ---------------------------------
(***************************************************************************)
(* From verified claims to the document a client gets: the claim table of  *)
(* one run (citations/extractor.py), the cached bundle, the proposal of a  *)
(* report shape, the written report with its citation anchors and its      *)
(* honesty sections (pipeline.py _write_final_report, steps.py).  A run    *)
(* may be executed again after a crash or a park.                          *)
(***************************************************************************)
EXTENDS Integers, FiniteSets, Sequences, FiniteSetsExt, SequencesExt

CONSTANTS
    Fact,          \* what claims state
    SourcesOf,     \* fact -> the urls its providers cite
    SkepticSources,     \* fact -> the urls of the session that checked its group
    SkepticAsEvidence,  \* runtime flag: a skeptic's urls stay on the verdict
    Judged,        \* facts a skeptic gave a verdict on
    SourceRank,    \* url -> the place of its row's uuid among the uuids
    Prefix,        \* the eight-digit prefixes claim ids may have
    Area,          \* focus areas of the brief
    Asker,         \* requests for the report proposal
    MaxExecutions

(* Sources have rows and so uuids of their own; no request is named "free".   *)
ASSUME ReportAssumption ==
    /\ IsFiniteSet(DOMAIN SourceRank)
    /\ SourceRank \in [DOMAIN SourceRank -> Nat]
    /\ \A u, v \in DOMAIN SourceRank : SourceRank[u] = SourceRank[v] => u = v
    /\ \A f \in Fact : SourcesOf[f] \cup SkepticSources[f] \subseteq DOMAIN SourceRank
    /\ "free" \notin Asker

VARIABLES
    phase,      \* of the execution: verified, persisted, cached, proposing, down, paused, written
    execution,  \* how many there have been
    handed,     \* what this execution hands to the writer: survivors and gaps
    claimRows,  \* rows of claim with their sources, in (position, id) order
    verdictRows, \* rows of verification_verdict; a dropped claim has no claim row
    gapRows,    \* rows of research_gap
    bundle,     \* the latest synthesis_cache: {} or {what was kept}
    proposals,  \* rows of report_proposal: the engine's and the requests'
    spec,       \* the report_spec: {} or {the areas to include}
    asker,      \* asker -> waiting, buying, done
    runLock,    \* the run's advisory lock between two steps: "free" or an asker
    document    \* the written report: {} or {it}

wvars == <<phase, execution, handed, claimRows, verdictRows, gapRows, bundle, proposals, spec, asker, runLock, document>>

---------------------------------------------------------------------------
(* persist_tribunal_claims: one row per survivor, its sources upserted by     *)
(* url; gaps and verdicts as rows of their own, a dropped claim's verdict     *)
(* without a claim.  One transaction: all of it or nothing.  Readers take the *)
(* rows by position, then by id, which is arbitrary.  The urls of a skeptic's *)
(* session back its verdict, and under the flag not each claim of its group.  *)
(* Every fact is a claim of the execution, kept or dropped.                   *)
Walked(fact) == [provider |-> SourcesOf[fact],
                 skeptic  |-> IF fact \in Judged THEN SkepticSources[fact] ELSE {}]
Linked(row) ==
    LET walked == Walked(row.fact)
    IN  walked.provider \cup (IF SkepticAsEvidence THEN {} ELSE walked.skeptic)
NewRows(order, prefixes) ==
    {[fact |-> order[i], prefix |-> prefixes[order[i]], position |-> i, execution |-> execution] : i \in DOMAIN order}
GapRows(texts) == {[text |-> g, execution |-> execution] : g \in texts}
VerdictRows(survivors) ==
    {[fact |-> f, execution |-> execution, onClaim |-> f \in survivors] : f \in Judged}
InOrder(t) == /\ \A i, j \in DOMAIN t : i < j => t[i].position <= t[j].position
              /\ SelectSeq(t, LAMBDA r : r \in ToSet(claimRows)) = claimRows
Tables(order, prefixes) == {t \in SetToSeqs(ToSet(claimRows) \cup NewRows(order, prefixes)) : InOrder(t)}

(* _assign_numbers: rows in claim order, each claim's sources in uuid order;  *)
(* a source gets the next number where it is first seen, and a claim the      *)
(* number of its first source.                                                *)
Sources(table) == UNION {Linked(r) : r \in ToSet(table)}
FirstSeen(table, u) ==
    CHOOSE i \in DOMAIN table : u \in Linked(table[i]) /\ \A j \in DOMAIN table : u \in Linked(table[j]) => i <= j
SeenBefore(table, u, v) ==
    LET i == FirstSeen(table, u)
        j == FirstSeen(table, v)
    IN  i < j \/ (i = j /\ SourceRank[u] < SourceRank[v])
NumberOfSource(table, u) == 1 + Cardinality({v \in Sources(table) : SeenBefore(table, v, u)})
Numbered(table) ==
    [n \in 1..Cardinality(Sources(table)) |-> CHOOSE u \in Sources(table) : NumberOfSource(table, u) = n]
FirstSource(row) == CHOOSE u \in Linked(row) : \A v \in Linked(row) : SourceRank[u] <= SourceRank[v]
NumberOf(table, row) == NumberOfSource(table, FirstSource(row))

(* Anchors carry a prefix of the claim id; a prefix two claims share is       *)
(* offered to nobody.                                                         *)
AnyHolder(rows, prefix) == {r \in rows : r.prefix = prefix}
Holders(rows, prefix) ==
    {r \in rows : r.prefix = prefix /\ \A q \in rows : q.prefix = prefix => q = r}
Ledger(table) == {r \in ToSet(table) : r \in Holders(ToSet(table), r.prefix)}
AnchorNumbers(table) ==
    LET numberable == {r \in ToSet(table) : Linked(r) # {}}
        usable     == {p \in Prefix : Holders(numberable, p) # {}}
    IN  [p \in usable |-> NumberOf(table, CHOOSE r \in Holders(numberable, p) : TRUE)]

---------------------------------------------------------------------------
(* synthesize_report: a section per included area, written by calls of their  *)
(* own; a failed or refused call leaves a placeholder.                        *)
Included(specs) == LET areas == UNION specs IN IF areas \cap Area = {} THEN Area ELSE areas \cap Area
Sections(specs) == SUBSET Included(specs)

(* The writer places any of the anchors it was shown for a claim; an anchor   *)
(* that resolves to no number is removed.                                     *)
Cites(placed, numbers) == {[claim |-> r, n |-> numbers[r.prefix]] : r \in {q \in placed : q.prefix \in DOMAIN numbers}}

(* build_could_not_establish: the gap rows, "none reported", or "unreadable". *)
GapSection(readable) == IF ~readable THEN "unreadable" ELSE IF gapRows = {} THEN "none reported" ELSE "listed"

NoContext == [ledger |-> {}, numbers |-> <<>>, sources |-> <<>>]
CitationContext ==
    {NoContext, [ledger |-> Ledger(claimRows), numbers |-> AnchorNumbers(claimRows), sources |-> Numbered(claimRows)]}
Documents(b, specs) ==
    UNION {{[cites |-> Cites(placed, x.numbers), sources |-> x.sources, sections |-> sections,
             gapSection |-> GapSection(readable), bundle |-> b] :
               placed \in SUBSET x.ledger, readable \in BOOLEAN, sections \in Sections(specs)} : x \in CitationContext}

---------------------------------------------------------------------------
(* The stages of one execution; every write between them may fail and is      *)
(* logged, and the execution goes on.                                         *)
Persist ==
    /\ phase = "verified"
    /\ \/ UNCHANGED <<claimRows, verdictRows, gapRows>>
       \/ /\ \E order \in SetToSeqs(handed.survivors), prefixes \in [handed.survivors -> Prefix] :
                \E table \in Tables(order, prefixes) : claimRows' = table
          /\ verdictRows' = verdictRows \cup VerdictRows(handed.survivors)
          /\ gapRows' = gapRows \cup GapRows(handed.gaps)
    /\ phase' = "persisted"
    /\ UNCHANGED <<execution, handed, bundle, proposals, spec, asker, runLock, document>>

Cache ==
    /\ phase = "persisted"
    /\ bundle' \in {bundle, {handed}}
    /\ phase' = "cached"
    /\ UNCHANGED <<execution, handed, claimRows, verdictRows, gapRows, proposals, spec, asker, runLock, document>>

(* Interactive: a proposal of the report's shape is bought, under no lock,    *)
(* then written, which may fail, and the run waits for the client's shape;    *)
(* otherwise the report is written at once.                                   *)
Proposes ==
    /\ phase = "cached" /\ phase' = "proposing"
    /\ UNCHANGED <<execution, handed, claimRows, verdictRows, gapRows, bundle, proposals, spec, asker, runLock, document>>

Pause ==
    /\ phase = "proposing" /\ phase' = "paused"
    /\ proposals' \in {proposals, [proposals EXCEPT !.engine = @ + 1]}
    /\ UNCHANGED <<execution, handed, claimRows, verdictRows, gapRows, bundle, spec, asker, runLock, document>>

Write ==
    /\ phase = "cached"
    /\ \E d \in Documents(handed, {}) : document' = {d}
    /\ phase' = "written"
    /\ UNCHANGED <<execution, handed, claimRows, verdictRows, gapRows, bundle, proposals, spec, asker, runLock>>

EngineDies ==
    /\ phase \in {"verified", "persisted", "cached", "proposing"} /\ execution < MaxExecutions
    /\ phase' = "down"
    /\ UNCHANGED <<execution, handed, claimRows, verdictRows, gapRows, bundle, proposals, spec, asker, runLock, document>>

Shaped ==
    /\ phase = "paused"
    /\ \E areas \in SUBSET Area : spec' = {areas}
    /\ phase' = "down"
    /\ UNCHANGED <<execution, handed, claimRows, verdictRows, gapRows, bundle, proposals, asker, runLock, document>>

(* The next execution.  Its claim is consumed under the run's lock, which     *)
(* goes with that transaction; the execution itself holds no lock.  With a    *)
(* report spec and a cached bundle it goes straight to the report; without    *)
(* one of them, or when one cannot be read, it verifies afresh.               *)
Executes ==
    /\ phase = "down" /\ runLock = "free" /\ execution < MaxExecutions
    /\ execution' = execution + 1
    /\ \/ /\ spec # {}
          /\ \E b \in bundle : handed' = b /\ \E d \in Documents(b, spec) : document' = {d}
          /\ phase' = "written"
       \/ /\ \E s \in SUBSET Fact, g \in SUBSET {"gap"} : handed' = [survivors |-> s, gaps |-> g]
          /\ phase' = "verified" /\ UNCHANGED document
    /\ UNCHANGED <<claimRows, verdictRows, gapRows, bundle, proposals, spec, asker, runLock>>

---------------------------------------------------------------------------
(* GET report-proposal: the run's advisory lock first, then the cached        *)
(* proposal, then the bundle; a proposal is bought from a model and cached,   *)
(* and the lock goes with the transaction.  A transaction that fails leaves   *)
(* no row of what was paid for.                                               *)
NoProposals == [engine |-> 0, requests |-> 0]
NoLock == TRUE
Unlocked == runLock = "free"
AsksProposal(a) ==
    /\ asker[a] = "waiting" /\ Unlocked
    /\ IF proposals # NoProposals \/ bundle = {}
       THEN asker' = [asker EXCEPT ![a] = "done"] /\ UNCHANGED runLock
       ELSE asker' = [asker EXCEPT ![a] = "buying"] /\ runLock' = a
    /\ UNCHANGED <<phase, execution, handed, claimRows, verdictRows, gapRows, bundle, proposals, spec, document>>

BuysProposal(a) ==
    /\ asker[a] = "buying"
    /\ proposals' \in {proposals, [proposals EXCEPT !.requests = @ + 1]}
    /\ asker' = [asker EXCEPT ![a] = "done"] /\ runLock' = "free"
    /\ UNCHANGED <<phase, execution, handed, claimRows, verdictRows, gapRows, bundle, spec, document>>

---------------------------------------------------------------------------
WInit ==
    /\ phase = "down" /\ execution = 0 /\ handed = [survivors |-> {}, gaps |-> {}]
    /\ claimRows = <<>> /\ verdictRows = {} /\ gapRows = {} /\ bundle = {} /\ proposals = NoProposals /\ spec = {}
    /\ asker = [a \in Asker |-> "waiting"] /\ runLock = "free" /\ document = {}

WNext ==
    \/ Persist \/ Cache \/ Proposes \/ Pause \/ Write \/ EngineDies \/ Shaped \/ Executes
    \/ \E a \in Asker : AsksProposal(a) \/ BuysProposal(a)
WSpec == WInit /\ [][WNext]_wvars

---------------------------------------------------------------------------
(* A number printed in the report leads to a source of the claim the writer   *)
(* anchored there, whatever claims share an id prefix or a source, and        *)
(* whichever execution stored them (citations/anchors.py 159-174, numbering   *)
(* .py 293-381).                                                              *)
CitationsLead ==
    \A d \in document : \A c \in d.cites : c.n \in DOMAIN d.sources /\ d.sources[c.n] \in Linked(c.claim)

(* Requests for the proposal do not pay twice for one run: while one buys, no *)
(* other does and none of them has a proposal stored, and they store at most  *)
(* one; who waited on the lock finds it (runs/api.py 454-475, 483-513).  The  *)
(* engine's own purchase is outside the lock, so it may cross a request's,    *)
(* and one whose transaction failed is made again.                            *)
ProposalBoughtOnce ==
    /\ proposals.requests <= 1
    /\ \A a \in Asker : asker[a] = "buying" =>
          proposals.requests = 0 /\ \A b \in Asker \ {a} : asker[b] # "buying"
=============================================================================
