------------------------------- MODULE Intake -------------------------------
(***************************************************************************)
(* An intake of the backend: its status, its answers, the AI skills that   *)
(* run over it and the report that ends it.  A verb of the API is a read   *)
(* and a write of one transaction without row locks (READ COMMITTED), so   *)
(* two requests may read before either writes.  A skill runs in the        *)
(* background as three transactions-or-calls; its row in skill_runs is     *)
(* how the interface knows of it.                                          *)
(***************************************************************************)
EXTENDS Integers, Sequences, FiniteSets

CONSTANTS
    Required, Proposal,     \* a required longtext and a proposal_list of the form
    AdminKey,               \* a field only superadmins see
    Batches,                \* saves: functions from fields to values
    Extractions,            \* what structure-answers reads out of a transcript
    Overrides,              \* the statuses a superadmin may force
    Skills,                 \* the skills that are started
    MaxRequests, MaxSkillRuns, MaxMishaps

Status == {"draft", "submitted", "reviewed", "validated_by_client", "decomposed",
           "in_research", "delivered", "archived"}
Caller == {"client", "superadmin"}
Verb == {"save", "submit", "review", "override", "deliver", "replace", "delete", "send"}

VARIABLES
    exists,         \* the row of the intake
    status,
    answers,        \* field -> class of its value
    inResearch,     \* a research run is in flight
    pack,           \* context_pack_artifact_id: the skill run that wrote it
    report,         \* final_report_artifact_id
    mails,          \* kinds of mail sent
    runs,           \* skill_runs in order of creation, each with its task
    derived,        \* which skills have stored insights, vectors or transcript chunks
    request,        \* what each caller's transaction has read
    requests, mishaps,
    validations     \* times the intake became validated_by_client

statusVars == <<exists, status, answers, inResearch, pack, report, mails, validations>>
skillVars == <<runs, derived>>
xvars == <<statusVars, skillVars, request, requests, mishaps>>

---------------------------------------------------------------------------
(* The write policy of the answers.                                           *)
Shape(field) ==         \* the classes of value a field takes
    CASE field = Required -> {"empty", "short", "long"}
      [] field = Proposal -> {"empty", "list"}
      [] OTHER -> {"empty", "short", "long", "list"}
Editable(field, st) == st = "draft" \/ (st \in {"reviewed", "validated_by_client"} /\ field = Proposal)
Admitted(caller, batch, st) ==
    caller = "superadmin"
    \/ \A f \in DOMAIN batch : f \in {Required, Proposal} /\ Editable(f, st) /\ batch[f] \in Shape(f)
Complete(caller, given) == caller = "superadmin" \/ given[Required] = "long"
Over(new, old) == [f \in DOMAIN old |-> IF f \in DOMAIN new THEN new[f] ELSE old[f]]

Submitted == [st \in {"draft", "reviewed"} |-> IF st = "draft" THEN "submitted" ELSE "validated_by_client"]

---------------------------------------------------------------------------
(* The verbs.  `request[c]` is [verb |-> "none"] between two of them.         *)
Resting == [verb |-> "none"]
XInit ==
    /\ exists = TRUE /\ status = "draft" /\ inResearch = FALSE
    /\ answers = [f \in {Required, Proposal, AdminKey} |-> "empty"]
    /\ pack = 0 /\ report = 0 /\ mails = {}
    /\ runs = <<>> /\ derived = {}
    /\ request = [c \in Caller |-> Resting]
    /\ requests = 0 /\ mishaps = 0 /\ validations = 0

Reads(c, verb, data) ==     \* get(): 404 without the row
    /\ request[c] = Resting /\ requests < MaxRequests /\ exists
    /\ request' = [request EXCEPT ![c] = [verb |-> verb, data |-> data]]
    /\ requests' = requests + 1
    /\ UNCHANGED <<statusVars, skillVars, mishaps>>

UpsertReads(c) == \E b \in Batches : Admitted(c, b, status) /\ Reads(c, "save", b)
SubmitReads(c) ==
    /\ status \in DOMAIN Submitted
    /\ status = "draft" => Complete(c, answers)
    /\ Reads(c, "submit", Submitted[status])
ReviewReads(c) == c = "superadmin" /\ status = "submitted" /\ Reads(c, "review", "reviewed")
OverrideReads(c) == c = "superadmin" /\ \E st \in Overrides : Reads(c, "override", st)
DeliverReads(c) == c = "superadmin" /\ status = "in_research" /\ Reads(c, "deliver", "delivered")
ReplaceReads(c) == c = "superadmin" /\ status = "delivered" /\ Reads(c, "replace", "pdf")
DeleteReads(c) == c = "superadmin" /\ ~inResearch /\ Reads(c, "delete", "cascade")
SendReads(c) ==         \* a results link needs no report, only the intake mail a draft
    c = "superadmin" /\ \E m \in {"results", "intake"} : (m = "intake" => status = "draft") /\ Reads(c, "send", m)

Arrives(c) ==
    \/ UpsertReads(c) \/ SubmitReads(c) \/ ReviewReads(c) \/ OverrideReads(c)
    \/ DeliverReads(c) \/ ReplaceReads(c) \/ DeleteReads(c) \/ SendReads(c)

Asked(c, verb) == exists /\ request[c].verb = verb
Ends(c) == request' = [request EXCEPT ![c] = Resting] /\ UNCHANGED <<requests, mishaps>>
Becomes(st) ==
    /\ status' = st
    /\ validations' = IF st = "validated_by_client" THEN validations + 1 ELSE validations

UpsertWrites(c) ==
    /\ Asked(c, "save") /\ answers' = Over(request[c].data, answers) /\ Ends(c)
    /\ UNCHANGED <<exists, status, inResearch, pack, report, mails, validations, skillVars>>
StatusWrites(c) ==
    /\ \E v \in {"submit", "review", "override"} : Asked(c, v)
    /\ Becomes(request[c].data) /\ Ends(c)
    /\ UNCHANGED <<exists, answers, inResearch, pack, report, mails, skillVars>>
DeliverWrites(c) ==     \* committed before the mail is sent in a second transaction
    /\ Asked(c, "deliver") /\ report' = report + 1 /\ Becomes("delivered")
    /\ request' = [request EXCEPT ![c] = [verb |-> "mail", data |-> "results"]]
    /\ UNCHANGED <<exists, answers, inResearch, pack, mails, skillVars, requests, mishaps>>
ReplaceWrites(c) ==
    /\ Asked(c, "replace") /\ report' = report + 1
    /\ \E mail \in BOOLEAN : request' = [request EXCEPT ![c] =
            IF mail THEN [verb |-> "mail", data |-> "results"] ELSE Resting]
    /\ UNCHANGED <<exists, status, answers, inResearch, pack, mails, validations, skillVars, requests, mishaps>>
MailSends(c) ==         \* one mail per locale; the first failure ends it without a stamp
    /\ exists /\ request[c].verb \in {"mail", "send"}
    /\ mails' \in {mails, mails \cup {request[c].data}}
    /\ Ends(c)
    /\ UNCHANGED <<exists, status, answers, inResearch, pack, report, validations, skillVars>>
Cascade == [k \in DOMAIN runs |-> [runs[k] EXCEPT !.st = "deleted"]]
DeleteWrites(c) ==      \* every row of the intake goes with it
    /\ Asked(c, "delete") /\ exists' = FALSE /\ runs' = Cascade /\ Ends(c)
    /\ UNCHANGED <<status, answers, inResearch, pack, report, mails, validations, derived>>
Vanished(c) ==          \* an update that matches no row any more: 404
    /\ ~exists /\ request[c] # Resting /\ Ends(c) /\ UNCHANGED <<statusVars, skillVars>>
Answers(c) ==
    \/ UpsertWrites(c) \/ StatusWrites(c) \/ DeliverWrites(c) \/ ReplaceWrites(c)
    \/ MailSends(c) \/ DeleteWrites(c) \/ Vanished(c)

(* The research of ResearchMirror, as far as the intake sees it.              *)
TriggerResearch ==      \* a compare-and-swap on the status
    /\ exists /\ status = "decomposed" /\ ~inResearch
    /\ inResearch' = TRUE /\ Becomes("in_research")
    /\ UNCHANGED <<exists, answers, pack, report, mails, skillVars, request, requests, mishaps>>
ResearchEnds ==
    /\ inResearch /\ inResearch' = FALSE
    /\ UNCHANGED <<exists, status, answers, pack, report, mails, validations, skillVars, request, requests, mishaps>>

---------------------------------------------------------------------------
(* The skills: dispatch, then read, call and write, each of which may fail.   *)
OneRunning(skill) == ~\E k \in DOMAIN runs : runs[k].skill = skill /\ runs[k].st = "running"
Dispatch(skill) ==      \* the unique index of running rows refuses a second one
    /\ exists /\ Len(runs) < MaxSkillRuns /\ OneRunning(skill)
    /\ runs' = Append(runs, [skill |-> skill, st |-> "running", task |-> "queued"])
    /\ UNCHANGED <<statusVars, derived, request, requests, mishaps>>

Patched(k, st) == IF runs[k].st = "deleted" THEN "deleted" ELSE st     \* no row, no update
Moves(k, task) == runs' = [runs EXCEPT ![k].task = task]
Closes(k, st) == runs' = [runs EXCEPT ![k].st = Patched(k, st), ![k].task = "gone"]
TaskLeaves == UNCHANGED <<exists, inResearch, report, mails, request, requests>>

SkillReads(k) ==        \* a missing intake is an answer that says so
    /\ runs[k].task = "queued" /\ Moves(k, IF exists THEN "read" ELSE "refused")
    /\ TaskLeaves /\ UNCHANGED <<status, validations, answers, pack, derived, mishaps>>
SkillResults(skill) == IF skill = "generate-embeddings" THEN {"answered"} ELSE {"answered", "refused"}
SkillCalls(k) ==        \* no transaction is open; unusable: cut off, or not the JSON asked for
    /\ runs[k].task = "read"
    /\ \E result \in SkillResults(runs[k].skill) : Moves(k, result)
    /\ TaskLeaves /\ UNCHANGED <<status, validations, answers, pack, derived, mishaps>>
SkillRefused(k) ==
    /\ runs[k].task = "refused" /\ Closes(k, "failed")
    /\ TaskLeaves /\ UNCHANGED <<status, validations, answers, pack, derived, mishaps>>

Usable(k, skill) == exists /\ runs[k].task = "answered" /\ runs[k].skill = skill
AnyTransition(st) == TRUE
PackTransition(st) == st = "validated_by_client"      \* patch_if's expected status
ContextPackWrites(k) ==
    /\ Usable(k, "context-pack")
    /\ IF PackTransition(status)
       THEN pack' = k /\ Becomes("decomposed") /\ Closes(k, "succeeded")
       ELSE Closes(k, "failed") /\ UNCHANGED <<pack, status, validations>>
    /\ TaskLeaves /\ UNCHANGED <<answers, derived, mishaps>>
StructureWrites(k) ==   \* an upsert the write policy does not see
    /\ Usable(k, "structure-answers") /\ Closes(k, "succeeded")
    /\ \E x \in Extractions : answers' = Over(x, answers)
    /\ TaskLeaves /\ UNCHANGED <<status, validations, pack, derived, mishaps>>
Stores(k, skill) ==
    /\ Usable(k, skill) /\ derived' = derived \cup {skill} /\ Closes(k, "succeeded")
    /\ TaskLeaves /\ UNCHANGED <<status, validations, answers, pack, mishaps>>
InsightsWrites(k) == Stores(k, "extract-insights")          \* beside the earlier ones
EmbeddingsWrites(k) == Stores(k, "generate-embeddings")     \* likewise, and marks the artifacts done
TranscriptWrites(k) == Stores(k, "transcribe-audio")        \* in place of the source's earlier chunks
ApplyWrites(k) ==       \* the run's own output is all it writes
    /\ Usable(k, "apply-intake-skill") /\ Closes(k, "succeeded")
    /\ TaskLeaves /\ UNCHANGED <<status, validations, answers, pack, derived, mishaps>>
Orphaned(k) ==          \* a child row of an intake that is gone: the foreign key refuses it
    /\ ~exists /\ runs[k].task = "answered" /\ Moves(k, "failing")
    /\ TaskLeaves /\ UNCHANGED <<status, validations, answers, pack, derived, mishaps>>

SkillFails(k) ==        \* any step raises; its transaction is rolled back
    /\ runs[k].task \in {"queued", "read", "answered", "refused"} /\ mishaps < MaxMishaps
    /\ Moves(k, "failing") /\ mishaps' = mishaps + 1
    /\ TaskLeaves /\ UNCHANGED <<status, validations, answers, pack, derived>>
OnError(k) ==           \* in a session of its own
    /\ runs[k].task = "failing" /\ Closes(k, "failed")
    /\ TaskLeaves /\ UNCHANGED <<status, validations, answers, pack, derived, mishaps>>
Runs(k, skill) ==
    /\ runs[k].skill = skill
    /\ SkillReads(k) \/ SkillCalls(k) \/ SkillRefused(k) \/ Orphaned(k) \/ SkillFails(k) \/ OnError(k)
RunContextPack(k) == Runs(k, "context-pack") \/ ContextPackWrites(k)
RunStructureAnswers(k) == Runs(k, "structure-answers") \/ StructureWrites(k)
RunExtractInsights(k) == Runs(k, "extract-insights") \/ InsightsWrites(k)
RunEmbeddings(k) == Runs(k, "generate-embeddings") \/ EmbeddingsWrites(k)
RunTranscribe(k) == Runs(k, "transcribe-audio") \/ TranscriptWrites(k)
RunApplyIntakeSkill(k) == Runs(k, "apply-intake-skill") \/ ApplyWrites(k)
Task(k) ==
    \/ RunContextPack(k) \/ RunStructureAnswers(k) \/ RunExtractInsights(k)
    \/ RunEmbeddings(k) \/ RunTranscribe(k) \/ RunApplyIntakeSkill(k)

Live == {"queued", "read", "answered", "refused", "failing"}
InstanceDies ==         \* with its tasks and open transactions; nothing half-done is committed
    /\ mishaps < MaxMishaps /\ mishaps' = mishaps + 1
    /\ \E dead \in SUBSET {k \in DOMAIN runs : runs[k].task \in Live}, cut \in SUBSET Caller :
        /\ runs' = [k \in DOMAIN runs |-> IF k \in dead THEN [runs[k] EXCEPT !.task = "lost"] ELSE runs[k]]
        /\ request' = [c \in Caller |-> IF c \in cut THEN Resting ELSE request[c]]
    /\ UNCHANGED <<statusVars, derived, requests>>
SweepAtStartup ==       \* of any instance: rows older than half an hour, live tasks or not
    /\ \E n \in DOMAIN runs :
        /\ \E k \in 1 .. n : runs[k].st = "running"
        /\ runs' = [k \in DOMAIN runs |->
                IF k <= n /\ runs[k].st = "running" THEN [runs[k] EXCEPT !.st = "failed"] ELSE runs[k]]
    /\ UNCHANGED <<statusVars, derived, request, requests, mishaps>>

XNext ==
    \/ \E c \in Caller : Arrives(c) \/ Answers(c)
    \/ \E s \in Skills : Dispatch(s)
    \/ \E k \in DOMAIN runs : Task(k)
    \/ TriggerResearch \/ ResearchEnds \/ InstanceDies \/ SweepAtStartup

XSpec == XInit /\ [][XNext]_xvars

---------------------------------------------------------------------------
(* However many packs are generated side by side and however often verbs      *)
(* overwrite each other's status, a client's validation is decomposed into    *)
(* at most one context pack: the pack's transition compares and swaps.        *)
OnePackPerValidation ==
    Cardinality({k \in DOMAIN runs : runs[k].skill = "context-pack" /\ runs[k].st = "succeeded"}) <= validations
=============================================================================
