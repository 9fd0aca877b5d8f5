--------------------------- MODULE TribunalPipeline ---------------------------
(***************************************************************************)
(* One run through the engine's stages, over the executions it takes:      *)
(* which stage follows which, what is written out on the way and what a    *)
(* later execution reads back, where a run parks, stops or waits for the   *)
(* client, what it notes against itself and which status comes of it.      *)
(* The stages' own work is in the modules of the stages.                   *)
(***************************************************************************)
EXTENDS Integers, FiniteSets

CONSTANTS
    Workshopped,    \* results of the question workshop: [plan, fallback, trimmed]
    AngleNo,        \* the angles of a plan
    MaxStarts,      \* executions
    MaxTroubles     \* lost reads and writes, walls, errors, deaths

(* A plan has finitely many angles.                                           *)
ASSUME PipelineAssumption == IsFiniteSet(AngleNo)

VARIABLES
    runStatus,      \* run.status
    runStage,       \* the tracked stage of the execution, "rewrite" on the cached path, "none" outside
    brief,          \* [interactive, decided]: the report is to be shaped, a decision is stated
    outputs,        \* the latest rows of output: workshop, research, park, bundle; and the report_spec
    checkpoints,    \* the checkpoints this execution loaded
    now,            \* what this execution has in memory
    yields,         \* angle -> its rows of assignment_yield, and the execution that completed them
    result,         \* what the last execution to write a report returned: <<>> or <<it>>
    starts, troubles

pvars == <<runStatus, runStage, brief, outputs, checkpoints, now, yields, result, starts, troubles>>
asked == <<brief, yields, result, starts>>

Absent == <<>>
NoCheckpoints == [workshop |-> Absent, research |-> [digest |-> "none", found |-> Absent],
                  park |-> [seq |-> 0, sign |-> "none"]]
NoDraft == [plan |-> "none", fallback |-> FALSE, trimmed |-> FALSE]
Blank == [draft |-> NoDraft, found |-> Absent, notes |-> {}, ran |-> TRUE, unchecked |-> FALSE, blocked |-> FALSE]
PInit ==
    /\ runStatus = "queued" /\ runStage = "none" /\ brief \in [interactive : BOOLEAN, decided : BOOLEAN]
    /\ outputs = [workshop |-> Absent, research |-> NoCheckpoints.research,
                  park |-> NoCheckpoints.park, bundle |-> Absent, spec |-> FALSE]
    /\ checkpoints = NoCheckpoints
    /\ now = Blank /\ yields = [a \in AngleNo |-> [rows |-> 0, by |-> 0]]
    /\ result = Absent /\ starts = 0 /\ troubles = 0

Trouble(n) == troubles + n <= MaxTroubles /\ troubles' = troubles + n
(* A row that cannot be written is logged; the stage goes on without it.      *)
Put(key, value) ==
    \/ outputs' = [outputs EXCEPT ![key] = value] /\ UNCHANGED troubles
    \/ Trouble(1) /\ UNCHANGED outputs
Note(noted, reasons) == [noted EXCEPT !.notes = @ \cup reasons]

(* raise_if_cancelled: a stage that asks it goes on only while the run runs.  *)
GoesOn(at) == runStage = at /\ runStatus = "running"
Settles(to) == runStatus' = IF runStatus = "running" THEN to ELSE runStatus     \* the fence of every last write
Leaves == runStage' = "none" /\ now' = Blank /\ checkpoints' = NoCheckpoints

---------------------------------------------------------------------------
(* A run whose report was shaped and whose bundle is there is only written.   *)
(* Any other loads its checkpoints: an unreadable one counts as absent.       *)
FromCache ==
    /\ runStatus = "queued" /\ starts < MaxStarts /\ outputs.spec /\ outputs.bundle # Absent
    /\ runStatus' = "running" /\ starts' = starts + 1 /\ runStage' = "rewrite"
    /\ now' = outputs.bundle[1]
    /\ UNCHANGED <<brief, outputs, checkpoints, yields, result, troubles>>
Unread(key, lost) == IF key \in lost THEN NoCheckpoints[key] ELSE outputs[key]
LoadCheckpoints ==
    /\ runStatus = "queued" /\ starts < MaxStarts
    /\ \E lost \in SUBSET {"cache", "workshop", "research", "park"} :
          /\ outputs.spec /\ outputs.bundle # Absent => "cache" \in lost
          /\ Trouble(Cardinality(lost))
          /\ checkpoints' = [key \in DOMAIN NoCheckpoints |-> Unread(key, lost)]
    /\ runStatus' = "running" /\ starts' = starts + 1 /\ runStage' = "intake" /\ now' = Blank
    /\ UNCHANGED <<brief, outputs, yields, result>>

(* The workshop is bought once; what it fell short of comes with its result.  *)
NotesWhenFresh(d) == IF checkpoints.workshop = Absent /\ d.fallback THEN {"workshop"} ELSE {}
NotesOfWorkshop(d) == IF d.fallback THEN {"workshop"} ELSE {}
NotesOfBrief == IF brief.decided THEN {} ELSE {"decision"}
QuestionWorkshop ==
    /\ runStage = "intake" /\ runStage' = "research_division"
    /\ \E d \in Workshopped :
          /\ checkpoints.workshop # Absent => checkpoints.workshop = <<d>>
          /\ now' = Note([now EXCEPT !.draft = d], NotesOfWorkshop(d) \cup NotesOfBrief)
          /\ IF checkpoints.workshop = Absent THEN Put("workshop", <<d>>) ELSE UNCHANGED <<outputs, troubles>>
    /\ UNCHANGED <<runStatus, asked, checkpoints>>

(* Recorded results are taken up only under the digest of these very angles.  *)
RestoreAny(recorded, plan) == recorded.found
RestoreForTheseAngles(recorded, plan) == IF recorded.digest = plan THEN recorded.found ELSE Absent
DarkStreams == {"own stream"}       \* the stream without a key or with an open circuit
DivideAngles ==
    /\ GoesOn("research_division") /\ runStage' = "deep_research"
    /\ \E dark \in SUBSET DarkStreams :
          now' = Note([now EXCEPT !.found = RestoreForTheseAngles(checkpoints.research, now.draft.plan)],
                      dark \cup (IF now.draft.trimmed THEN {"trim"} ELSE {}))
    /\ UNCHANGED <<runStatus, outputs, checkpoints, asked, troubles>>

RecordAngle(a) ==
    /\ runStage = "deep_research" /\ a \notin DOMAIN now.found
    /\ LET found == [x \in DOMAIN now.found \cup {a} |-> IF x = a THEN now.draft.plan ELSE now.found[x]]
       IN  /\ now' = [now EXCEPT !.found = found]
           /\ Put("research", [digest |-> now.draft.plan, found |-> found])
    /\ UNCHANGED <<runStatus, runStage, checkpoints, asked>>

(* A park says where and why; the same park twice keeps its number.           *)
NextParkSeq(sign) == IF checkpoints.park.sign = sign THEN checkpoints.park.seq ELSE checkpoints.park.seq + 1
ParkAt(sign, n) ==      \* after n troubles; the row of the park may be one more
    /\ Settles("parked") /\ Leaves
    /\ \/ Trouble(n) /\ outputs' = [outputs EXCEPT !.park = [seq |-> NextParkSeq(sign), sign |-> sign]]
       \/ Trouble(n + 1) /\ UNCHANGED outputs
AnglesReturn ==         \* every angle has returned: the ones not found are lost
    /\ runStage = "deep_research"
    /\ IF now.found = Absent
       THEN ParkAt("deep_research", 0)
       ELSE runStage' = "distill" /\ UNCHANGED <<runStatus, outputs, checkpoints, now, troubles>>
    /\ UNCHANGED asked

---------------------------------------------------------------------------
(* terminal_state: parked when no honest deliverable is possible, degraded    *)
(* when anything is named or a stream is lost.                                *)
TerminalState(lost, total, ran, reasons) ==
    IF lost >= total \/ ~ran THEN "parked" ELSE IF reasons # {} \/ lost > 0 THEN "completed_degraded" ELSE "completed"
Lost(found) == Cardinality(AngleNo \ DOMAIN found)
WorkerReasons(r) == r.notes \cup (IF r.unchecked THEN {"unchecked"} ELSE {})
Finishes(r, claims, lost, ran) ==
    /\ Settles(TerminalState(lost, Cardinality(AngleNo), ran, WorkerReasons(r))) /\ Leaves
    /\ result' = IF runStatus = "running" THEN <<[claims |-> claims, basis |-> r]>> ELSE result

Distill ==
    /\ runStage = "distill"
    /\ \/ runStage' = "merge" /\ UNCHANGED <<runStatus, checkpoints, now, result>>
       \/ Finishes(now, FALSE, 0, TRUE)            \* no claims: its result carries no terminal inputs
    /\ UNCHANGED <<brief, outputs, yields, starts, troubles>>

(* The merged claims are attributed to the assignments that found them: a row *)
(* each, which the survivors' count completes after the conflict pass.  The   *)
(* key has no execution in it, so a completion reaches every row of the angle.*)
AssignmentYieldRows == DOMAIN now.found
RecordAssignments(S) == [a \in AngleNo |-> IF a \in S THEN [yields[a] EXCEPT !.rows = @ + 1] ELSE yields[a]]
CompleteAssignments(S) ==
    [a \in AngleNo |-> IF a \in S /\ yields[a].rows > 0 THEN [yields[a] EXCEPT !.by = starts] ELSE yields[a]]
RowsLost(lost) == Trouble(Cardinality(lost))   \* not built or not written: the run goes on without them
MergeClaims ==
    /\ GoesOn("merge") /\ runStage' = "gate"
    /\ \E lost \in SUBSET AssignmentYieldRows :
          RowsLost(lost) /\ yields' = RecordAssignments(AssignmentYieldRows \ lost)
    /\ UNCHANGED <<runStatus, brief, outputs, checkpoints, now, result, starts>>
Gates ==
    /\ GoesOn("gate") /\ runStage' = "verify" /\ \E ran \in BOOLEAN : now' = [now EXCEPT !.ran = ran]
    /\ UNCHANGED <<runStatus, outputs, checkpoints, asked, troubles>>
Verify ==
    /\ GoesOn("verify") /\ runStage' = "coverage" /\ \E u \in BOOLEAN : now' = [now EXCEPT !.unchecked = u]
    /\ UNCHANGED <<runStatus, outputs, checkpoints, asked, troubles>>
Coverage ==             \* what is uncovered is checked once more, unless the circuit is not closed
    /\ runStage = "coverage" /\ runStage' = "conflict"
    /\ \/ UNCHANGED now
       \/ now.unchecked /\ now' = [now EXCEPT !.unchecked = FALSE]
       \/ now.unchecked /\ now' = Note([now EXCEPT !.blocked = TRUE], {"recheck"})
    /\ UNCHANGED <<runStatus, outputs, checkpoints, asked, troubles>>
CompleteYields ==
    /\ runStage = "conflict" /\ runStage' = "synthesize"
    /\ \E lost \in SUBSET AssignmentYieldRows :
          RowsLost(lost) /\ yields' = CompleteAssignments(AssignmentYieldRows \ lost)
    /\ UNCHANGED <<runStatus, brief, outputs, checkpoints, now, result, starts>>

(* The bundle is all a later execution needs to write the report.             *)
BundleUp ==
    /\ GoesOn("synthesize") /\ Put("bundle", <<now>>)
    /\ IF brief.interactive THEN Leaves /\ Settles("needs_report_spec")
                            ELSE runStage' = "done" /\ UNCHANGED <<runStatus, checkpoints, now>>
    /\ UNCHANGED asked
WriteFinalReport ==
    /\ runStage \in {"done", "rewrite"} /\ Finishes(now, TRUE, Lost(now.found), now.ran)
    /\ UNCHANGED <<brief, outputs, yields, starts, troubles>>

---------------------------------------------------------------------------
(* A hard wall parks the run, unless it is only being rewritten; any other    *)
(* error fails it; a death leaves it to be claimed again.                     *)
HitsWall ==
    /\ runStage # "none"
    /\ IF runStage = "rewrite" THEN Trouble(1) /\ Settles("failed") /\ Leaves /\ UNCHANGED outputs
                            ELSE ParkAt(runStage, 1)
    /\ UNCHANGED asked
Errs ==
    /\ runStage # "none" /\ Trouble(1) /\ Settles("failed") /\ Leaves
    /\ UNCHANGED <<outputs, asked>>
Dies ==
    /\ runStage # "none" /\ Trouble(1) /\ Settles("queued") /\ Leaves
    /\ UNCHANGED <<outputs, asked>>
StopsCancelled ==
    /\ runStage \in {"research_division", "merge", "gate", "verify", "synthesize"} /\ runStatus = "cancelled"
    /\ Leaves /\ UNCHANGED <<runStatus, outputs, asked, troubles>>

(* The people around it: a cancel, the client's report shape, a resume.       *)
CancelRun ==
    /\ runStatus \in {"queued", "running"} /\ Trouble(1) /\ runStatus' = "cancelled"
    /\ UNCHANGED <<runStage, outputs, checkpoints, now, asked>>
AnswerSpec ==
    /\ runStatus = "needs_report_spec" /\ runStatus' = "queued" /\ outputs' = [outputs EXCEPT !.spec = TRUE]
    /\ UNCHANGED <<runStage, checkpoints, now, asked, troubles>>
ResumeRun ==
    /\ runStatus = "parked" /\ starts < MaxStarts /\ runStatus' = "queued"
    /\ UNCHANGED <<runStage, outputs, checkpoints, now, asked, troubles>>

PNext ==
    \/ FromCache \/ LoadCheckpoints \/ QuestionWorkshop \/ DivideAngles
    \/ \E a \in AngleNo : RecordAngle(a)
    \/ AnglesReturn \/ Distill \/ MergeClaims \/ Gates \/ Verify \/ Coverage \/ CompleteYields
    \/ BundleUp \/ WriteFinalReport \/ HitsWall \/ Errs \/ Dies \/ StopsCancelled
    \/ CancelRun \/ AnswerSpec \/ ResumeRun
PSpec == PInit /\ [][PNext]_pvars

---------------------------------------------------------------------------
(* A run that is reported as simply completed fell short of nothing: its      *)
(* workshop came to its own result, nothing was trimmed, no stream was lost,  *)
(* its gates ran and every selected claim was checked.  What an execution     *)
(* noted reaches the status through parks, deaths, restored checkpoints and   *)
(* the client's pause (terminal_state, _note_degradation).                    *)
ShortfallIsTold ==
    runStatus = "completed" /\ result # Absent /\ result[1].claims =>
        LET r == result[1].basis
        IN  /\ ~r.draft.fallback /\ ~r.draft.trimmed /\ DOMAIN r.found = AngleNo
            /\ r.ran /\ ~r.unchecked /\ ~r.blocked /\ brief.decided

(* What a report rests on was researched for the questions of this very       *)
(* workshop, whichever checkpoints were lost and bought again on the way      *)
(* (pipeline.py _restore_for_these_angles).                                   *)
ResultsFitThePlan ==
    result # Absent /\ result[1].claims =>
        \A a \in DOMAIN result[1].basis.found : result[1].basis.found[a] = result[1].basis.draft.plan
=============================================================================
