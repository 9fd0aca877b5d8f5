--------------------------- MODULE ResearchMirror ---------------------------
(***************************************************************************)
(* The intake backend's mirror of engine runs: the table `research_runs`   *)
(* of one intake, the operator's verbs (api/research_routes.py), the poll  *)
(* driver each of them schedules (research/run_task.py) and the sweep that *)
(* takes over when a driver is gone (research/reconcile.py).  Up to four   *)
(* API instances run all three; any of them may die at any step.           *)
(*                                                                         *)
(* The engine is reduced to the status its API reports; RunQueue models    *)
(* it.  `completed_degraded` is mirrored as `completed` is, and            *)
(* `needs_report_spec` as `queued`.                                        *)
(*                                                                         *)
(* Two timing facts of the code are guards here: a driver's silence is     *)
(* shorter than ORPHAN_CUTOFF_MINUTES (GoesStale), and, unless MirrorsLate,*)
(* no finalisation fits between a sweep's get_metrics and its UPDATE.      *)
(***************************************************************************)
EXTENDS Integers, FiniteSets

CONSTANTS
  NRow,         \* research_runs rows of the intake, in created_at order
  Driver,       \* poll drivers: one per trigger or resume
  Sweeper,      \* claims in hand across the instances' sweeps
  Caller,       \* operator requests in flight at once
  Emails,       \* {TRUE}: every operator's token has an email; BOOLEAN: not
  Moves,        \* intake statuses that delivery and overrides may set
  MirrorsLate,  \* TRUE: a sweep's mirror UPDATE may land arbitrarily late
  MaxResumes,   \* bound: resumes served per row
  MaxMishaps    \* bound: deaths of drivers, sweeps and requests, and failed
                \* calls of the seam, of the bucket, of the database, of mail

Row == 1 .. NRow

ASSUME MirrorAssumption ==
  /\ NRow \in Nat \ {0} /\ MaxResumes \in Nat
  /\ MaxMishaps \in Nat
  /\ Moves \in SUBSET {"decomposed", "delivered"}
  /\ Emails \in SUBSET BOOLEAN /\ MirrorsLate \in BOOLEAN

VARIABLES
  row,     \* the table, with what finalize_completed persists as `delivered`
  intake,  \* the intake's status, one a run may start from
  eng,     \* the status of the engine's run of each row
  drv,     \* poll drivers
  swp,     \* sweeps, each with the row it claimed
  req,     \* operator requests
  mishaps, \* deaths and failed calls so far
  resumes, \* observation: resumes of each row
  finals,  \* observation: terminal writes of each row
  told     \* observation: whether a completion was mailed for each row

actors  == <<drv, swp, req>>
history == <<resumes, finals, told>>
vars    == <<row, intake, eng, drv, swp, req, mishaps,
             resumes, finals, told>>

-----------------------------------------------------------------------------
(* Statuses and rows.                                                      *)

InFlight == {"queued", "running"}
Terminal == {"completed", "failed", "cancelled", "parked"}
Status   == InFlight \cup Terminal \cup {"none"}

(* eid: tribunal_run_id is set; beat: driver_heartbeat_at (or created_at)  *)
(* is younger than the cutoff; lease: reconcile_lease_until is ahead;      *)
(* actor: acting_email is set; delivered: report, verdict and bundle.      *)
RowType == [status : Status, eid : BOOLEAN, beat : BOOLEAN, lease : BOOLEAN,
            actor : BOOLEAN, delivered : BOOLEAN]

Exists(r) == row[r].status # "none"
Latest(r) == Exists(r) /\ \A s \in Row : Exists(s) => s <= r

(* uq_research_runs_one_inflight_per_intake lets row r take the status.    *)
AdmitsAny(r, status) == status \in Status
Admits(r, status) ==
  status \in InFlight => \A s \in Row \ {r} : row[s].status \notin InFlight

DriverState == [pc : {"off", "start", "poll", "tick", "write", "mail", "error"},
                row : Row, seen : Status]
SweepState == [pc : {"idle", "ask", "mirror", "clear", "swap", "mail"},
               row : Row, was : Status, seen : Status]
(* The intake statuses a run may start from.                               *)
Startable == {"decomposed", "in_research", "delivered"}
RequestState == [pc : {"idle", "trigger", "schedule", "resume", "requeue",
                       "cancel", "stamp"},
                 row : Row, seen : Status, prior : Status \cup Startable]

Off   == [pc |-> "off", row |-> 1, seen |-> "none"]
NoJob == [pc |-> "idle", row |-> 1, was |-> "none", seen |-> "none"]
NoReq == [pc |-> "idle", row |-> 1, prior |-> "none", seen |-> "none"]

Init ==
  /\ row = [r \in Row |-> [status |-> "none", eid |-> FALSE, beat |-> TRUE,
                           lease |-> FALSE, actor |-> FALSE,
                           delivered |-> FALSE]]
  /\ intake = "decomposed"
  /\ eng = [r \in Row |-> "none"]
  /\ drv = [d \in Driver |-> Off]
  /\ swp = [s \in Sweeper |-> NoJob]
  /\ req = [c \in Caller |-> NoReq]
  /\ mishaps = 0
  /\ resumes = [r \in Row |-> 0]
  /\ finals = [r \in Row |-> 0]
  /\ told = [r \in Row |-> FALSE]

(* A driver or request that has work on row r in hand.                     *)
Driving(d, r) == drv[d].row = r /\ drv[d].pc # "off"
Alive(r)      == \E d \in Driver : Driving(d, r)
Coming(r)     == \E c \in Caller : req[c].pc = "schedule" /\ req[c].row = r
Attended(r)   == \/ Alive(r)
                 \/ \E s \in Sweeper : swp[s].pc # "idle" /\ swp[s].row = r
                 \/ \E c \in Caller : req[c].pc # "idle" /\ req[c].row = r

Mishap == mishaps < MaxMishaps /\ mishaps' = mishaps + 1

-----------------------------------------------------------------------------
(* What the mirror writes.                                                 *)

(* A trigger's or a resume's: the status and the acting human.             *)
Requested(rw, a) == [rw EXCEPT !.status = "queued", !.actor = a]

(* mirror_tick: the engine's status verbatim, the run id, the heartbeat.   *)
Mirrored(rw, status) ==
  [rw EXCEPT !.status = status, !.eid = TRUE, !.beat = TRUE]

(* finalize_completed persists the report, the verdict and the bundle;     *)
(* finalize_parked and finalize_failed only the status.                    *)
Finalised(rw, status) ==
  [rw EXCEPT !.status = status, !.delivered = @ \/ status = "completed"]

Finalise(r, status, lease) ==
  /\ row' = [row EXCEPT ![r] = [Finalised(@, status) EXCEPT !.lease = lease]]
  /\ finals' = [finals EXCEPT ![r] = @ + 1]

(* resend.send; only a completion's mail is observed.                      *)
Mail(r, status) == told' = [told EXCEPT ![r] = @ \/ status = "completed"]

-----------------------------------------------------------------------------
(* The operator's verbs.                                                   *)

(* trigger_research reads the intake and its runs; a rerun needs an        *)
(* earlier run and none in flight.  The verb is a superadmin's, whom       *)
(* _attempt_cap_reached never caps.                                        *)
TriggerReads(c) ==
  /\ req[c].pc = "idle"
  /\ \E r \in Row : ~Exists(r)
  /\ intake # "decomposed" => /\ \E r \in Row : Exists(r)
                             /\ \A r \in Row : row[r].status \notin InFlight
  /\ req' = [req EXCEPT ![c] = [NoReq EXCEPT !.pc = "trigger",
                                             !.prior = intake]]
  /\ UNCHANGED <<row, intake, eng, drv, swp, mishaps, history>>

(* ... then compares and swaps the intake's status and inserts the row in  *)
(* one transaction; the unique index refuses a second row in flight.  A    *)
(* delivered intake stays delivered.                                       *)
TriggerWrites(c) ==
  /\ req[c].pc = "trigger"
  /\ \/ \E r \in Row, a \in Emails :
          /\ ~Exists(r) /\ \A s \in Row : s < r => Exists(s)
          /\ intake = req[c].prior /\ Admits(r, "queued")
          /\ row' = [row EXCEPT ![r] = Requested(@, a)]
          /\ intake' = IF intake = "decomposed" THEN "in_research" ELSE intake
          /\ req' = [req EXCEPT ![c] = [NoReq EXCEPT !.pc = "schedule",
                                                     !.row = r]]
     \/ /\ \/ intake # req[c].prior
           \/ \E r \in Row : ~Exists(r) /\ ~Admits(r, "queued")
        /\ req' = [req EXCEPT ![c] = NoReq]
        /\ UNCHANGED <<row, intake>>
  /\ UNCHANGED <<eng, drv, swp, mishaps, history>>

(* background.add_task(run_poll_driver), after the commit.                 *)
Schedule(c) ==
  /\ req[c].pc = "schedule"
  /\ \E d \in Driver :
       /\ drv[d].pc = "off"
       /\ drv' = [drv EXCEPT ![d] = [Off EXCEPT !.pc = "start",
                                                !.row = req[c].row]]
  /\ req' = [req EXCEPT ![c] = NoReq]
  /\ UNCHANGED <<row, intake, eng, swp, mishaps, history>>

(* resume_research: reads the latest row, asks the engine, patches the row *)
(* -- its status, its message and its actor, not its heartbeat.            *)
ResumeReads(c) ==
  /\ req[c].pc = "idle"
  /\ \E r \in Row :
       /\ Latest(r) /\ row[r].status = "parked" /\ row[r].eid
       /\ resumes[r] < MaxResumes
       /\ req' = [req EXCEPT ![c] = [NoReq EXCEPT !.pc = "resume", !.row = r]]
  /\ UNCHANGED <<row, intake, eng, drv, swp, mishaps, history>>

ResumeCalls(c) ==
  /\ req[c].pc = "resume"
  /\ LET r == req[c].row IN
       \/ /\ eng[r] = "parked"
          /\ eng' = [eng EXCEPT ![r] = "queued"]
          /\ resumes' = [resumes EXCEPT ![r] = @ + 1]
          /\ req' = [req EXCEPT ![c].pc = "requeue"]
       \/ /\ eng[r] # "parked"
          /\ req' = [req EXCEPT ![c] = NoReq]
          /\ UNCHANGED <<eng, resumes>>
  /\ UNCHANGED <<row, intake, drv, swp, mishaps, finals, told>>

ResumePatches(c) ==
  /\ req[c].pc = "requeue"
  /\ LET r == req[c].row IN
       \/ /\ Admits(r, "queued")
          /\ \E a \in Emails :
               row' = [row EXCEPT ![r] = Requested(@, a)]
          /\ req' = [req EXCEPT ![c] = [NoReq EXCEPT !.pc = "schedule",
                                                     !.row = r]]
       \/ /\ ~Admits(r, "queued")
          /\ req' = [req EXCEPT ![c] = NoReq]
          /\ UNCHANGED row
  /\ UNCHANGED <<intake, eng, drv, swp, mishaps, history>>

(* cancel_research: echoes what the engine answers, when it is news.       *)
CancelReads(c) ==
  /\ req[c].pc = "idle"
  /\ \E r \in Row :
       /\ Latest(r) /\ row[r].eid
       /\ req' = [req EXCEPT ![c] = [NoReq EXCEPT !.pc = "cancel", !.row = r,
                                                  !.prior = row[r].status]]
  /\ UNCHANGED <<row, intake, eng, drv, swp, mishaps, history>>

CancelCalls(c) ==
  /\ req[c].pc = "cancel"
  /\ LET r   == req[c].row
         now == IF eng[r] \in InFlight \cup {"parked"}
                THEN "cancelled" ELSE eng[r]
     IN  /\ eng' = [eng EXCEPT ![r] = now]
         /\ req' = [req EXCEPT ![c].pc = "stamp", ![c].seen = now]
  /\ UNCHANGED <<row, intake, drv, swp, mishaps, history>>

CancelPatches(c) ==
  /\ req[c].pc = "stamp"
  /\ row' = [row EXCEPT ![req[c].row].status =
               IF req[c].seen # req[c].prior THEN req[c].seen ELSE @]
  /\ req' = [req EXCEPT ![c] = NoReq]
  /\ UNCHANGED <<intake, eng, drv, swp, mishaps, history>>

(* deliver_report and override_status move the intake's status whatever    *)
(* its runs do.  The statuses no run starts from are left out, and so are  *)
(* moves that no trigger can meet, all rows being taken.                   *)
IntakeMoves ==
  /\ \E r \in Row : ~Exists(r)
  /\ \E status \in Moves : intake' = status
  /\ UNCHANGED <<row, eng, actors, mishaps, history>>

(* The instance serving the request dies.                                  *)
RequestDies(c) ==
  /\ req[c].pc # "idle" /\ Mishap
  /\ req' = [req EXCEPT ![c] = NoReq]
  /\ UNCHANGED <<row, intake, eng, drv, swp, history>>

Request(c) == \/ TriggerReads(c) \/ ResumeReads(c) \/ CancelReads(c)
Serve(c)   == \/ TriggerWrites(c) \/ Schedule(c)
              \/ ResumeCalls(c) \/ ResumePatches(c)
              \/ CancelCalls(c) \/ CancelPatches(c)

-----------------------------------------------------------------------------
(* run_poll_driver.                                                        *)

Goes(d, pc) == drv' = [drv EXCEPT ![d].pc = pc]
Leaves(d)   == drv' = [drv EXCEPT ![d] = Off]

(* ensure_org, ensure_project, create_run: the idempotency key is the      *)
(* row's, so a second driver of the row gets the run the first created.    *)
(* The seam refuses an actor without an email.                             *)
DriverOpens(d) ==
  /\ drv[d].pc = "start"
  /\ LET r == drv[d].row IN
       \/ /\ row[r].actor
          /\ eng' = [eng EXCEPT ![r] = IF @ = "none" THEN "queued"
                                              ELSE @]
          /\ Goes(d, "poll")
       \/ ~row[r].actor /\ Goes(d, "error") /\ UNCHANGED eng
  /\ UNCHANGED <<row, intake, swp, req, mishaps, history>>

(* get_metrics answers.                                                    *)
DriverReads(d) ==
  /\ drv[d].pc = "poll"
  /\ drv' = [drv EXCEPT ![d].pc = "tick", ![d].seen = eng[drv[d].row]]
  /\ UNCHANGED <<row, intake, eng, swp, req, mishaps, history>>

(* The 5xx or the 401/403 budget is spent: a `failed` of the driver's own. *)
DriverGivesUp(d) ==
  /\ drv[d].pc = "poll" /\ Mishap
  /\ drv' = [drv EXCEPT ![d].pc = "write", ![d].seen = "failed"]
  /\ UNCHANGED <<row, intake, eng, swp, req, history>>

(* mirror_tick, before the status is tested for being terminal.            *)
DriverTicks(d) ==
  /\ drv[d].pc = "tick"
  /\ LET r == drv[d].row  seen == drv[d].seen IN
       \/ /\ Admits(r, seen)
          /\ row' = [row EXCEPT ![r] = Mirrored(@, seen)]
          /\ IF seen \in Terminal THEN Goes(d, "write")
             ELSE drv' = [drv EXCEPT ![d].pc = "poll", ![d].seen = "none"]
       \/ ~Admits(r, seen) /\ Goes(d, "error") /\ UNCHANGED row
  /\ UNCHANGED <<intake, eng, swp, req, mishaps, history>>

(* build_completion, which touches no row, and write_fn.                   *)
DriverWrites(d) ==
  /\ drv[d].pc = "write"
  /\ Finalise(drv[d].row, drv[d].seen, row[drv[d].row].lease)
  /\ Goes(d, "mail")
  /\ UNCHANGED <<intake, eng, swp, req, mishaps, resumes, told>>

(* The mail goes out after the commit and its failure is swallowed.        *)
DriverMailRaises(d) ==
  /\ drv[d].pc = "mail"
  /\ \/ Mail(drv[d].row, drv[d].seen) /\ UNCHANGED mishaps /\ Leaves(d)
     \/ Mishap /\ UNCHANGED told /\ Goes(d, "error")
  /\ UNCHANGED <<row, intake, eng, swp, req, resumes, finals>>
DriverMails(d) ==
  /\ drv[d].pc = "mail"
  /\ \/ Mail(drv[d].row, drv[d].seen) /\ UNCHANGED mishaps
     \/ Mishap /\ UNCHANGED told
  /\ Leaves(d)
  /\ UNCHANGED <<row, intake, eng, swp, req, resumes, finals>>

(* Any exception of the read, the call or the write goes to on_error.      *)
DriverFaults(d) ==
  /\ drv[d].pc \in {"start", "poll", "tick", "write"} /\ Mishap
  /\ Goes(d, "error")
  /\ UNCHANGED <<row, intake, eng, swp, req, history>>

(* on_error: `failed`, whatever the row or the engine says.                *)
DriverRelabels(d) ==
  /\ drv[d].pc = "error"
  /\ \/ /\ Finalise(drv[d].row, "failed", row[drv[d].row].lease)
        /\ UNCHANGED mishaps
     \/ Mishap /\ UNCHANGED <<row, finals>>
  /\ Leaves(d)
  /\ UNCHANGED <<intake, eng, swp, req, resumes, told>>

DriverDies(d) ==
  /\ drv[d].pc # "off" /\ Mishap
  /\ Leaves(d)
  /\ UNCHANGED <<row, intake, eng, swp, req, history>>

Drive(d) == \/ DriverOpens(d) \/ DriverReads(d) \/ DriverTicks(d)
            \/ DriverWrites(d) \/ DriverMails(d) \/ DriverRelabels(d)

-----------------------------------------------------------------------------
(* The sweep.                                                              *)

(* The claim's filter.                                                     *)
OrphanedRunning(r) == row[r].status = "running" /\ ~row[r].lease /\ ~row[r].beat
Orphaned(r) ==
  row[r].status \in InFlight /\ ~row[r].lease /\ ~row[r].beat

(* claim_orphans, one committed UPDATE that returns the row as it was;     *)
(* without an actor or an engine run on it, it is skipped, lease and all.  *)
SweepClaims(s) ==
  /\ swp[s].pc = "idle"
  /\ \E r \in Row :
       /\ Orphaned(r)
       /\ row' = [row EXCEPT ![r].lease = TRUE]
       /\ swp' = IF row[r].actor /\ row[r].eid
                 THEN [swp EXCEPT ![s] = [NoJob EXCEPT !.pc = "ask", !.row = r,
                                                       !.was = row[r].status]]
                 ELSE swp
  /\ UNCHANGED <<intake, eng, drv, req, mishaps, history>>

(* get_metrics answers.                                                    *)
SweepAsks(s) ==
  /\ swp[s].pc = "ask"
  /\ LET seen == eng[swp[s].row] IN
       swp' = [swp EXCEPT ![s].seen = seen,
                          ![s].pc = IF seen \in Terminal THEN "swap"
                                    ELSE "mirror"]
  /\ UNCHANGED <<row, intake, eng, drv, req, mishaps, history>>

(* mirror_tick, not compared and swapped.                                  *)
SweepMirrors(s) ==
  /\ swp[s].pc = "mirror"
  /\ LET r == swp[s].row  seen == swp[s].seen IN
       \/ /\ Admits(r, seen)
          /\ row' = [row EXCEPT ![r] = Mirrored(@, seen)]
          /\ swp' = [swp EXCEPT ![s] = [NoJob EXCEPT !.pc = "clear", !.row = r]]
       \/ /\ ~Admits(r, seen)
          /\ swp' = [swp EXCEPT ![s] = NoJob]
          /\ UNCHANGED row
  /\ UNCHANGED <<intake, eng, drv, req, mishaps, history>>

(* _clear_lease, which swallows its own failure.                           *)
SweepClears(s) ==
  /\ swp[s].pc = "clear"
  /\ \/ row' = [row EXCEPT ![swp[s].row].lease = FALSE] /\ UNCHANGED mishaps
     \/ Mishap /\ UNCHANGED row
  /\ swp' = [swp EXCEPT ![s] = NoJob]
  /\ UNCHANGED <<intake, eng, drv, req, history>>

(* The row still has the status it was claimed with (patch_if).            *)
UnmovedAlways(s) == TRUE
Unmoved(s)       == row[swp[s].row].status = swp[s].was

(* The completion is built if the row has none yet; then the terminal      *)
(* write and the lease, in the transaction of the compare-and-swap.  A     *)
(* sweep that lost it writes nothing and leaves the lease.                 *)
SweepMailsRegardless(s) ==
  /\ swp[s].pc = "swap"
  /\ \/ Unmoved(s) /\ Finalise(swp[s].row, swp[s].seen, FALSE)
     \/ ~Unmoved(s) /\ UNCHANGED <<row, finals>>
  /\ swp' = [swp EXCEPT ![s].pc = "mail"]
  /\ UNCHANGED <<intake, eng, drv, req, mishaps, resumes, told>>
SweepSwaps(s) ==
  /\ swp[s].pc = "swap"
  /\ MirrorsLate \/ \A t \in Sweeper : swp[t].pc # "mirror"
                                       \/ swp[t].row # swp[s].row
  /\ \/ /\ Unmoved(s)
        /\ Finalise(swp[s].row, swp[s].seen, FALSE)
        /\ swp' = [swp EXCEPT ![s].pc = "mail"]
     \/ /\ ~Unmoved(s)
        /\ swp' = [swp EXCEPT ![s] = NoJob]
        /\ UNCHANGED <<row, finals>>
  /\ UNCHANGED <<intake, eng, drv, req, mishaps, resumes, told>>

SweepMails(s) ==
  /\ swp[s].pc = "mail"
  /\ \/ Mail(swp[s].row, swp[s].seen) /\ UNCHANGED mishaps
     \/ Mishap /\ UNCHANGED told
  /\ swp' = [swp EXCEPT ![s] = NoJob]
  /\ UNCHANGED <<row, intake, eng, drv, req, resumes, finals>>

(* reconcile_one never raises: the row keeps its lease, unless it was the  *)
(* engine that answered with no metrics, when it is given back.            *)
SweepFaults(s) ==
  /\ swp[s].pc \in {"ask", "mirror", "swap"} /\ Mishap
  /\ \/ swp' = [swp EXCEPT ![s] = NoJob]
     \/ /\ swp[s].pc = "ask"
        /\ swp' = [swp EXCEPT ![s] = [NoJob EXCEPT !.pc = "clear",
                                                   !.row = swp[s].row]]
  /\ UNCHANGED <<row, intake, eng, drv, req, history>>

SweepDies(s) ==
  /\ swp[s].pc # "idle" /\ Mishap
  /\ swp' = [swp EXCEPT ![s] = NoJob]
  /\ UNCHANGED <<row, intake, eng, drv, req, history>>

Sweep(s) == \/ SweepClaims(s) \/ SweepAsks(s) \/ SweepMirrors(s)
            \/ SweepClears(s) \/ SweepSwaps(s) \/ SweepMails(s)

-----------------------------------------------------------------------------
(* Time and the engine.                                                    *)

(* LEASE_MINUTES pass; the claimer may be slow, or gone.                   *)
LeaseEnds(r) ==
  /\ row[r].lease
  /\ row' = [row EXCEPT ![r].lease = FALSE]
  /\ UNCHANGED <<intake, eng, actors, mishaps, history>>

(* ORPHAN_CUTOFF_MINUTES pass without a heartbeat: the 401/403 budget, the *)
(* longest silence of a live driver, is two thirds of that, and a driver   *)
(* follows its request at once.                                            *)
GoesStale(r) ==
  /\ Exists(r) /\ row[r].beat /\ ~Alive(r) /\ ~Coming(r)
  /\ row' = [row EXCEPT ![r].beat = FALSE]
  /\ UNCHANGED <<intake, eng, actors, mishaps, history>>

(* A worker claims the run.                                                *)
EngineStarts(r) ==
  /\ eng[r] = "queued"
  /\ eng' = [eng EXCEPT ![r] = "running"]
  /\ UNCHANGED <<row, intake, actors, mishaps, history>>

(* The run ends, or parks.                                                 *)
EngineEnds(r) ==
  /\ eng[r] = "running"
  /\ \E status \in {"completed", "failed", "parked"} :
       eng' = [eng EXCEPT ![r] = status]
  /\ UNCHANGED <<row, intake, actors, mishaps, history>>

-----------------------------------------------------------------------------
Next ==
  \/ \E c \in Caller : Request(c) \/ Serve(c) \/ RequestDies(c)
  \/ \E d \in Driver : \/ Drive(d) \/ DriverGivesUp(d) \/ DriverFaults(d)
                       \/ DriverDies(d)
  \/ \E s \in Sweeper : Sweep(s) \/ SweepFaults(s) \/ SweepDies(s)
  \/ \E r \in Row : \/ LeaseEnds(r) \/ GoesStale(r)
                    \/ EngineStarts(r) \/ EngineEnds(r)
  \/ IntakeMoves

Spec == Init /\ [][Next]_vars

(* Requests and drivers run on; each instance's timer fires; time passes.  *)
Fairness ==
  /\ \A c \in Caller : WF_vars(Serve(c))
  /\ \A d \in Driver : WF_vars(Drive(d))
  /\ \A s \in Sweeper : WF_vars(Sweep(s))
  /\ \A r \in Row : WF_vars(LeaseEnds(r)) /\ WF_vars(GoesStale(r))

FairSpec == Spec /\ Fairness

-----------------------------------------------------------------------------
TypeOK ==
  /\ row \in [Row -> RowType]
  /\ intake \in Startable
  /\ eng \in [Row -> Status]
  /\ drv \in [Driver -> DriverState]
  /\ swp \in [Sweeper -> SweepState]
  /\ req \in [Caller -> RequestState]
  /\ mishaps \in 0 .. MaxMishaps
  /\ resumes \in [Row -> Nat] /\ finals \in [Row -> Nat]
  /\ told \in [Row -> BOOLEAN]

(* However many sweeps and drivers end up holding a run -- expired leases, *)
(* dead drivers, cancels -- its terminal write happens once, as long as    *)
(* nobody resumed it.                                                      *)
FinalisedOnce ==
  \A r \in Row : resumes[r] = 0 => finals[r] <= 1

(* A resume licenses one more.                                             *)
FinalisedOncePerResume ==
  \A r \in Row : finals[r] <= 1 + resumes[r]

(* A mail that says the research is ready is never a lie: the report and   *)
(* the bundle are on the row.                                              *)
CompletionMailTrue ==
  \A r \in Row : told[r] => row[r].delivered

(* A run that was delivered is never relabelled failed (F-06).             *)
DeliveredNotFailed ==
  \A r \in Row : resumes[r] = 0 /\ row[r].delivered => row[r].status # "failed"

(* Two runs of one intake are never in flight together.                    *)
OneInFlight ==
  \A r, s \in Row : row[r].status \in InFlight /\ row[s].status \in InFlight
                    => r = s

(* A run in flight whose driver is gone and whose engine run is known, and *)
(* ended, gets its terminal state, unless the engine run is resumed: even  *)
(* a late mirror that resurrects a finalised row heals.                    *)
OrphanRecovered ==
  \A r \in Row :
    (/\ row[r].status \in InFlight /\ row[r].eid /\ row[r].actor
     /\ ~Alive(r) /\ eng[r] \in Terminal)
    ~> (row[r].status \notin InFlight \/ eng[r] \notin Terminal)

(* Nobody left on a run that reads completed: then it has its report.      *)
CompletedHasReport ==
  \A r \in Row :
    row[r].status = "completed" /\ ~Attended(r) => row[r].delivered
=============================================================================
