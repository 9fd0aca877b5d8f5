------------------------------ MODULE RunQueue ------------------------------
(***************************************************************************)
(* The Tribunal run queue: the table `run`, the API verbs that write it    *)
(* (runs/api.py), and the worker processes that claim, execute, heartbeat, *)
(* reclaim and reap its rows (runs/worker.py, runs/execute.py).            *)
(*                                                                         *)
(* Every action is one database transaction, or one step of a coroutine    *)
(* between two of its awaits.  A verb that reads and later writes is two   *)
(* actions; a verb whose write re-tests what it read (a compare-and-swap)  *)
(* is two actions as well, so that what the re-test buys can be seen.      *)
(*                                                                         *)
(* Time is abstracted to what the SQL tests: a row's `started_at` is a     *)
(* number that every NOW() written to it advances, and `stale` stands for  *)
(* "COALESCE(heartbeat_at, started_at) is more than STALE_RUN_MINUTES      *)
(* old" on a running row.                                                  *)
(***************************************************************************)
EXTENDS Integers, FiniteSets

CONSTANTS
  NRun,           \* rows of `run` an instance may create, in created_at order
  Key,            \* idempotency keys the callers of POST /api/runs use
  Proc,           \* worker processes; a process is its WORKER_ID
  Caller,         \* API requests in flight at once
  Verbs,          \* the API verbs an instance uses
  K,              \* NESTOR_WORKER_RUN_CONCURRENCY: slots of one process
  MaxReclaims,    \* NESTOR_WORKER_MAX_RECLAIMS: crash recoveries of a run
  Streams,        \* research streams (angles) of a run
  HeartbeatsLand, \* TRUE: a heartbeat of a live execution always lands in time
  MaxRequeues,    \* bound: report-spec and resume requests served per run
  MaxFaults,      \* bound: failed database transactions of the workers
  None            \* SQL NULL

AllVerbs == {"create", "answer", "report_spec", "resume", "rewrite", "cancel"}
Run      == 1 .. NRun

ASSUME ConstantsAssumption ==
  /\ NRun \in Nat /\ K \in Nat \ {0} /\ MaxReclaims \in Nat
  /\ Streams \in Nat \ {0} /\ MaxRequeues \in Nat /\ MaxFaults \in Nat
  /\ HeartbeatsLand \in BOOLEAN
  /\ Verbs \subseteq AllVerbs
  /\ \A S \in {Proc, Run, Key, AllVerbs} : None \notin S

VARIABLES
  row,      \* the table `run`, with what its Output rows amount to
  loop,     \* where each process is in worker_loop
  sem,      \* free permits of each process's semaphore
  inflight, \* each process's set of dispatched tasks
  req,      \* the API request each caller has read for and not yet written
  faults,   \* database failures so far
  starts,   \* observation: times an engine was started for the run
  requeues  \* observation: times a user put the run back on the queue

rowVars  == <<row, starts, requeues>>
procVars == <<loop, sem, inflight>>
vars     == <<row, loop, sem, inflight, req, faults, starts, requeues>>

-----------------------------------------------------------------------------
(* Statuses and the one rule that computes a terminal one.                 *)

Paused   == {"needs_input", "needs_report_spec", "parked"}
Final    == {"completed", "completed_degraded", "failed", "cancelled"}
Status   == {"absent", "queued", "running"} \cup Paused \cup Final

(* The facts an engine reports: research streams lost of `total`, whether  *)
(* the verification gates and the synthesis ran, whether a provider        *)
(* refused at the account level, and whether a degradation was named.      *)
Facts == [lost : 0 .. Streams, total : {Streams}, verify : BOOLEAN,
          synth : BOOLEAN, wall : BOOLEAN, reasons : BOOLEAN]

TerminalState(f) ==
  IF \/ f.wall
     \/ f.lost >= f.total
     \/ ~f.verify
     \/ ~f.synth
  THEN "parked"
  ELSE IF f.reasons \/ f.lost > 0 THEN "completed_degraded" ELSE "completed"

(* What _park_result is given: every stream lost, or a hard wall.          *)
ParkFacts == {f \in Facts : /\ ~f.verify /\ ~f.synth
                            /\ IF f.wall THEN f.lost = 0 ELSE f.lost = f.total}

(* What a finished pipeline publishes beside its report: at least one      *)
(* stream answered, and `verify` is FALSE when every gate call errored.    *)
ReportFacts == {f \in Facts : f.synth /\ ~f.wall /\ f.lost < f.total}

(* What runner.run() can end in, as the status the worker will write and   *)
(* whether a report body comes with it.                                    *)
Outcome(st, body) == [status |-> st, report |-> body]
Reports  == {Outcome(TerminalState(f), TRUE)  : f \in ReportFacts}
Parks    == {Outcome(TerminalState(f), FALSE) : f \in ParkFacts}
Failure  == Outcome("failed", FALSE)
Pauses   == {Outcome("needs_input", FALSE), Outcome("needs_report_spec", FALSE)}
Outcomes == Reports \cup Parks \cup Pauses \cup {Failure}

(* A run that has a report_spec and a synthesis_cache goes straight to the *)
(* report, before the park guard; any other run may also ask, park or      *)
(* pause for a report shape.                                               *)
EngineOutcomes(r) ==
  IF row[r].spec /\ row[r].cache
  THEN Reports \cup {Failure}
  ELSE Outcomes

-----------------------------------------------------------------------------
Row == [status : Status, worker : Proc \cup {None}, tok : Nat, stale : BOOLEAN,
        reclaims : Nat, reports : Nat, spec : BOOLEAN,
        cache : BOOLEAN, key : Key \cup {None}, parent : Run \cup {None}]

NoRow == [status |-> "absent", worker |-> None, tok |-> 0, stale |-> FALSE,
          reclaims |-> 0, reports |-> 0, spec |-> FALSE,
          cache |-> FALSE, key |-> None, parent |-> None]

QueuedRow(k, parent, spec) ==
  [NoRow EXCEPT !.status = "queued", !.key = k, !.parent = parent,
                !.spec = spec, !.cache = spec]

(* What each UPDATE of `run` does to its row.                              *)
Cancelled(rw) == [rw EXCEPT !.status = "cancelled", !.stale = FALSE]
Requeued(rw, spec) ==
  [rw EXCEPT !.status = "queued", !.worker = None, !.spec = @ \/ spec]
Claimed(rw, p) ==
  [rw EXCEPT !.status = "running", !.worker = p, !.tok = @ + 1, !.stale = FALSE,
             !.reclaims = IF rw.status = "running" THEN @ + 1 ELSE @]
Consumed(rw)   == [rw EXCEPT !.tok = @ + 1]
Aged(rw, old)  == [rw EXCEPT !.stale = old]
Cached(rw, c)  == [rw EXCEPT !.cache = @ \/ c]
Reaped(rw)     == [rw EXCEPT !.status = "failed", !.stale = FALSE]

(* execute_run's terminal UPDATE; the success branch adds a report body.   *)
Landed(rw, out) ==
  [rw EXCEPT !.status = out.status, !.stale = FALSE,
             !.reports = IF out.report THEN @ + 1 ELSE @]

(* A dispatched run: the claim it carries (run, started_at), how far       *)
(* execute_run_locked has got with it, and what its engine ended in.       *)
Task == [run : Run, tok : Nat, pc : {"dispatched", "engine"}, out : {None}]
        \cup [run : Run, tok : Nat, pc : {"write"}, out : Outcomes]

Dispatched(r, tok) ==
  [run |-> r, tok |-> tok, pc |-> "dispatched", out |-> None]

Idle    == [verb |-> None, run |-> None, key |-> None]
Request == {Idle} \cup [verb : {"create"}, run : {None}, key : Key]
           \cup [verb : AllVerbs \ {"create"}, run : Run, key : {None}]

LoopPc == {"new", "acquire", "claim", "reap", "dead"}
Up(p)  == loop[p] \in {"acquire", "claim", "reap"}

TypeOK ==
  /\ row \in [Run -> Row]
  /\ loop \in [Proc -> LoopPc]
  /\ sem \in [Proc -> 0 .. K]
  /\ inflight \in [Proc -> SUBSET Task]
  /\ req \in [Caller -> Request]
  /\ faults \in Nat
  /\ starts \in [Run -> Nat]
  /\ requeues \in [Run -> Nat]

Init ==
  /\ row = [r \in Run |-> NoRow]
  /\ loop = [p \in Proc |-> "new"]
  /\ sem = [p \in Proc |-> 0]
  /\ inflight = [p \in Proc |-> {}]
  /\ req = [c \in Caller |-> Idle]
  /\ faults = 0
  /\ starts = [r \in Run |-> 0]
  /\ requeues = [r \in Run |-> 0]

Exists(r) == row[r].status # "absent"

-----------------------------------------------------------------------------
(* The API verbs.  Each handler runs in one transaction of get_db_session: *)
(* its SELECT is the first action, its write and commit the second.        *)

ReadFor(c, verb, r, k) ==
  /\ verb \in Verbs
  /\ req[c] = Idle
  /\ req' = [req EXCEPT ![c] = [verb |-> verb, run |-> r, key |-> k]]
  /\ UNCHANGED <<rowVars, procVars, faults>>

(* POST /api/runs: no run with this key was found, so insert one.          *)
ReadCreate(c, k) ==
  /\ \A r \in Run : row[r].key # k
  /\ ReadFor(c, "create", None, k)

(* POST /{id}/answer on a single run: the row is read for its data only.   *)
ReadAnswer(c, r) == Exists(r) /\ ReadFor(c, "answer", r, None)

(* POST /{id}/report-spec and /{id}/resume refuse any other status here.   *)
ReadReportSpec(c, r) ==
  row[r].status = "needs_report_spec" /\ ReadFor(c, "report_spec", r, None)
ReadResume(c, r) == row[r].status = "parked" /\ ReadFor(c, "resume", r, None)

(* POST /{id}/rewrite needs the source run's cached research bundle.       *)
ReadRewrite(c, r) == row[r].cache /\ ReadFor(c, "rewrite", r, None)

(* POST /{id}/cancel: any other status is returned as it is.               *)
ReadCancel(c, r) ==
  /\ row[r].status \in {"queued", "running", "needs_input"}
  /\ ReadFor(c, "cancel", r, None)

Writes(c, verb) ==
  /\ req[c].verb = verb
  /\ req' = [req EXCEPT ![c] = Idle]
  /\ UNCHANGED <<procVars, faults, starts>>

(* A new row takes the next created_at.                                    *)
Insert(newRow) ==
  \E r \in Run : /\ ~Exists(r)
                 /\ \A s \in Run : s < r => Exists(s)
                 /\ row' = [row EXCEPT ![r] = newRow]

KeyUntested(k) == FALSE                \* mutant: no unique constraint
KeyTaken(k) == \E r \in Run : row[r].key = k

(* INSERT under uq_run_tenant_idempotency: on a collision the savepoint    *)
(* rolls back and the existing row is returned.                            *)
WriteCreate(c) ==
  /\ Writes(c, "create")
  /\ \/ /\ KeyTaken(req[c].key)
        /\ UNCHANGED row
     \/ /\ ~KeyTaken(req[c].key)
        /\ Insert(QueuedRow(req[c].key, None, FALSE))
  /\ UNCHANGED requeues

RetirableUnfenced(r) == Exists(r)      \* mutant: no AND status = 'needs_input'
Retirable(r) == row[r].status = "needs_input"

(* _RETIRE_FOR_ANSWER_SQL, then the replacement run that it admits; when   *)
(* the update matches no row the answer is refused with 409.               *)
WriteAnswer(c) ==
  LET r == req[c].run IN
  /\ Writes(c, "answer")
  /\ \/ /\ Retirable(r)
        /\ \E n \in Run :
             /\ ~Exists(n) /\ \A s \in Run : s < n => Exists(s)
             /\ row' = [row EXCEPT ![r] = Cancelled(@),
                                   ![n] = QueuedRow(None, r, FALSE)]
     \/ /\ ~Retirable(r)
        /\ UNCHANGED row
  /\ UNCHANGED requeues

(* The compare-and-swap from `from` back to 'queued' that admits both      *)
(* /report-spec and /resume.                                               *)
Requeue(r, from, spec) ==
  \/ /\ row[r].status = from
     /\ requeues[r] < MaxRequeues
     /\ row' = [row EXCEPT ![r] = Requeued(@, spec)]
     /\ requeues' = [requeues EXCEPT ![r] = @ + 1]
  \/ /\ row[r].status # from
     /\ UNCHANGED <<row, requeues>>

WriteReportSpec(c) ==
  /\ Writes(c, "report_spec")
  /\ Requeue(req[c].run, "needs_report_spec", TRUE)

WriteResume(c) ==
  /\ Writes(c, "resume")
  /\ Requeue(req[c].run, "parked", FALSE)

(* A new run that inherits the bundle and carries the new spec.            *)
WriteRewrite(c) ==
  /\ Writes(c, "rewrite")
  /\ Insert(QueuedRow(None, None, TRUE))
  /\ UNCHANGED requeues

(* The ORM flush: UPDATE run SET status WHERE id = :id, with              *)
(* no test of the status the handler read.                                 *)
WriteCancel(c) ==
  /\ Writes(c, "cancel")
  /\ row' = [row EXCEPT ![req[c].run] = Cancelled(@)]
  /\ UNCHANGED requeues

Api(c) ==
  \/ \E k \in Key : ReadCreate(c, k)
  \/ \E r \in Run : \/ ReadAnswer(c, r) \/ ReadReportSpec(c, r)
                    \/ ReadResume(c, r) \/ ReadRewrite(c, r)
                    \/ ReadCancel(c, r)
  \/ WriteCreate(c) \/ WriteAnswer(c) \/ WriteReportSpec(c)
  \/ WriteResume(c) \/ WriteRewrite(c) \/ WriteCancel(c)

-----------------------------------------------------------------------------
(* worker_loop.                                                            *)

Start(p) ==
  /\ loop[p] = "new"
  /\ loop' = [loop EXCEPT ![p] = "acquire"]
  /\ sem' = [sem EXCEPT ![p] = K]
  /\ UNCHANGED <<rowVars, inflight, req, faults>>

(* The slot comes first, the claim second.                                 *)
Acquire(p) ==
  /\ loop[p] = "acquire"
  /\ sem[p] > 0
  /\ loop' = [loop EXCEPT ![p] = "claim"]
  /\ sem' = [sem EXCEPT ![p] = @ - 1]
  /\ UNCHANGED <<rowVars, inflight, req, faults>>

(* mutants: recoveries without a ceiling; recovery of a run that is alive  *)
ClaimableForever(r) ==
  \/ row[r].status = "queued"
  \/ row[r].status = "running" /\ row[r].stale
ClaimableAlive(r) ==
  \/ row[r].status = "queued"
  \/ row[r].status = "running" /\ row[r].reclaims < MaxReclaims

Claimable(r) ==
  \/ row[r].status = "queued"
  \/ /\ row[r].status = "running"
     /\ row[r].stale
     /\ row[r].reclaims < MaxReclaims

(* Rows an open transaction of somebody else may hold: SKIP LOCKED passes  *)
(* over them.                                                              *)
Locked(p, r) ==
  \/ \E q \in Proc \ {p} : loop[q] = "claim"
  \/ \E c \in Caller : req[c].run = r

(* CLAIM_SQL on the oldest claimable row that is not skipped, and the task *)
(* it is handed to.  A row that may be locked may also be free.            *)
Claim(p) ==
  /\ loop[p] = "claim"
  /\ \E r \in Run :
       /\ Claimable(r)
       /\ \A s \in Run : Claimable(s) /\ s < r => Locked(p, s)
       /\ row' = [row EXCEPT ![r] = Claimed(@, p)]
       /\ inflight' = [inflight EXCEPT ![p] = @ \cup
                                          {Dispatched(r, row[r].tok + 1)}]
  /\ loop' = [loop EXCEPT ![p] = "acquire"]
  /\ UNCHANGED <<sem, req, faults, starts, requeues>>

(* mutant: the slot of an idle tick is kept                                *)
ClaimNoneLeaks(p) ==
  /\ loop[p] = "claim"
  /\ \A r \in Run : Claimable(r) => Locked(p, r)
  /\ loop' = [loop EXCEPT ![p] = "reap"]
  /\ UNCHANGED <<rowVars, sem, inflight, req, faults>>

(* Nothing claimable, or every row that is held by a transaction of        *)
(* somebody else: the slot is given back before the idle tick.             *)
ClaimNone(p) ==
  /\ loop[p] = "claim"
  /\ \A r \in Run : Claimable(r) => Locked(p, r)
  /\ loop' = [loop EXCEPT ![p] = "reap"]
  /\ sem' = [sem EXCEPT ![p] = @ + 1]
  /\ UNCHANGED <<rowVars, inflight, req, faults>>

(* mutant: one recovery too many before the reap looks at the run          *)
ReapableLate(r) ==
  row[r].status = "running" /\ row[r].stale /\ row[r].reclaims > MaxReclaims

Reapable(r) ==
  /\ row[r].status = "running"
  /\ row[r].stale
  /\ row[r].reclaims >= MaxReclaims

(* REAP_SQL, on the empty-queue tick, then the poll sleep.                 *)
Reap(p) ==
  /\ loop[p] = "reap"
  /\ loop' = [loop EXCEPT ![p] = "acquire"]
  /\ row' = [r \in Run |-> IF Reapable(r) THEN Reaped(row[r]) ELSE row[r]]
  /\ UNCHANGED <<sem, inflight, req, faults, starts, requeues>>

Fault ==
  /\ faults < MaxFaults
  /\ faults' = faults + 1

(* A reap that raises is logged and forgotten.                             *)
ReapFault(p) ==
  /\ loop[p] = "reap"
  /\ Fault
  /\ loop' = [loop EXCEPT ![p] = "acquire"]
  /\ UNCHANGED <<rowVars, sem, inflight, req>>

(* A process may die at any await; a claim that raises ends it too.  Its   *)
(* replacement is another process with a WORKER_ID of its own.             *)
Crash(p) ==
  /\ Up(p)
  /\ \E q \in Proc \ {p} : loop[q] # "dead"
  /\ loop' = [loop EXCEPT ![p] = "dead"]
  /\ sem' = [sem EXCEPT ![p] = 0]
  /\ inflight' = [inflight EXCEPT ![p] = {}]
  /\ UNCHANGED <<rowVars, req, faults>>

-----------------------------------------------------------------------------
(* One dispatched task: execute_run_locked, execute_run, _dispatch_one.    *)

(* mutant: the slot is released twice                                      *)
FinishTwice(p, t) ==
  /\ inflight' = [inflight EXCEPT ![p] = @ \ {t}]
  /\ sem' = [sem EXCEPT ![p] = @ + 2]

(* _dispatch_one's finally: the task is gone and its slot is back.         *)
Finish(p, t) ==
  /\ inflight' = [inflight EXCEPT ![p] = @ \ {t}]
  /\ sem' = [sem EXCEPT ![p] = @ + 1]

Becomes(p, t, u) == inflight' = [inflight EXCEPT ![p] = (@ \ {t}) \cup {u}]

(* mutants: the worker_id clause dropped; the status clause dropped        *)
OwnsAnyWorker(p, r) == row[r].status = "running"
OwnsAnyStatus(p, r) == row[r].worker = p

(* The fence of every write of execute_run.                                *)
Owns(p, r) == row[r].status = "running" /\ row[r].worker = p

(* _CONSUME_CLAIM_SQL under the advisory lock: the claim is spent by       *)
(* moving started_at, and only a claim that matches reaches the engine.    *)
Consume(p, t) ==
  /\ t.pc = "dispatched"
  /\ \/ /\ Owns(p, t.run)
        /\ row[t.run].tok = t.tok
        /\ row' = [row EXCEPT ![t.run] = Consumed(@)]
        /\ starts' = [starts EXCEPT ![t.run] = @ + 1]
        /\ Becomes(p, t, [t EXCEPT !.pc = "engine"])
        /\ UNCHANGED sem
     \/ /\ ~(Owns(p, t.run) /\ row[t.run].tok = t.tok)
        /\ Finish(p, t)
        /\ UNCHANGED <<row, starts>>
  /\ UNCHANGED <<loop, req, faults, requeues>>

(* _heartbeat_loop, alive from before runner.run() to execute_run's        *)
(* finally.                                                                *)
Heartbeat(p, t) ==
  /\ t.pc \in {"engine", "write"}
  /\ Owns(p, t.run)
  /\ row' = [row EXCEPT ![t.run] = Aged(@, FALSE)]
  /\ UNCHANGED <<procVars, req, faults, starts, requeues>>

(* runner.run() returns, raises, or is stopped by the 120-minute ceiling.  *)
(* The research bundle is cached after the questions and before the report *)
(* is written or its shape asked for.  A failed write of it, or a failed   *)
(* read of what a resume starts from, is swallowed: no bundle is kept, or  *)
(* the run goes the whole way again.                                       *)
EngineReturns(p, t) ==
  /\ t.pc = "engine"
  /\ \E out \in Outcomes, cached \in BOOLEAN :
       /\ out.status = "needs_input" => ~cached
       /\ \/ /\ out \in EngineOutcomes(t.run)
             /\ out.report \/ out.status = "needs_report_spec" => cached
             /\ UNCHANGED faults
          \/ Fault
       /\ Becomes(p, t, [t EXCEPT !.pc = "write", !.out = out])
       /\ row' = [row EXCEPT ![t.run] = Cached(@, cached)]
  /\ UNCHANGED <<loop, sem, req, starts, requeues>>

(* raise_if_cancelled saw the cancel at a stage boundary: RunCancelled     *)
(* ends the task with no write.                                            *)
EngineAborts(p, t) ==
  /\ t.pc = "engine"
  /\ row[t.run].status = "cancelled"
  /\ Finish(p, t)
  /\ UNCHANGED <<rowVars, loop, req, faults>>

(* mutant: the report is inserted whether or not the UPDATE matched        *)
TerminalWriteUnchecked(p, t) ==
  /\ t.pc = "write"
  /\ Finish(p, t)
  /\ \/ /\ Owns(p, t.run)
        /\ row' = [row EXCEPT ![t.run] = Landed(@, t.out)]
     \/ /\ ~Owns(p, t.run)
        /\ row' = [row EXCEPT ![t.run].reports = IF t.out.report THEN @ + 1 ELSE @]
  /\ UNCHANGED <<loop, req, faults, starts, requeues>>

(* The fenced write of what the engine ended in; a report body is inserted *)
(* only with a status that was written.                                    *)
TerminalWrite(p, t) ==
  /\ t.pc = "write"
  /\ Finish(p, t)
  /\ \/ /\ Owns(p, t.run)
        /\ row' = [row EXCEPT ![t.run] = Landed(@, t.out)]
     \/ ~Owns(p, t.run) /\ UNCHANGED row
  /\ UNCHANGED <<loop, req, faults, starts, requeues>>

(* A write that raises falls into `except Exception` and is followed by    *)
(* the failure write; when that raises too, _dispatch_one swallows it and  *)
(* the row stays 'running' with nobody attending it.                       *)
WriteFault(p, t) ==
  /\ t.pc = "write"
  /\ Fault
  /\ \/ /\ t.out # Failure
        /\ Becomes(p, t, [t EXCEPT !.out = Failure])
        /\ UNCHANGED sem
     \/ t.out = Failure /\ Finish(p, t)
  /\ UNCHANGED <<rowVars, loop, req>>

(* The consume transaction raises: swallowed in the same place.            *)
ConsumeFault(p, t) ==
  /\ t.pc = "dispatched"
  /\ Fault
  /\ Finish(p, t)
  /\ UNCHANGED <<rowVars, loop, req>>

TaskStep(p, t) ==
  \/ Consume(p, t) \/ Heartbeat(p, t) \/ EngineReturns(p, t)
  \/ EngineAborts(p, t) \/ TerminalWrite(p, t)
  \/ WriteFault(p, t) \/ ConsumeFault(p, t)

Worker(p) ==
  \/ Start(p) \/ Acquire(p) \/ Claim(p) \/ ClaimNone(p)
  \/ Reap(p) \/ ReapFault(p) \/ Crash(p)
  \/ \E t \in inflight[p] : TaskStep(p, t)

-----------------------------------------------------------------------------
(* Time.  A heartbeat is due every 30 s and a row is stale after 60 min:   *)
(* with HeartbeatsLand, a row whose owner still has the run in flight is   *)
(* never stale.  Without it, an owner may be starved for that long.        *)
Attended(r) ==
  row[r].worker \in Proc /\ \E t \in inflight[row[r].worker] : t.run = r

GoStale(r) ==
  /\ row[r].status = "running"
  /\ ~row[r].stale
  /\ HeartbeatsLand => ~Attended(r)
  /\ row' = [row EXCEPT ![r] = Aged(@, TRUE)]
  /\ UNCHANGED <<procVars, req, faults, starts, requeues>>

Next ==
  \/ \E c \in Caller : Api(c)
  \/ \E p \in Proc : Worker(p)
  \/ \E r \in Run : GoStale(r)

Spec == Init /\ [][Next]_vars

(* The event loop runs every ready coroutine, instances that die are       *)
(* replaced, the engine await is bounded by the run ceiling (no call of    *)
(* the engine blocks the event loop for good: the ceiling cannot interrupt *)
(* that), and time passes.  A lock that makes a claim pass over a row is   *)
(* held for one statement, so a process that polls again and again does    *)
(* not meet it every time: its claim is strongly fair.  Users, crashes and *)
(* faults owe nothing.                                                     *)
Fairness ==
  /\ \A p \in Proc :
       /\ WF_vars(Start(p)) /\ WF_vars(Acquire(p))
       /\ SF_vars(Claim(p)) /\ WF_vars(ClaimNone(p)) /\ WF_vars(Reap(p))
       /\ WF_vars(\E t \in inflight[p] : Consume(p, t))
       /\ WF_vars(\E t \in inflight[p] : EngineReturns(p, t))
       /\ WF_vars(\E t \in inflight[p] : TerminalWrite(p, t))
  /\ \A r \in Run : WF_vars(GoStale(r))

FairSpec == Spec /\ Fairness

-----------------------------------------------------------------------------
(* What the queue is for.                                                  *)

Executing(p) == {t \in inflight[p] : t.pc # "dispatched"}

(* Slots: in a live process every permit is free, held by the claim in     *)
(* hand, or carried by a dispatched task, so no path out of a task leaks   *)
(* one and no path returns one twice (_dispatch_one's finally).            *)
SlotsAccounted ==
  \A p \in Proc : Up(p) =>
    sem[p] + (IF loop[p] = "claim" THEN 1 ELSE 0) + Cardinality(inflight[p]) = K

(* Spend: an engine is started for a run at most once for its creation,    *)
(* once for every requeue a user asked for and once for every bounded      *)
(* crash recovery, whatever is reclaimed, duplicated, crashed or failed.   *)
SpendBounded ==
  \A r \in Run : starts[r] <= 1 + requeues[r] + MaxReclaims

(* Report bodies: a run gets at most one for its creation and one for each *)
(* requeue a user asked for, however many executions were displaced while  *)
(* they wrote (the `completed.rowcount` test before the insert).           *)
ReportsBounded ==
  \A r \in Run : row[r].reports <= 1 + requeues[r]

(* One executor: two tasks, of one process or of two, are never past the   *)
(* consume for the same run (execute_run_locked's exactly-once claim).     *)
SingleExecution ==
  \A p, q \in Proc : \A t \in Executing(p), u \in Executing(q) :
    t.run = u.run => p = q /\ t = u

(* The answers to one paused run are folded into one replacement, and a    *)
(* run that has one is retired (answer_run's compare-and-swap).            *)
AnsweredOnce ==
  \A n, m \in Run : row[n].parent # None =>
    /\ row[row[n].parent].status = "cancelled"
    /\ row[m].parent = row[n].parent => n = m

(* One run per idempotency key, however the retries of a POST interleave.  *)
OneRunPerKey ==
  \A n, m \in Run : row[n].key # None /\ row[n].key = row[m].key => n = m

(* A run that nobody executes is not lost: whatever died, a queued run is  *)
(* claimed and a running one leaves 'running' (reclaim, then reap).        *)
QueuedIsClaimed == \A r \in Run : row[r].status = "queued" ~> row[r].status # "queued"
RunningEnds == \A r \in Run : row[r].status = "running" ~> row[r].status # "running"

(* The queue implements the life cycle it promises: what a run may still   *)
(* spend is what creation, requeues and recoveries gave it less what it    *)
(* has started.                                                            *)
Lifecycle == INSTANCE RunLifecycle WITH
  status <- [r \in Run |-> row[r].status],
  credit <- [r \in Run |-> IF Exists(r)
                           THEN 1 + requeues[r] + MaxReclaims - starts[r]
                           ELSE 0]
LifecycleSpec == Lifecycle!Spec

(* An execution that lost its claim writes no outcome: the write of a task *)
(* whose claim was superseded changes nothing.  The worker_id fence knows  *)
(* processes only, so this needs K = 1.                                    *)
DisplacedWritesNothing ==
  [][\A p \in Proc : \A t \in inflight[p] :
       TerminalWrite(p, t) /\ row' # row => row[t.run].tok = t.tok + 1]_vars

(* Cancelling a run that already ended changes nothing.                    *)
CancelIsNoOpOnceEnded ==
  [][\A c \in Caller : WriteCancel(c) /\ row[req[c].run].status \in Final
       => row[req[c].run].status = row'[req[c].run].status]_vars
=============================================================================
