# Nestor intake and the Tribunal engine: a TLA+ verification project

Nestor takes in a customer's question (an *intake*), has an operator trigger a
paid multi-agent research run on the *Tribunal* engine, and mirrors that run's
progress, report and verdict back onto the intake. Two services keep the state
that matters and nearly all of its concurrency:

- `src/tribunal/` — the engine: an API and a pool of worker processes around
  one PostgreSQL table, `run`, used as a queue; the pipeline a worker executes,
  a dozen stages from the client's questions to a cited report; a hash-chained
  audit log of every model call of a run.
- `src/backend/` — the intake backend: up to four API instances that each start
  runs, poll them, and sweep up after one another, around one table,
  `research_runs`.

A run costs real money, is hours long, and is executed by processes that scale
to zero, get recycled and lose their database. What can go wrong is seldom in
one function: it is two executions of one run, a write of somebody who lost the
run, a run nobody looks at any more, a mail that says more than the row. Inside
the pipeline it is something that gets lost between two stages while a model
answers anything: a client's question, a paid answer, a witness, a verdict, a
degradation. This project models both, the protocols and the stages, checks
them with TLC and proves part of them with TLAPS.

Paths below are relative to the repository root (`src/...`);
`W` = `src/tribunal/nestor_pulse_sdk/runs/worker.py`, `A` = `.../runs/api.py`,
`E` = `.../runs/execute.py`, `C` = `.../audit/audited_llm_client.py`,
`RT` = `src/backend/app/research/run_task.py`, `RC` = `.../research/reconcile.py`,
`RR` = `src/backend/app/api/research_routes.py`,
`P` = `src/tribunal/nestor_pulse_sdk/pipeline/tribunal/pipeline.py`; a bare file
name of a stage is in the directory of `P`.

## 1. Inventory

| Component | State it keeps | Operations | Talks to | What makes it hard | What makes it correct |
|---|---|---|---|---|---|
| Run queue API (`A`) | rows of `run` | create, answer, report-spec, resume, rewrite, cancel | workers through the table | read in one statement, write in another; retried POSTs; two answers to one question | one run per idempotency key; one replacement per answered run; a requeue only from a paused or parked run; cancel of an ended run is a no-op |
| Run queue worker (`W`, `E`) | `run.status/worker_id/started_at/heartbeat_at/reclaim_count`, outputs; per process a semaphore and its tasks | claim (SKIP LOCKED), consume the fencing token, heartbeat, run the engine, terminal write, reclaim, reap | table, pipeline | crashes, starved heartbeats, displaced executions, failed commits, several slots per process | bounded spend, one executor, bounded reports, no write by a displaced execution, no leaked slot, everything queued or running moves on |
| Run life cycle (handbook 04 §04.5, `reliability.terminal_state`) | the status column | status moves | all of the above | its moves are spread over three files | every step of the queue is a move of the life cycle, and is paid for |
| Tribunal pipeline (`P`, `checkpoints.py`) | checkpoints per stage, cached bundle, park record, notes of degradation | the stages in order; park, pause, resume, rewrite | queue, stages, audit chain | an execution dies or parks anywhere and another takes up what was written | results of this plan only; whatever fell short reaches the status |
| Question workshop (`workshop*.py`, `question_grouping.py`, `discovery_bracket.py`) | questions, candidates, a register of bars, standings, groups | orient, split, draft, rank in a tournament, evolve, group | models, search | every answer of a model may be missing, garbled or adversarially odd; many rounds | no client question lost; nothing bought twice; fair ranking; every discovery accounted for |
| Research division and stage (`research_division.py`) | angles, provider jobs, recorded results | divide, trim, call under a semaphore, retry for coverage, resume | providers, checkpoints | concurrent puts, stops, late writes | a paid answer is not lost or bought again; the trim keeps every area |
| Own researcher (`own_researcher.py`, `serpapi.py`) | sessions, search slots, a process-wide circuit | ask, search, emit | search provider | sessions of several runs share the circuit | one refusal is enough |
| Reliability helpers (`reliability.py`) | breaker | retry, trip, probe | every paid call | concurrent sessions around one probe | a half-open circuit does not wait for nobody |
| Claims (`facts.py`, `synthesis/steps.py`) | claims, gaps | parse, ask again, distil, merge | models | order and spelling of what streams say | no witness, link or doubt lost |
| Verification (`grouping.py`, `gates.py`, `*skeptic.py`, `adjudicate.py`, `coverage_gate.py`) | verdicts, dropped claims, the reports' text | merge, gate, judge, re-enter, scrub | models | late verdicts; crashed sessions | what falls is what the verdicts say, and leaves no trace |
| Report (`citations/`, `report_planner.py`, `synthesis/steps.py`) | claim, source, verdict and gap rows, the document | store, cache, propose a shape, write, number | API, models | re-execution; shared id prefixes; two callers of a proposal | a number leads to a source of its claim; requests pay for one proposal |
| Audit chain (`C`, `audit/writer.py`, `audit/hash_chain.py`) | `audit_log`; a semaphore per process; a lock per client and run | atomic, search, deep and failure calls; verify | providers, bucket, table | tail read and INSERT are two transactions; cancellation at any await; two clients of a run | the chain verifies at every moment; no permit or lock is leaked; no call of a client loses its row to a live call of the same client |
| Research mirror (`RR`, `RT`, `RC`) | rows of `research_runs`, the intake's status | trigger, resume, cancel; poll driver; sweep with lease and compare-and-swap | engine through the seam, mail, bucket | any instance may die at any step; leases expire under slow holders; a mirror write that is not compared and swapped | one run in flight per intake; one terminal write; no false completion mail; no delivered run relabelled; no orphan left behind |
| Run feed (`runs/run_events.py`), stage cards (`runs/stage_feed.py`) | numbered lines, a bounded buffer; rows of a card and a debounced writer | emit, drain, close, page | pipeline, readers | cancellation inside an INSERT; resumed numbering | a reader misses no stored line; a lagging card is owed a write |
| Intake API and AI skills (`src/backend/app/api/intake_routes.py`, `ai/skills/`) | the intake's status, answers, skill runs, packs, reports | save, submit, review, override, deliver, replace, delete, mail; skills | mirror, mail, models | read and write without row locks; skills that take minutes | one context pack per validation |
| Comparison and critique, uploads, source verification, brief and bundle | — | data transformations, single requests | providers | LLM content | not modelled: no protocol state of their own |
| Persistence, tenancy, auth, admin, mail, storage | tenant context per request | per-request checks, single transactions | database | — | not modelled on their own; their transaction boundaries are in the modules that use them |
| Frontend, infrastructure, planning documents | — | — | APIs | — | not modelled |

`PROJECT.json` lists the components with their files and, under `hazards`, each
place where the code is hard to test, with the properties that watch it.

### How the parts interact

An operator's trigger inserts a `research_runs` row and schedules a poll
driver. The driver creates the engine run (with an idempotency key of the row),
polls its status every three seconds and mirrors it verbatim. On the engine's
side the run is a row of `run`: a worker claims it, executes the pipeline,
which appends to the run's audit chain with every model call, and writes one of
the terminal statuses. The driver sees it, builds the bundle, writes, mails.
When a worker dies, another reclaims its row after the heartbeat has been
silent for `STALE_RUN_MINUTES`; when a driver dies, some instance's sweep claims
its row after `ORPHAN_CUTOFF_MINUTES`. The two recoveries do not know each other.

## 2. The modules

| Module | Kind | Stands for |
|---|---|---|
| `RunQueue` | model | the table `run`, the six API verbs, `worker_loop`, `execute_run(_locked)`, reclaim and reap |
| `RunLifecycle` | abstract specification | what the queue promises about a run: its status moves and its credit of engine starts |
| `AuditChain` | model | the audited clients of one run, the table `audit_log`, `verify_chain` |
| `ResearchMirror` | model | trigger, resume, cancel, the poll driver and the sweep, over the rows of one intake |
| `TribunalPipeline` | model | one run through the stages over several executions: checkpoints, parks, notes, status |
| `WorkshopIntake`, `WorkshopLoop`, `Tournament`, `WorkshopGroups` | models | the question workshop: stage A, the rounds of stage B, their tournament, the groups |
| `ResearchDivision`, `ResearchRun` | models | winners to paid angles; the angles' calls, jobs, records and resumes |
| `OwnResearcher`, `Reliability` | models | the in-house research sessions and the search circuit; bounded retry and the breaker |
| `Claims`, `Verification`, `Report` | models | reports to claims, claims to survivors, survivors to a cited document |
| `RunFeed`, `StageFeed` | models | the activity feed; the card of a stage |
| `Intake` | model | an intake of the backend and the skills that run over it |
| `MCRunQueue`, `MCAuditChain`, `MCResearchMirror`, `MCEngine` | TLC | symmetry sets, instances; further constants are in the cfgs |
| `RunQueueProofs` | proofs | inductive invariant of the queue; slots, spend, reports, single execution; keys and answers are unique; with one slot per process a displaced execution writes nothing; `RunQueue` implements `RunLifecycle` |
| `AuditChainProofs` | proofs | the chain verifies; the lock and the permits hold |
| `ResearchMirrorProofs` | proofs | typing, one run in flight, completion mails are true; a run is finalised once; what was delivered never reads as failed |
| `CheckpointProofs` | proofs | a committed result is in what a resume reads; a first attempt buys nothing recorded; a shortfall reaches the status; results fit their plan |
| `WorkshopProofs` | proofs | no client question is lost in stage A, in the rounds or in the groups; look-ups are bought once; a discovery is accounted for; the trim's order |
| `StageProofs` | proofs | witnesses of claims, verdicts, scrubbing, citations, the proposal, the feed's cursor |
| `Counting` | lemmas | least and greatest elements, induction and recursion on numbers, ranks, sorted lists |
| `SharedStateProofs` | proofs | a lagging card is owed a write; the breaker's probe is answered; one search behind the search circuit; one pack per validation |

An operator or an action carries the source's name where TLA+ allows it;
`PROJECT.json` "map" gives the lines of each. Definitions that no map entry
names are properties, fairness, and variants of a definition (`KeyUntested`,
`NoLock`, `UnmovedAlways`, ...): each variant is a plausible bug, kept
beside the correct definition, and the property listed for it under `mutants`
fails when it is swapped in.

### 2.1 RunQueue

*State.* `row[r]` is the row of run `r` in `created_at` order: status, the
worker id, a token that stands for `started_at` (every claim and every consume
advances it), `stale` for "the heartbeat is older than `STALE_RUN_MINUTES`" on a
running row, `reclaims`, the number of report bodies among its outputs, whether
it has a report spec and a cached synthesis, its idempotency key (unique per
tenant; one tenant is modelled) and the run it replaces. `loop`, `sem` and
`inflight` are a worker process's place in `worker_loop`, its semaphore and its
dispatched tasks. `req[c]` is an API request between its read and its write.
`starts` and `requeues` are observations no action reads.

*Granularity.* One action is one transaction, or one stretch of a coroutine
between two awaits. A verb that reads in one statement and writes in another is
two actions (`ReadCancel`, `WriteCancel`); a verb whose UPDATE tests again what
the handler read is two actions as well, so the value of the test shows.

| Code | Actions |
|---|---|
| `A` verbs | `ReadCreate` … `ReadCancel`, `WriteCreate`, `WriteAnswer`, `WriteReportSpec`, `WriteResume`, `WriteRewrite`, `WriteCancel` |
| `W` `worker_loop` | `Start`, `Acquire`, `Claim`, `ClaimNone`, `Reap`, `ReapFault`, `Crash` |
| `E` `execute_run_locked` | `Consume` (compare the token, advance it), `ConsumeFault` |
| `W` `execute_run` | `Heartbeat`, `EngineReturns`, `EngineAborts` (the cancellation checkpoints), `TerminalWrite`, `WriteFault` |
| time | `GoStale` |

Things in the code that the model keeps because they decide what happens:

- the slot is acquired before the claim and released in `_dispatch_one`'s
  `finally`, on every way out;
- the reap runs only on an empty-queue tick; the claim handles queued and
  reclaimable rows in one statement, oldest first, skipping locked ones;
- a claimable row that another transaction holds is passed over (SKIP LOCKED), and a
  claim that finds no other row is an empty-queue tick;
- the bundle is cached before the report is written or its shape asked for; a write of it
  that fails, or a resume that cannot read it, is swallowed (a fault of the model), and
  the run is left without a bundle or goes the whole way again;
- the heartbeat starts inside `execute_run`, after the consume: a task that
  waits for the advisory lock does not beat;
- `reclaim_count` is not reset by a requeue;
- `raise_if_cancelled` sees only `cancelled`: a displaced execution runs on
  until its terminal write, which is fenced on `worker_id` and `running`;
- a run with a report spec and a cached bundle goes straight to the report,
  before the park guard and without a cancellation checkpoint;
- the success branch computes its status with `terminal_state`, and may park
  the run although it stores a report body.

What the engine returns is a nondeterministic choice over the facts
(`lost`/`total` streams, gates, synthesis, hard wall, named degradations) that
`runner.run()` can end in; `TerminalState` is the code's rule on them.

### 2.2 RunLifecycle

Status moves plus a *credit*: creation gives a run `1 + MaxReclaims` engine
starts, a requeue one more, a dispatch uses one and needs one. `RunQueue`
implements it under the mapping `status <- row[r].status`, `credit <- 1 +
requeues + MaxReclaims - starts`. So the queue never makes a move the life cycle
of handbook 04 §04.5 lacks, and never starts an engine nothing pays for.
`Cancel` is allowed from every status: that is what the code does
(`cancel_ended` below is about what its docstring says). The run `reclaim` checks it
under two callers, starved workers, reclaims and the verbs that move a run in place; answer
and rewrite, which add a run, are covered by the theorem.

### 2.3 AuditChain

A client is one `AuditedLLMClient`; a call is atomic, search, deep or a failure
record. A call takes a permit of its process's `_SEMAPHORE` (not a deep call's
dispatch, and not `start_call`), asks the provider, uploads, takes its client's
lock for the run, reads the tail, INSERTs, and gives everything back. It can fail
at the provider, be refused by `uq_audit_tenant_run_seq`, be cancelled at any
await, or lose its process; an INSERT on its way may still land after its call
gave up (`orphan`, `Settle`). A hash is the list of payloads hashed into it:
equal hashes are equal histories, which is what a collision-free hash gives.
`VerifyChain` is `verify_chain`.

### 2.4 ResearchMirror

`row[r]` is a `research_runs` row of one intake: status, whether the engine's
run id is on it, whether the heartbeat is fresh, the reconcile lease, whether
the actor's email is known, and whether report, verdict and bundle were
persisted. `eng[r]` is the engine's run, reduced to the status its API reports
(`RunQueue` models how it gets there). `drv`, `swp` and `req` are drivers, sweeps
and operator requests, each between two of its awaits.

| Code | Actions |
|---|---|
| `RR` trigger | `TriggerReads`, `TriggerWrites` (compare-and-swap of the intake, INSERT under the partial unique index), `Schedule` |
| `RR` resume, cancel | `ResumeReads`, `ResumeCalls`, `ResumePatches`; `CancelReads`, `CancelCalls`, `CancelPatches` |
| `RT` `run_poll_driver` | `DriverOpens`, `DriverReads`, `DriverTicks`, `DriverWrites`, `DriverMails`; `DriverGivesUp` (retry budgets), `DriverFaults`, `DriverRelabels` (`on_error`), `DriverDies` |
| `RC` `sweep_once` | `SweepClaims`, `SweepAsks`, `SweepMirrors`, `SweepClears`, `SweepSwaps` (`patch_if`), `SweepMails`, `SweepFaults`, `SweepDies` |
| intake verbs | `IntakeMoves` (`deliver_report`, `override_status`, seen from the trigger) |
| time, engine | `LeaseEnds`, `GoesStale`, `EngineStarts`, `EngineEnds` |

Two timing facts of the code are guards. A live driver is never silent for
`ORPHAN_CUTOFF_MINUTES` (its longest silence, the 401/403 budget, is shorter).
And, with `MirrorsLate = FALSE`, no finalisation fits between a sweep's
`get_metrics` and its uncompared mirror UPDATE (the source argues the margin
between the lease and the cutoff, DEF-23.3-05). With `MirrorsLate = TRUE` the
second guard is gone: then a late mirror may put a finalised row back in flight
and the run is finalised, and mailed, again. `FinalisedOnce` is therefore checked
(and proved) with `FALSE`; that the row nevertheless ends (`orphans`), that no two rows are in
flight and that no completion mail lies (proved) hold with either.

### 2.5 The pipeline and its stages

A stage hands its result to the next as a value, inside one coroutine, so each
stage is a module of its own and its input a constant set of hand-overs; what
executions, checkpoints and statuses do *around* the stages is
`TribunalPipeline`. Everything a model or a provider answers is a choice: a list
may be missing, repeat an entry, name one that does not exist. A text is a value
compared as the code compares it (by its key, by its normal form); a failure is
where the code catches it.

| Module | Actions (one per call or stretch between two awaits) | Worth knowing |
|---|---|---|
| `WorkshopIntake` | normalise, orientation sessions turn by turn, aspects, candidates, trim, clustering blocks, crash | every fallback is the question verbatim |
| `WorkshopLoop` | screen, bar, rank, decide, draft, admit, cluster | a killed restatement stays in the pool; a bar outlives its round; an invented angle costs a look-up |
| `Tournament` | catch-up matches, pairing, a round's verdicts, standings carried over | a match the judge's answer leaves out is chosen like any other answer |
| `WorkshopGroups` | reword, scope, allocate, group, shed, ride, repair, crash | brackets by client question; a group is a bundle of paid calls |
| `ResearchDivision` | divide, trim | three rungs, surplus, spare corroboration, corroboration; protected angles stay |
| `ResearchRun` | dispatch, create, poll, record, put, commit, coverage retry, stop, resume | concurrent puts write whole maps; the first to start may be the last to commit |
| `OwnResearcher` | ask, search, wait for a slot, send, book, emit | the circuit is asked before the wait for a slot and not after it |
| `Reliability` | begin, refuse, succeed, fail, retry, tick | one probe at a time; a 429 is booked nowhere; a session is cancelled only with its run, and the breaker goes with it |
| `Claims` | read a report (or fail to), ask again, distil chunks, merge | lists before distillation; 2 streams, one claim |
| `Verification` | merge, gate, verify, adjudicate, coverage, settle, conflict, scrub | coverage re-entry brings verdicts after the drop was decided |
| `Report` | persist, cache, propose (a paid call, then a write), shape, write; a request asks and buys | the claim table of a run grows with each execution; anchors are id prefixes |
| `RunFeed` | open, enter a stage, take a row, drain, insert, discard, close, die, page | `seq` is numbered in process from the table's maximum |
| `StageFeed` | declare, update, wake, write, cancel, flush, a close that is itself cancelled | the lock decides who writes last |
| `Intake` | a read and a write per verb; three steps per skill; sweep and restart | no row locks: two requests may read before either writes |
| `TribunalPipeline` | one per stage, checkpoint written or lost, park, pause, rewrite, wall, error, death, claim | a note is a fact about the run and must survive its execution |

`MCEngine` extends these modules (`Tournament` is an instance) and puts one instance of each side by side: `at` says which part a behaviour is about, the others keep their initial state, and a property of a
part is checked in its behaviours. The parts do not interact in the run; what
one hands to another is the constants of `MCEngine`, chosen from what the module
before it can produce, odd cases included (a winner of no known parent, a group
of a question that is gone, a conflict without a source).

## 3. The runs

Every passing run exhausts its instance. `violation` runs check one property
that a doc or a comment states and the code does not keep (section 4).

| Run | Instance | Question and answer |
|---|---|---|
| `reclaim` | 1 run, 3 processes × 1 slot, 2 concurrent callers, heartbeats may starve, 1 recovery, 1 requeue, 1 fault; create, report-spec, resume, cancel | Spend and reports stay bounded, a displaced execution writes nothing, every step is one of the life cycle |
| `answers` | 3 rows, 2 concurrent callers, every verb but resume, 1 process | One replacement per answered run, one run per key |
| `progress` | 2 runs, 2 processes × 1 slot, heartbeats land, crashes, 1 recovery, 1 fault, fairness | Never two executors, slots always add up, a queued run is claimed, a running one ends |
| `audit_chain` | 3 calls of any kind, 2 clients, 1 process, 1 permit, fairness | The chain verifies throughout, locks and permits hold, every call ends |
| `mirror` | 2 rows, 1 driver, 2 sweeps, 1 request, the intake put back to `decomposed` at any time, emails known or not, 2 mishaps | One terminal write per run, no false mail, no delivered run relabelled, one run in flight |
| `orphans` | 1 row, 1 driver, 2 sweeps with late mirrors, 1 resume, 1 mishap, fairness | An orphan whose engine run ended gets its terminal state |
| `engine` | every part of section 2.5, about a million states | 21 properties, below |
| `cancel_ended`, `self_reclaim`, `two_writers`, `stranded`, `resumed` | small | see section 4 |

What `engine` shows, part by part:

| Part | Property | In words |
|---|---|---|
| stage A | `EveryQuestionHandedOver` | a question asked leaves stage A under its label, with a candidate |
| rounds | `NoQuestionLost`, `BoughtOnce` | it keeps a candidate and gets a winner; a look-up is paid in one round |
| tournament | `FairShare` | a newcomer is ranked on as many games as the median incumbent |
| groups | `EveryQuestionGrouped`, `DiscoveryAccounted` | a research group per client question; a discovery is researched or said not to be |
| division | `TrimInOrder` | no area without research; corroboration is lost last and said so truly |
| research | `PaidResultsSurvive`, `NeverPaidTwice` | a committed result stays readable; a first attempt buys nothing recorded |
| claims | `WitnessesKept` | one claim per statement, with all its streams, links and doubts, under the area and group of the list that stated it first |
| verification | `VerdictsDecide`, `DroppedLeavesNoTrace` | the last verdicts decide; no evidence of what fell reaches the writer |
| report | `CitationsLead`, `ProposalBoughtOnce` | a number leads to a source of its claim; the API's requests buy one proposal |
| breaker | `ProbeIsAnswered` | a half-open circuit waits for a caller that is there |
| own | `OneSearchAfterRefusal` | a refusal of the account costs at most one more search per session |
| case | `OnePackPerValidation` | a validation is decomposed once |
| feed, card | `CursorNeverSkips`, `FeedCatchesUp` | a reader misses no stored line; a lagging card is owed a write |
| pipeline | `ShortfallIsTold`, `ResultsFitThePlan` | `completed` means complete; results belong to this plan |

*Why these bounds.* Three processes are what it takes to have an executor, the
one that displaced it and the one that displaced that; two slots what it takes
for a process to meet itself (`self_reclaim`); two callers for a verb to be overtaken between its
read and its write; three rows for a run and two would-be replacements of it. Two
sweeps are two instances after an expired lease; two mishaps let a driver die and
then a sweep. Three audited calls over two clients and one permit give a waiting
call, a lock holder and a stranger. `MaxRequeues`, `MaxFaults`, `MaxResumes` and
`MaxMishaps` bound what users and the environment may do and are in the guards;
`Moves` names the statuses an operator may give the intake meanwhile, in `mirror`
`decomposed`, from which a trigger does not ask for runs in flight; `MaxReclaims` and
`K` are settings of the code. In `engine`, two client questions
(three where groups are cut) let one be served by another's candidate; two
rounds let a bar or a purchase of the first meet the second; three incumbents
and three newcomers give a bye and a catch-up (never its ceiling of 120 games, at
which the code ranks newcomers on fewer and logs it: `FairShare` is about fields below it); two angles of one group and one
stop give a resume that finds one result and one job; three claims of which two
share a sentence let a scrub meet a survivor; two executions are what a second
claim table, a resumed numbering or a restored note takes; two requests beside
two skills are a read-then-write overtaken. The limits named `Max...` of these
modules that are not the code's own are said to be bounds at their declaration.
The runs `reclaim`,
`answers` and `mirror` use symmetry of processes, callers, drivers and sweeps,
which are compared only for equality; the liveness runs use none.

*Deadlock* is checked in the queue's runs, where an idle worker keeps polling. The
chain, the mirror and the stages may stop (a stage ends; a run makes finitely many calls; an operator may
stop asking and the engine may never end), so their cfgs turn the check off.

*Fairness* (`FairSpec`).

- `RunQueue`: weak fairness of a process's loop steps, of a task's consume,
  engine return and terminal write, of restarts (the platform replaces an
  instance that died), and of time; strong fairness of the claim, because the
  locks that make it pass over a row are held for a statement and a process that
  polls again and again does not meet one every time. The engine await is bounded
  by the run ceiling, so it returns, provided no call blocks the event loop for
  good: `asyncio.timeout` interrupts an await and not a synchronous hang
  (`W`:129-133), and `RunningEnds` says nothing of a run stuck in one. Users,
  crashes and faults owe nothing; crashes are unbounded, and the reclaim ceiling is
  what ends a run that keeps killing its worker.
- `AuditChain`: weak fairness of each call's next step: the event loop resumes
  ready coroutines; `asyncio` hands a semaphore or a lock on.
- `ResearchMirror`: weak fairness of started requests, of drivers, of each
  instance's sweep timer, and of time (leases end, heartbeats age). The engine is
  owed nothing: `OrphanRecovered` starts from an engine run that has ended.

## 4. Where the code and its documentation part

| Run | What the text says | What the code does |
|---|---|---|
| `cancel_ended` | `cancel_run`: "cancelling an already-terminal run is a no-op" (`A`:738) | Status is read in one statement and `cancelled` written by id in another; a run that ends between them is overwritten |
| `self_reclaim` | "a displaced worker must write neither a report body nor a rejected-claims ledger onto a run it lost" (`W`:735) | The fence compares `worker_id`, which names a process; with two slots a process that reclaims its own run passes it in both executions |
| `two_writers` | "the per-run 64-bit advisory lock plus the … fencing-token consume … keep the audit chain single-writer" (`W`:939) | API endpoints build clients of their own; two clients read one tail and a paid, answered call loses its row to the unique constraint |
| `stranded` | "self-healing — ANY nestor-api instance can recover ANY orphaned run" (`RC`:590) | The terminal tick commits `completed` before the completion is written; a driver that dies in between leaves a status the sweep never selects |
| `resumed` | "patch_if puts the precondition in the same UPDATE's WHERE, which is the whole guarantee" (`RC`:422) | A resumed row keeps the parked driver's heartbeat; the sweep claims it beside the fresh driver and both finalise |

### Observed while modelling, without a run of their own

None of these is a promise some line of the code or its documents makes and a
run refutes; they are what the modules had to follow where a reader may expect
something else. The modules behave as listed here.

*Queue and status.* With starved heartbeats two executions of one run do go on
side by side (`SingleExecution` needs `HeartbeatsLand`, and what `progress` shows of it
is for heartbeats that land); the fence and
`SpendBounded` limit the damage, and the remark that the token is "sufficient
for exactly-once" (`E`:116) is about claims, not executions. When the success
branch parks a run it sets `completed_at` (`W`:716), although a parked run is
described as not completed (`W`:550, `A`:627).

*Checkpoints and resume.* `_write_output` (`P`:4416) swallows its exceptions, so
the failure branch of `CheckpointStore.put` (`checkpoints.py`:346) is never
taken; a read that fails counts as no checkpoint, and what it held is bought
again. A hard wall while a report is rewritten from the cached bundle (`P`:1465,
before the `try` at `P`:1533) ends in `failed`, not in a park. An interactive run
whose gates could not run is parked after writing and, resumed, goes to the
cached bundle and parks again. Losing the write of the bundle in an interactive
run repeats the whole pipeline and asks the client again. A result without claims
(`P`:2746) carries no terminal facts, so lost streams are not counted in it. A
resume polls the recorded job of a failed angle again; a transient error of that
poll fails the angle while the paid job runs on. The coverage retry goes to the
same provider when the angle's own stream is dark (`research_division.py`:2659).

*Workshop.* Cluster keys are unique within one clustering call (`workshop.py`:2440)
but compared across the whole pool (`workshop_rank.py`:3868). A discovery
question is known by its text alone in one place (`discovery_bracket.py`:231) and
by parent, assumption and text in another. A killed restatement stays in the
population and is screened again.

*Claims and verification.* `_dedupe_claims` normalises to `[a-z0-9 ]`
(`synthesis/steps.py`:2057): claims in another script vanish, "1.5" and "15"
meet. Verdicts in per-claim mode are keyed by the first 80 characters of a text
(`P`:4055), and crashed sessions of that mode book nothing. Each contradiction
drops its loser on its own, so a claim that lost to a loser stays dropped.
Scrubbing a sentence also removes a survivor's evidence that it carries.

*Report.* A second execution doubles the claim ledger (`P`:4010), and pages may be
numbered differently. The advisory lock of a run covers the consume of its claim and no
more (`E`:114-165), so an engine that asks for the proposal of an interactive run
(`P`:4238) and a `GET report-proposal` may both pay for one. If persisting the gaps fails (`P`:1336) the report says no
provider reported a gap, which `P`:4313 says it must not. A section cut off at its
token limit is written as it is.

*Circuits.* `record_failure` returns on a 429 before it takes the probe back
(`reliability.py`:768), so a rate-limited probe that gives up leaves the circuit
half-open for good; `ProbeIsAnswered` names the exception. The search circuit is
a module-level variable of a process that works on several runs and is never
reset by it (`serpapi.py`:628). A search that was answered but could not be
recorded is billed and not counted (`own_researcher.py`:977).

*Feeds.* A duplicate `seq` is called cosmetic, yet a reader's cursor
(`A`:1316) never serves a line numbered behind it; this takes an unreadable
`MAX(seq)`, which `CursorNeverSkips` exempts. Completing an assignment updates the
rows of earlier executions as well (`runs/yield_records.py`:566), as its key has
no execution.

*Intake.* Verbs read and write without row locks: answers can land after the
submit, a stale verb may overwrite a newer status, a double deliver makes two
artifacts and two mails, a delete may remove an intake whose research was just
triggered. A skill swept as failed may still be patched to succeeded; a running
row younger than the sweep's limit at a restart blocks its skill until the next
restart.

## 5. What is proved

TLAPS checks every theorem for all values of the constants, from named
assumptions only, which TLC evaluates in the runs of their module:

- `ConstantsAssumption`, `AuditAssumption`, `MirrorAssumption`: numbers are
  numbers, `None` is not a member of the sets it is added to, there is at least
  one slot, stream, row.
- `PipelineAssumption`: a plan has finitely many angles.
- `IntakeAssumption`, `LoopAssumption`, `DivisionAssumption`,
  `ClaimsAssumption`: ceilings are numbers, and the lists that models and earlier
  stages hand over are lists. `IntakeAssumption` adds that two suffixes of one
  label give two labels, `LoopAssumption` that the pool is finite and indexed by
  numbers.
- `GroupsAssumption`: what the loop hands over and what the grouping model answers
  are lists, the winners and the ranked candidates are questions, and no ranked
  candidate was raised by the evidence (the tournament ranks the client's
  questions before discovery is allocated); the two sizes are numbers.
- `FeedAssumption`: a page and a batch hold at least one line.
- `ReportAssumption`: sources are finitely many and in a strict order (a row's id
  breaks ties), and no request is called `"free"`, the name of the lock without a holder.

The theorems of `SharedStateProofs`, those about `ResearchRun` and those about
`Verification` need none. Four theorems have a hypothesis besides:
`ExecutionIsExclusive` and `FenceHolds` (heartbeats land; one slot per process),
the two about finals of the mirror (`~MirrorsLate`), and `NoQuestionLostHolds`
(`FloorPerQuestion > 0`, below).

*Induction.* The library's induction theorems cannot be instantiated here, so
`Counting` proves the few forms that are needed from one fact, that a nonempty
set of numbers has a least element: a statement about `0..n` as a set
(`Induction`), the existence and the equations of a recursive function
(`RecursionExists`, `RecursionRuns`), and the places of a list sorted by rank
(`RanksDiffer`, `RanksFilled`, `Ascends`). The modules proved about define lists
by recursive functions on the position, each with a lemma (`...Unfolds`) that
gives its equations and a lemma that carries an invariant along it.

**Run queue** (`RunQueueProofs`). `Invariance`: the inductive invariant `IInv` holds.
It adds to the types what the properties alone do not carry from step to step:
slot accounting with "a process that is down has no tasks" and "two tasks of a
process carry different claims" (otherwise removing a task from a *set* might
remove two); a *ledger* that relates, for each run, the engine starts so far, the
token of the row and the claims still in hand to the credit it was given; and that
no claim in hand is from the future. From it: `TypeCorrect`, `NoSlotLeaks`,
`SpendIsBounded`. `ReportsAreBounded` adds a second ledger: every report body
belongs to one landing, and a landing leaves `running`, where only a requeue or
an owned claim can bring it back. `ExecutionIsExclusive` assumes
`HeartbeatsLand` and shows that a row with an execution in progress is fresh,
hence not reclaimable, hence without a rival.

**Refinement** (`RunQueueProofs`). `ImplementsLifecycle`: initial states map to
initial states, and each step to a life-cycle move or a stutter; the ledger gives
the credit a dispatch needs.

**Answers** (`RunQueueProofs`). `KeysAreUnique`, `AnswersAreUnique`: a key or a
parent appears with a row's birth and never changes, so only two births could
break uniqueness; the constraint and the compare-and-swap stop the second.

**Fence** (`RunQueueProofs`). `FenceHolds`: with `K = 1`, a terminal write that
changes the row is by the holder of the row's current claim. `self_reclaim` shows
the assumption is needed.

**Audit chain** (`AuditChainProofs`). `ChainSound` rests on `CInv`: rows are hashed
from their own fields, sequence numbers are unique, every row and every tail in
hand is linked to a row (or to the genesis) *before* it, and the table is closed
downwards; an INSERT at a free number then extends the chain, however old the tail
it was computed from. `LockSound` rests on `LInv` (who is between tail and INSERT
holds the lock; rows are of calls that are over), `PermitsSound` on `PInv` (a
call's permit is counted once, where its client lives). The theorems are for any
number of processes; the run has one.

**Research mirror** (`ResearchMirrorProofs`). `TypeCorrect`; and from `HoldInv`,
which adds to the types what an actor holds between two steps — a status about
to be written is not an in-flight one, a completion about to be mailed was
delivered, the engine's answer to a cancel is not an in-flight status —
`OneInFlightHolds` and `CompletionMailTrueHolds`. The lemma `Writers` is the heart
of both: whoever writes a row, the write takes no delivery back and puts the row
in flight only if it already is or no other row is. Neither theorem assumes that
mirrors are on time.

**Finals of the mirror** (`ResearchMirrorProofs`). `FinalisedOnceHolds` and
`DeliveredNotFailedHolds` do assume it (`~MirrorsLate`, a hypothesis of both
theorems). With `TRUE` TLC finds `FinalisedOnce` violated within the bounds of
`mirror`, and `DeliveredNotFailed` not: its proof needs that a row is final when
it was written once, and so the hypothesis. Four invariants, each used by the
next: what an actor believes of its row is what the row or the engine said
(`KnowInv`); one hand at a time is on a row nobody resumed (`HandInv`); a row that
has been written once has left the in-flight statuses, and no hand and no mirror
is on its way to it (`FinalInv`); what is written, or about to be, agrees with the
engine's end (`DeliveredInv`). One lemma per action says what it leaves of the
facts the invariants are about; the invariants are then kept action by action.

**Stage card** (`SharedStateProofs`). `CardCatchesUp` rests on `FeedInv`: whoever
holds the lock is writing the rows as they are now, because nothing applies a
change while it is held, and the writer and the close exclude each other.

**Circuits** (`SharedStateProofs`). `TheProbeIsAnswered`: only a rate limit leaves a
probe in flight (`BookedProbe`), and a probing caller is at work until it
succeeds, fails or gives up. `OneSearchBehindTheCircuit` rests on `SearchInv`: a
session that sent a search behind the open circuit is not waiting to send
another, and the circuit does not close again.

**Intake** (`SharedStateProofs`). `OnePackPerValidationHolds` rests on `PackInv`:
the packs that succeeded, plus one while the status is `validated_by_client`, are
no more than the validations. A pack succeeds in the transaction that compares the
status with `validated_by_client` and swaps it, so it spends the validation that
is counted; whatever else overwrites the status can only waste one.

**Research checkpoint** (`CheckpointProofs`). `PaidResultsSurviveHolds` rests on
`RecordInv`. A put writes the whole dict as it was dumped and commits whenever it
commits, so the property alone is not inductive; what carries it is that the dict
only grows (`Kept`), that the row goes by the start of the transaction, no two of
which coincide (`Clocked`), and that a dump holds the result of every put begun
before it (`Nested`): the youngest row holds all.

**First attempt** (`CheckpointProofs`). `NeverPaidTwiceHolds` rests on `RecordInv` and
`Hands`. Three parts: an angle that may still want a result has none in memory,
and memory holds what the row and every dump on its way to the row hold
(`Unresulted`); a recorded job was submitted, to a provider that can resume it
(`Submitted`); an angle that has submitted nothing in this attempt still has the
job it was handed on resume, in the dict, in the row and in every dump alike, and
polls that very job unless the provider lost it (`Handed`). So a call that pays
finds neither a result nor a live job in the checkpoint.

**Whole run** (`CheckpointProofs`). `ShortfallIsToldHolds` and
`ResultsFitThePlanHolds` rest on `ToldInv`: from the stage after the one that fell
short on, the notes in memory name the shortfall (`NowInv`), and what is kept for a
later execution, results under the digest of their plan and the bundle with its
notes, says so too (`KeptInv`).

**Stage A** (`WorkshopProofs`). `EveryQuestionHandedOverHolds` follows the list of
candidates through the stage. Labels are made distinct one after the other: among
as many suffixes as labels were given plus one, one is free (`SuffixFresh`). Each
question's first candidate survives the ceiling, because only first candidates of
other questions come before it in the round-robin order and the ceiling is never
below the number of questions. A cluster's first member
serves whatever its members served.

**Rounds** (`WorkshopProofs`). `BoughtOnceHolds`: a text a look-up was bought for
is admitted or barred in the same step (`Remembered`), and neither is taken back.
`NoQuestionLostHolds` rests on `LoopInv`: every question stage A had a candidate
for has one in the pool (a kill of the last one is rescued, a draft gets an index
nothing has), one among those that are ranked, and one among the winners, which
are picked in standing order with `FloorPerQuestion` places for each question. That floor is a setting of the engine
(`NESTOR_TRIBUNAL_WORKSHOP_FLOOR_PER_Q`, five by default) and may be set to zero; then a
question may win nothing, and the theorem says so by its premise.

**Groups** (`WorkshopProofs`). `EveryQuestionGroupedHolds` and
`DiscoveryAccountedHolds` rest on `GroupsInv`, checked by TLC over the hand-overs of
`engine` before it was proved. Its parts: winners, discovery questions and groups are lists of
questions (`GroupLists`); a winner's rank is its place until groups are cut
(`WinnersRanked`); a cross-cutting question is in its list or told
(`CrossPlaced`); once riders are seated every allocated text is in a group or told
(`AllPlaced`). *Coverage* is decided by the check at the end and by nothing before it:
whatever the model answered and `ClampGroups` made of it, `groups` is a list of
groups of questions (`GroupedAre`, by way of `ValidatedPlaces`, `SplitKeeps`,
`MergedDown`, `SplitSizesKeep`), and from any such list each question that no mandate
member serves gets a group whose member serves it (`PromoteServes`, `Repaired`);
making room removes the discovery group only, and stamping ranks changes neither
texts nor parents (`RoomKeeps`, `StampedServes`). No bound on the number of groups is
needed, as coverage outranks the ceiling. What the theorem does not say is that
the groups the model proposed hold every winner: one lost in clamping would be repaired
for its client question and not for itself. *Accounting*: a rider is seated in a
group, turned away or shed, and the latter two are told (`RidersSeated`); what is in
the discovery group stays or is told when the group makes room (`Repaired`).

**Trim** (`WorkshopProofs`). `TrimInOrderHolds` rests on `LadderInv`: the first
angle of an area is protected, and once a copy that a group needs was given up no
group has one to spare, which removing further angles does not change.

**Claims** (`StageProofs`). `WitnessesKeptHolds` rests on `ClaimsInv`, which says
what the lists in hand are: well-formed claims and units, and, once collected,
the claims as the merge of the listed ones with the merged distilled ones. The merge is
a recursion over the list; its invariant (`Merged`) is that the normal forms of the
claims made so far are distinct and that each carries at least the streams, links
and doubts of every entry it stands for, and that it has the text, area, group and
source of the first entry it stands for. Merging into a claim only adds
(`MergeIntoKeeps`), and merging what was merged keeps that (`Chained`). The listed
claims come before the distilled ones in the second merge, so a statement some fact
list made keeps that list's attribution.

**Verification** (`StageProofs`). `VerdictsDecideHolds`: from adjudication on, what is
dropped is what the verdicts say, because the only later verdicts are those of
the re-entry and it adjudicates again (`VerdictsSettled`).
`DroppedLeavesNoTraceHolds` is inductive as it stands: only the scrub reaches the
end, and it purges the sentences of all that fell, to verdicts and to conflicts.

**Report** (`StageProofs`). `CitationsLeadHolds` rests on `ReportInv`: every citation
of a document leads, that is, its number is the position of a source of the very
claim it stands for. The lemmas say that numbering the sources of a table by
first appearance is injective and onto. `ProposalBoughtOnceHolds` is about the API's
requests: whoever is buying holds the run's advisory lock and found no proposal stored
by any of them (`Locked`), so no other request is buying and they store at most one.
It is silent on the engine, which buys without the lock, and on a request whose
transaction failed after it paid: the next one pays again.

**Feed** (`StageProofs`). `CursorNeverSkipsHolds` rests on `FeedInv`, for executions
whose first number was read from the table: table, batch on its way and buffer
are each in rising order and in this order of one another, the cursor is a stored
number, and all up to it was shown. A drain, an INSERT that fails and the
discarding of the oldest line keep the order.

**Model-checked only.** Liveness (`QueuedIsClaimed`, `RunningEnds`, `CallsEnd`,
`OrphanRecovered`): the prover has no ENABLED. `FairShare`: the pairing of a round
in `Tournament` is a `RECURSIVE` operator, which the prover has no backend for.

## 6. Not modelled

- *Run queue*: comparison runs and their judges (a comparison arm is answered by
  the same compare-and-swap); several tenants; prices and token counts; the
  wording of errors and feed events.
- *Stages*: prompts and the parsing of answers (what they may yield is a choice),
  cost estimates and budgets below the trim, PII redaction, triage, the wording
  and layout of the report, embeddings. In `Verification` a batch is judged as
  one step: sessions of a batch touch claims of their own.
- *Audit chain*: costs, `cost_pending` and the placeholder path
  (`insert_placeholder`, `finalize_row`), which no client uses; polling of deep
  research is in `ResearchRun`.
- *Mirror*: the empty-brief refusal (before any write) and the attempt cap (no caller
  the superadmin gate lets through is capped, `RR`:211-230), the park mail's marker, `needs_input`, `needs_report_spec` and `completed_degraded`
  (folded into `queued` and `completed`), the sweep's batch of ten and the
  engine's own reclaim. Reruns of a delivered intake are in the module and its theorems;
  the runs move the intake back to `decomposed` only (`Moves`). `build_completion`
  touches no row and is part of the write it precedes; that the terminal write
  follows it much later is in the model as any number of steps of others.
- *Intake*: attachments, lists and exports, schema validation of answers; two
  intakes at once.
- The components `PROJECT.json` marks `not_modelled`, each with its reason: single
  requests, per-request checks, rendering, user interface and prose.
- Three hazards are listed without a property. A row whose driver never ticked
  (`RR`:609) is known to the source and deferred there; the failure mail inside
  the transaction (`RT`:1090) is not observed by the model; that a rerun may be
  paid beside an engine run the driver gave up on (`RT`:824) is possible in the
  model and contradicts nothing the code promises.

## 7. Where to go on

1. *Abstract mirror*: what the intake is promised about a run (pending, in flight,
   settled, delivered), with `ResearchMirror` shown to implement it.
2. *Queue and mirror together*: the mirror's `eng` replaced by the life cycle
   (`RunLifecycle`), so that a status the mirror can read is one the queue can be
   in; likewise `TribunalPipeline` under `RunQueue` in place of the outcomes
   `RunQueue` chooses from.
3. *Groups, one step further* (`WorkshopGroups`): that validation and clamping return
   a partition of the winners, so that every winner, and not only one per client
   question, is researched. `Grouping` in `WorkshopProofs` carries the nonempty
   groups of known winners; a cover and disjointness would have to be carried
   through the same lemmas.
4. *Tournament*: the pairing of a round as a recursive function, so that
   `FairShare` can be proved.
