----------------------------- MODULE ResearchRun -----------------------------
(***************************************************************************)
(* The deep-research stage and its checkpoints (research_division.py       *)
(* run_angles, pipeline.py, checkpoints.py, the providers' background      *)
(* jobs): every angle is one paid call under a semaphore, a job's id and   *)
(* a result are recorded as they come, an area without any result is tried *)
(* once more, and a run that stopped takes up what was recorded.           *)
(***************************************************************************)
EXTENDS Integers, FiniteSets, Sequences, SequencesExt

CONSTANTS
    Angles,               \* <<[area, stream, group]>>, group 0 when it corroborates nothing
    Fleets,               \* the streams that may be configured: sequences
    Resumable,            \* _RESUMABLE_PROVIDERS
    Concurrency,          \* _ANGLE_CONCURRENCY
    Redispatch,           \* NESTOR_TRIBUNAL_RESUME_REDISPATCH
    MaxConnect,           \* create attempts of a job whose answer was lost
    Plans,                \* digests the division may produce
    MaxStops, MaxFaults   \* bounds: stops of the engine, failures of a provider

VARIABLES
    engine,      \* "down" | "first" | "second" (the coverage retry) | "merged" | "parked"
    enabled,     \* the configured streams, in order
    plan,        \* digest of the angles being researched
    task,        \* angle -> what its coroutine is doing
    memory,      \* key -> the dict this process fills: angle -> result or job
    stored,      \* key -> the latest row by created_at: [start, digest, data]
    job,         \* the providers' background jobs, in order of submission
    clock,       \* transactions started
    safe,        \* angles of this plan whose result was committed (history)
    stops, faults

rvars == <<engine, enabled, plan, task, memory, stored, job, clock, safe, stops, faults>>

Idx == DOMAIN Angles
Nothing == <<>>
Row(n, digest, data) == [start |-> n, digest |-> digest, data |-> data]
Fresh(force) == [st |-> "queued", force |-> force, prov |-> "", job |-> 0, resumed |-> FALSE, tries |-> 0,
                 key |-> "", start |-> 0, dump |-> Nothing]
With(f, i, v) == [x \in DOMAIN f \cup {i} |-> IF x = i THEN v ELSE f[x]]
Returned == {"done", "failed", "restored"}
Active == {"asking", "polling", "writing", "begun", "dumped"}

(* What CheckpointStore.load finds, and what of it is for these very angles.  *)
Loaded(key) == stored[key]
CheckpointFor(key, p) == IF Loaded(key).digest = p THEN Loaded(key).data ELSE Nothing

---------------------------------------------------------------------------
(* The worker starts or resumes the run: recorded results are replayed        *)
(* without a call, every other angle queues for the semaphore.                *)
Resume ==
    /\ engine \in {"down", "parked"}
    /\ \E p \in Plans, fleet \in Fleets :
          LET recorded == CheckpointFor("research", p)
          IN  /\ engine = "down" => (stops = 0 => p = CHOOSE x \in Plans : TRUE)
              /\ plan' = p /\ enabled' = fleet
              /\ memory' = [research |-> recorded, jobs |-> CheckpointFor("jobs", p)]
              /\ task' = [i \in Idx |-> IF i \in DOMAIN recorded
                                        THEN [Fresh("") EXCEPT !.st = "restored", !.prov = recorded[i]]
                                        ELSE Fresh("")]
              /\ safe' = IF p = plan THEN safe ELSE {}
    /\ engine' = "first"
    /\ UNCHANGED <<stored, job, clock, stops, faults>>

(* The angle's own stream when it is configured; a corroborating copy on a    *)
(* dark stream is dropped while a sibling lives; else the streams in turn.    *)
InTurn(i, streams) == streams[((i - 1) % Len(streams)) + 1]
Preferred(i) == IF task[i].force # "" THEN task[i].force ELSE Angles[i].stream
Siblings(i) == {j \in Idx \ {i} : Angles[j].group = Angles[i].group /\ Angles[j].stream \in Range(enabled)}
Skipped(i) == Preferred(i) \notin Range(enabled) /\ Angles[i].group # 0 /\ Siblings(i) # {}
ProviderOf(i) == IF Preferred(i) \in Range(enabled) THEN Preferred(i) ELSE InTurn(i, enabled)

RecordedAnywhere(i, p) == 0                                      \* variant: no id is handed over
(* The recorded job of the angle, when it is with this very provider.         *)
RecordedHere(i, p) ==
    LET jobs == CheckpointFor("jobs", plan)
    IN  IF p \in Resumable /\ i \in DOMAIN jobs /\ jobs[i].prov = p THEN jobs[i].id ELSE 0

OneAngle(i) ==
    /\ engine \in {"first", "second"} /\ task[i].st = "queued"
    /\ \/ /\ Skipped(i)
          /\ task' = [task EXCEPT ![i].st = "failed"]
       \/ /\ ~Skipped(i)
          /\ Cardinality({k \in Idx : task[k].st \in Active}) < Concurrency
          /\ LET p == ProviderOf(i)
                 j == RecordedHere(i, p)
             IN  task' = [task EXCEPT ![i].prov = p, ![i].job = j, ![i].resumed = (j # 0),
                                      ![i].st = IF j # 0 THEN "polling" ELSE "asking"]
    /\ UNCHANGED <<engine, enabled, plan, memory, stored, job, clock, safe, stops, faults>>

Fail(i) ==
    /\ faults < MaxFaults /\ faults' = faults + 1
    /\ task' = [task EXCEPT ![i].st = "failed"]

(* A job is created and paid for.  Its answer may be lost on the way: the     *)
(* call is made again, a job nobody knows of goes on.  The id of a fresh job  *)
(* is recorded before it is polled.                                           *)
NewJob(i) == Append(job, [angle |-> i, prov |-> task[i].prov, plan |-> plan, st |-> "open"])
Writing(i, key) == [task[i] EXCEPT !.st = "writing", !.key = key]

Submit(i) ==
    /\ engine \in {"first", "second"} /\ task[i].st = "asking"
    /\ \/ /\ job' = NewJob(i)
          /\ IF task[i].prov \in Resumable
             THEN /\ task' = [task EXCEPT ![i] = [Writing(i, "jobs") EXCEPT !.job = Len(job')]]
                  /\ memory' = [memory EXCEPT !.jobs = With(@, i, [prov |-> task[i].prov, id |-> Len(job')])]
             ELSE /\ task' = [task EXCEPT ![i].st = "polling", ![i].job = Len(job')]
                  /\ UNCHANGED memory
          /\ UNCHANGED faults
       \/ /\ task[i].prov = "openai" /\ task[i].tries + 1 < MaxConnect /\ faults < MaxFaults
          /\ job' = NewJob(i) /\ faults' = faults + 1
          /\ task' = [task EXCEPT ![i].tries = @ + 1]
          /\ UNCHANGED memory
       \/ Fail(i) /\ UNCHANGED <<job, memory>>
    /\ UNCHANGED <<engine, enabled, plan, stored, clock, safe, stops>>

(* Polling ends with the report, the provider's failure, a poll that failed   *)
(* or ran out of time (the job goes on), or a recorded job that is gone.      *)
Poll(i) ==
    /\ engine \in {"first", "second"} /\ task[i].st = "polling"
    /\ \/ /\ job[task[i].job].st \in {"open", "reported"}
          /\ job' = [job EXCEPT ![task[i].job].st = "reported"]
          /\ memory' = [memory EXCEPT !.research = With(@, i, task[i].prov)]
          /\ task' = [task EXCEPT ![i] = Writing(i, "research")]
          /\ UNCHANGED faults
       \/ Fail(i) /\ UNCHANGED <<job, memory>>
       \/ /\ job[task[i].job].st = "open" /\ Fail(i)
          /\ job' = [job EXCEPT ![task[i].job].st = "failed"]
          /\ UNCHANGED memory
       \/ /\ task[i].resumed /\ faults < MaxFaults /\ faults' = faults + 1
          /\ job' = [job EXCEPT ![task[i].job].st = "gone"]
          /\ task' = [task EXCEPT ![i].st = IF Redispatch THEN "asking" ELSE "failed", ![i].job = 0, ![i].resumed = FALSE]
          /\ UNCHANGED memory
    /\ UNCHANGED <<engine, enabled, plan, stored, clock, safe, stops>>

---------------------------------------------------------------------------
(* CheckpointStore.put: a row of its own, stamped with the start of its       *)
(* transaction; the dict is written out only after that.  A failed write is   *)
(* only logged.                                                               *)
PutBegins(i) ==
    /\ task[i].st = "writing"
    /\ clock' = clock + 1
    /\ task' = [task EXCEPT ![i].st = "begun", ![i].start = clock + 1]
    /\ UNCHANGED <<engine, enabled, plan, memory, stored, job, safe, stops, faults>>

Dump(i) ==
    /\ task[i].st = "begun"
    /\ task' = [task EXCEPT ![i].st = "dumped", ![i].dump = memory[task[i].key]]
    /\ UNCHANGED <<engine, enabled, plan, memory, stored, job, clock, safe, stops, faults>>

LastCommitted(old, new) == new                                   \* variant: rows read by insertion
(* The row a later read finds: the latest created_at, not the last commit.    *)
Latest(old, new) == IF new.start > old.start THEN new ELSE old

Written(i) == [task[i] EXCEPT !.st = IF @ = "dumped" /\ task[i].key = "research" THEN "done" ELSE "polling",
                              !.key = "", !.start = 0, !.dump = Nothing]

Commit(i) ==
    /\ task[i].st = "dumped"
    /\ LET key == task[i].key
       IN  /\ stored' = [stored EXCEPT ![key] = Latest(@, Row(task[i].start, plan, task[i].dump))]
           /\ safe' = IF key = "research" THEN safe \cup {i} ELSE safe
    /\ task' = [task EXCEPT ![i] = Written(i)]
    /\ UNCHANGED <<engine, enabled, plan, memory, job, clock, stops, faults>>

WriteFails(i) ==
    /\ task[i].st = "dumped" /\ faults < MaxFaults
    /\ faults' = faults + 1
    /\ task' = [task EXCEPT ![i] = Written(i)]
    /\ UNCHANGED <<engine, enabled, plan, memory, stored, job, clock, safe, stops>>

---------------------------------------------------------------------------
(* When every call has returned, the angles of an area without any result are *)
(* tried once more on another stream.  No result at all parks the run.        *)
Succeeded == {i \in Idx : task[i].st \in {"done", "restored"}}
Uncovered == {i \in Idx : Angles[i].area \notin {Angles[k].area : k \in Succeeded}}
Alternate(i) == InTurn(i, SelectSeq(enabled, LAMBDA p : p # Angles[i].stream))
Close == engine' = IF Succeeded = {} THEN "parked" ELSE "merged"

Gathered ==
    /\ engine \in {"first", "second"} /\ \A i \in Idx : task[i].st \in Returned
    /\ IF engine = "first" /\ Uncovered # {} /\ Len(enabled) > 1
       THEN /\ engine' = "second"
            /\ task' = [i \in Idx |-> IF i \in Uncovered THEN Fresh(Alternate(i)) ELSE task[i]]
       ELSE Close /\ UNCHANGED task
    /\ stops' = IF engine' = "parked" THEN stops + 1 ELSE stops
    /\ stops' <= MaxStops
    /\ UNCHANGED <<enabled, plan, memory, stored, job, clock, safe, faults>>

(* The process dies: what was not committed is gone, the jobs are not.        *)
EngineStops ==
    /\ engine \in {"first", "second"} /\ stops < MaxStops
    /\ engine' = "down" /\ stops' = stops + 1
    /\ task' = [i \in Idx |-> Fresh("")]
    /\ memory' = [research |-> Nothing, jobs |-> Nothing]
    /\ UNCHANGED <<enabled, plan, stored, job, clock, safe, faults>>

RInit ==
    /\ engine = "down" /\ enabled = Nothing /\ plan = CHOOSE x \in Plans : TRUE
    /\ task = [i \in Idx |-> Fresh("")]
    /\ memory = [research |-> Nothing, jobs |-> Nothing]
    /\ stored = [research |-> Row(0, 0, Nothing), jobs |-> Row(0, 0, Nothing)]
    /\ job = Nothing /\ clock = 0 /\ safe = {} /\ stops = 0 /\ faults = 0

RNext == Resume \/ Gathered \/ EngineStops
            \/ \E i \in Idx : OneAngle(i) \/ Submit(i) \/ Poll(i) \/ PutBegins(i) \/ Dump(i) \/ Commit(i) \/ WriteFails(i)
RSpec == RInit /\ [][RNext]_rvars

---------------------------------------------------------------------------
(* Once the row of a result was committed it stays in the row a resume reads, *)
(* whatever the order in which concurrent puts start, write and commit and    *)
(* wherever the process dies: a paid answer is not lost (checkpoints.py put,  *)
(* pipeline.py _record_angle).                                                *)
PaidResultsSurvive == safe # {} => stored.research.digest = plan /\ safe \subseteq DOMAIN stored.research.data

(* A first attempt never buys what a resume can still have: no call for an    *)
(* angle whose result is stored, none to a provider that has a recorded job   *)
(* of it which is not gone (run_angles resume_results and resume_jobs).       *)
Recorded(i, p) ==
    \/ stored.research.digest = plan /\ i \in DOMAIN stored.research.data
    \/ /\ stored.jobs.digest = plan /\ i \in DOMAIN stored.jobs.data
       /\ stored.jobs.data[i].prov = p /\ job[stored.jobs.data[i].id].st # "gone"
NeverPaidTwice ==
    [][engine = "first" /\ Len(job') > Len(job) => ~Recorded(Last(job').angle, Last(job').prov)]_rvars
=============================================================================
