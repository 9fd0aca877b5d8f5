--------------------------- MODULE CheckpointProofs ---------------------------
(***************************************************************************)
(* What a run may rely on after a stop, for any number of angles, puts,    *)
(* plans, executions and troubles.                                         *)
(*                                                                         *)
(* Research (ResearchRun): the row a resume reads holds every committed    *)
(* result of the plan.  The property alone is not inductive: a put writes  *)
(* the dict as it was when it was dumped and lands later, in any order.    *)
(* What makes it hold is that a dict only grows and that the row goes by   *)
(* the start of the transaction: a dump holds the result of every put that *)
(* began before it, so the youngest row holds them all.  And a first       *)
(* attempt buys nothing a resume could still have: the dicts it started    *)
(* from, the rows and every dump on its way to one agree on the job an     *)
(* angle has as long as that angle submitted none of its own.              *)
(*                                                                         *)
(* The run (TribunalPipeline): a shortfall is noted by the stage that has  *)
(* it, or with the result of that stage when it is restored, and the       *)
(* bundle carries the notes; so a report is completed without a remark     *)
(* only when nothing fell short, and rests on results of its own plan.     *)
(***************************************************************************)
EXTENDS ResearchRun, TribunalPipeline, FiniteSetTheorems, SequenceTheorems, TLAPS

---------------------------------------------------------------------------
(* What the proof needs of the state's form.                                  *)
Coroutine(t) ==
    /\ DOMAIN t = {"st", "force", "prov", "job", "resumed", "tries", "key", "start", "dump"}
    /\ t.key \in {"", "research", "jobs"} /\ t.start \in Nat
Formed ==
    /\ DOMAIN task = Idx /\ \A i \in Idx : Coroutine(task[i])
    /\ DOMAIN memory = {"research", "jobs"}
    /\ DOMAIN stored = {"research", "jobs"} /\ stored.research.start \in Nat
    /\ clock \in Nat /\ safe \subseteq Idx

(* A put of the results: between its transaction's start and its end.         *)
Putting(i) == task[i].st \in {"begun", "dumped"} /\ task[i].key = "research"
Recording(i) == Putting(i) \/ (task[i].st = "writing" /\ task[i].key = "research")
Dumped(i) == Putting(i) /\ task[i].st = "dumped"

(* Transactions started at distinct times, none in the future, and only       *)
(* while the calls run.                                                       *)
Clocked ==
    /\ stored.research.start <= clock
    /\ \A i \in Idx : task[i].st \in {"begun", "dumped"} => task[i].start \in 1 .. clock
    /\ \A i, j \in Idx : Putting(i) /\ Putting(j) /\ task[i].start = task[j].start => i = j
    /\ \A i \in Idx : Recording(i) => engine \in {"first", "second"}

(* The process' dict holds what it recorded, committed or not.                *)
Kept ==
    /\ engine # "down" => safe \subseteq DOMAIN memory.research
    /\ \A i \in Idx : Recording(i) => i \in DOMAIN memory.research

(* A dump holds its own result and that of every put begun before it; one     *)
(* that is to replace the row holds all that was committed.  A put begun      *)
(* before the row that is there was written is in that row.                   *)
Nested ==
    /\ \A i \in Idx : Dumped(i) => i \in DOMAIN task[i].dump
    /\ \A i, j \in Idx : Dumped(i) /\ Putting(j) /\ task[j].start < task[i].start => j \in DOMAIN task[i].dump
    /\ \A i \in Idx : Dumped(i) /\ task[i].start > stored.research.start => safe \subseteq DOMAIN task[i].dump
    /\ \A i \in Idx : Putting(i) /\ task[i].start <= stored.research.start =>
            stored.research.digest = plan /\ i \in DOMAIN stored.research.data

RecordInv == Formed /\ Clocked /\ Kept /\ Nested /\ PaidResultsSurvive

LEMMA WithDomain ==
  ASSUME NEW f, NEW i, NEW v
  PROVE  DOMAIN With(f, i, v) = DOMAIN f \cup {i}
BY DEF With

LEMMA RecordInit == RInit => RecordInv
<1> SUFFICES ASSUME RInit PROVE RecordInv
  OBVIOUS
<1>1. /\ task = [i \in Idx |-> Fresh("")] /\ engine = "down" /\ clock = 0 /\ safe = {}
      /\ memory = [research |-> Nothing, jobs |-> Nothing]
      /\ stored = [research |-> Row(0, 0, Nothing), jobs |-> Row(0, 0, Nothing)]
  BY DEF RInit
<1>2. Formed
  BY <1>1 DEF Formed, Coroutine, Fresh, Row
<1>3. \A i \in Idx : task[i].st = "queued"
  BY <1>1 DEF Fresh
<1>4. \A i \in Idx : ~Recording(i) /\ ~Putting(i) /\ ~Dumped(i)
  BY <1>3 DEF Recording, Putting, Dumped
<1>5. stored.research.start = 0
  BY <1>1 DEF Row
<1>6. Clocked /\ Kept
  <2>1. Clocked
    <3>1. stored.research.start <= clock
      <4>1. clock = 0
        BY <1>1
      <4> QED BY <4>1, <1>5
    <3>2. \A i \in Idx : task[i].st \notin {"begun", "dumped"}
      BY <1>3
    <3> QED BY <1>4, <3>1, <3>2, Zenon DEF Clocked
  <2>2. Kept
    BY <1>1, <1>4 DEF Kept
  <2> QED BY <2>1, <2>2
<1>7. Nested /\ PaidResultsSurvive
  BY <1>1, <1>4 DEF Nested, PaidResultsSurvive
<1> QED BY <1>2, <1>6, <1>7 DEF RecordInv

(* A step that begins and commits no put of results and lets none run on into *)
(* another plan: it may end puts, record a result in the dict, or, if it      *)
(* takes the dict away, take every coroutine with it.                         *)
LEMMA QuietStep ==
  ASSUME RecordInv, Formed', UNCHANGED <<plan, stored, safe, clock>>,
         \A i \in Idx : Recording(i)' => engine' \in {"first", "second"} /\ i \in DOMAIN memory'.research,
         engine' # "down" => engine # "down" /\ DOMAIN memory.research \subseteq DOMAIN memory'.research,
         \A i \in Idx : task'[i].st \in {"begun", "dumped"} =>
             task'[i].st = task[i].st /\ task'[i].key = task[i].key
             /\ task'[i].start = task[i].start /\ task'[i].dump = task[i].dump
  PROVE  RecordInv'
<1>1. \A i \in Idx : Putting(i)' => /\ Putting(i) /\ task'[i].start = task[i].start
                                    /\ task'[i].dump = task[i].dump /\ (Dumped(i)' => Dumped(i))
  BY DEF Putting, Dumped
<1>2. Clocked'
  <2>1. \A i \in Idx : task'[i].st \in {"begun", "dumped"} => task'[i].start \in 1 .. clock'
    BY DEF RecordInv, Clocked
  <2> QED BY <1>1, <2>1 DEF RecordInv, Clocked
<1>3. Kept'
  BY DEF RecordInv, Kept
<1>4. Nested'
  BY <1>1 DEF RecordInv, Nested, Dumped
<1>5. PaidResultsSurvive'
  BY DEF RecordInv, PaidResultsSurvive
<1> QED BY <1>2, <1>3, <1>4, <1>5 DEF RecordInv

(* A step of one coroutine.                                                   *)
Steps(i) ==
    /\ DOMAIN task' = Idx /\ \A j \in Idx : j # i => task'[j] = task[j]
    /\ Coroutine(task'[i])

(* The same for a step of one coroutine that is not putting after it.         *)
LEMMA QuietMove ==
  ASSUME RecordInv, NEW i \in Idx, Steps(i),
         UNCHANGED <<engine, plan, stored, safe, clock>>, DOMAIN memory' = {"research", "jobs"},
         DOMAIN memory.research \subseteq DOMAIN memory'.research,
         task'[i].st \notin {"begun", "dumped"},
         task'[i].st = "writing" /\ task'[i].key = "research" =>
             engine \in {"first", "second"} /\ i \in DOMAIN memory'.research
  PROVE  RecordInv'
<1>2. Formed'
  BY DEF Steps, RecordInv, Formed
<1>3. \A j \in Idx : j # i /\ Recording(j)' => Recording(j)
  BY DEF Steps, Recording, Putting
<1>4. Recording(i)' => task'[i].st = "writing" /\ task'[i].key = "research"
  BY DEF Recording, Putting
<1>5. \A j \in Idx : Recording(j)' => engine' \in {"first", "second"} /\ j \in DOMAIN memory'.research
  BY <1>3, <1>4 DEF RecordInv, Clocked, Kept
<1> QED BY <1>2, <1>5, QuietStep DEF Steps

(* The updates of one coroutine that the actions make.                        *)
LEMMA Turns ==
  ASSUME DOMAIN task = Idx, NEW i \in Idx, Coroutine(task[i]), NEW st,
         task' = [task EXCEPT ![i].st = st]
  PROVE  Steps(i) /\ task'[i].st = st
BY DEF Steps, Coroutine

LEMMA TurnsWithJob ==
  ASSUME DOMAIN task = Idx, NEW i \in Idx, Coroutine(task[i]), NEW st, NEW j,
         task' = [task EXCEPT ![i].st = st, ![i].job = j]
  PROVE  Steps(i) /\ task'[i].st = st
BY DEF Steps, Coroutine

LEMMA TurnsWithoutJob ==
  ASSUME DOMAIN task = Idx, NEW i \in Idx, Coroutine(task[i]), NEW st,
         task' = [task EXCEPT ![i].st = st, ![i].job = 0, ![i].resumed = FALSE]
  PROVE  Steps(i) /\ task'[i].st = st
BY DEF Steps, Coroutine

LEMMA Dispatched ==
  ASSUME DOMAIN task = Idx, NEW i \in Idx, Coroutine(task[i]), NEW st, NEW p, NEW j, NEW b,
         task' = [task EXCEPT ![i].prov = p, ![i].job = j, ![i].resumed = b, ![i].st = st]
  PROVE  Steps(i) /\ task'[i].st = st
BY DEF Steps, Coroutine

(* The actions of a coroutine before and after its put.                       *)
LEMMA CallStep ==
  ASSUME RecordInv, NEW i \in Idx, OneAngle(i) \/ Submit(i) \/ Poll(i) \/ WriteFails(i)
  PROVE  RecordInv'
<1>1. /\ DOMAIN task = Idx /\ Coroutine(task[i]) /\ DOMAIN memory = {"research", "jobs"}
  BY DEF RecordInv, Formed
<1>2. UNCHANGED <<engine, plan, stored, safe, clock>>
  BY DEF OneAngle, Submit, Poll, WriteFails
<1>3. CASE OneAngle(i)
  <2>1. UNCHANGED memory
    BY <1>3 DEF OneAngle
  <2>2. Steps(i) /\ task'[i].st \in {"failed", "polling", "asking"}
    <3>1. CASE task' = [task EXCEPT ![i].st = "failed"]
      BY <1>1, <3>1, Turns
    <3>2. CASE task' = [task EXCEPT ![i].prov = ProviderOf(i), ![i].job = RecordedHere(i, ProviderOf(i)),
                                    ![i].resumed = (RecordedHere(i, ProviderOf(i)) # 0),
                                    ![i].st = IF RecordedHere(i, ProviderOf(i)) # 0 THEN "polling" ELSE "asking"]
      <4> DEFINE st == IF RecordedHere(i, ProviderOf(i)) # 0 THEN "polling" ELSE "asking"
      <4> DEFINE b == RecordedHere(i, ProviderOf(i)) # 0
      <4>1. task' = [task EXCEPT ![i].prov = ProviderOf(i), ![i].job = RecordedHere(i, ProviderOf(i)),
                                 ![i].resumed = b, ![i].st = st]
        BY <3>2
      <4>2. st \in {"polling", "asking"}
        OBVIOUS
      <4> HIDE DEF st, b
      <4> QED BY <1>1, <4>1, <4>2, Dispatched
    <3> QED BY <1>3, <3>1, <3>2 DEF OneAngle
  <2> QED BY <1>1, <1>2, <2>1, <2>2, QuietMove
<1>4. CASE Submit(i)
  <2>1. /\ Steps(i)
        /\ task'[i].st \in {"failed", "polling", "asking", "writing"}
        /\ task'[i].st = "writing" => task'[i].key = "jobs"
    <3>1. CASE task' = [task EXCEPT ![i] = [Writing(i, "jobs") EXCEPT !.job = Len(job')]]
      BY <1>1, <3>1 DEF Writing, Coroutine, Steps
    <3>2. CASE task' = [task EXCEPT ![i].st = "polling", ![i].job = Len(job')]
      <4>1. Steps(i) /\ task'[i].st = "polling"
        BY <1>1, <3>2, TurnsWithJob
      <4> QED BY <4>1
    <3>3. CASE task' = [task EXCEPT ![i].tries = @ + 1]
      <4>1. task[i].st = "asking"
        BY <1>4 DEF Submit
      <4> QED BY <1>1, <3>3, <4>1 DEF Coroutine, Steps
    <3>4. CASE task' = [task EXCEPT ![i].st = "failed"]
      <4>1. Steps(i) /\ task'[i].st = "failed"
        BY <1>1, <3>4, Turns
      <4> QED BY <4>1
    <3> QED BY <1>4, <3>1, <3>2, <3>3, <3>4 DEF Submit, Fail
  <2>2. DOMAIN memory' = {"research", "jobs"} /\ memory'.research = memory.research
    BY <1>1, <1>4 DEF Submit
  <2> QED BY <1>2, <2>1, <2>2, QuietMove
<1>5. CASE Poll(i)
  <2>1. CASE /\ memory' = memory
             /\ \/ task' = [task EXCEPT ![i].st = "failed"]
                \/ task' = [task EXCEPT ![i].st = IF Redispatch THEN "asking" ELSE "failed", ![i].job = 0, ![i].resumed = FALSE]
    <3> DEFINE st == IF Redispatch THEN "asking" ELSE "failed"
    <3>1. st \in {"asking", "failed"}
      OBVIOUS
    <3>2. task' = [task EXCEPT ![i].st = "failed"] \/ task' = [task EXCEPT ![i].st = st, ![i].job = 0, ![i].resumed = FALSE]
      BY <2>1
    <3> HIDE DEF st
    <3>3. Steps(i) /\ task'[i].st \in {"failed", "asking"}
      BY <1>1, <3>1, <3>2, Turns, TurnsWithoutJob
    <3> QED BY <1>1, <1>2, <2>1, <3>3, QuietMove
  <2>2. CASE memory' = [memory EXCEPT !.research = With(@, i, task[i].prov)] /\ task' = [task EXCEPT ![i] = Writing(i, "research")]
    <3>1. DOMAIN memory' = {"research", "jobs"} /\ DOMAIN memory'.research = DOMAIN memory.research \cup {i}
      BY <1>1, <2>2, WithDomain
    <3>2. Steps(i) /\ task'[i].st = "writing"
      BY <1>1, <2>2 DEF Writing, Coroutine, Steps
    <3>3. engine \in {"first", "second"}
      BY <1>5 DEF Poll
    <3> QED BY <1>2, <3>1, <3>2, <3>3, QuietMove
  <2> QED BY <1>5, <2>1, <2>2 DEF Poll, Fail
<1>6. CASE WriteFails(i)
  <2>1. UNCHANGED memory /\ task' = [task EXCEPT ![i] = Written(i)]
    BY <1>6 DEF WriteFails
  <2>2. Steps(i) /\ task'[i].st \in {"done", "polling"}
    BY <1>1, <2>1 DEF Written, Coroutine, Steps
  <2> QED BY <1>1, <1>2, <2>1, <2>2, QuietMove
<1> QED BY <1>3, <1>4, <1>5, <1>6

(* The run as a whole: its end, its retry, and the death of the process.      *)
LEMMA RunStep ==
  ASSUME RecordInv, Gathered \/ EngineStops
  PROVE  RecordInv'
<1>1. /\ DOMAIN task = Idx /\ \A i \in Idx : Coroutine(task[i])
      /\ DOMAIN memory = {"research", "jobs"}
  BY DEF RecordInv, Formed
<1>2. \A p : Coroutine(Fresh(p)) /\ Fresh(p).st = "queued"
  BY DEF Coroutine, Fresh
<1>3. UNCHANGED <<plan, stored, safe, clock>>
  BY DEF Gathered, EngineStops
<1>4. CASE Gathered
  <2>1. \A i \in Idx : task[i].st \in Returned
    BY <1>4 DEF Gathered
  <2>2. UNCHANGED memory /\ engine' # "down" /\ engine # "down"
    BY <1>4 DEF Gathered, Close
  <2>3. DOMAIN task' = Idx /\ \A i \in Idx : Coroutine(task'[i]) /\ task'[i].st \in Returned \cup {"queued"}
    BY <1>1, <1>2, <1>4, <2>1 DEF Gathered
  <2>4. \A i \in Idx : ~Recording(i)'
    BY <2>3 DEF Recording, Putting, Returned
  <2>5. Formed'
    BY <1>3, <2>2, <2>3 DEF RecordInv, Formed
  <2> QED BY <1>3, <2>2, <2>3, <2>4, <2>5, QuietStep DEF Returned
<1>5. CASE EngineStops
  <2>1. DOMAIN task' = Idx /\ \A i \in Idx : Coroutine(task'[i]) /\ task'[i].st = "queued"
    BY <1>2, <1>5 DEF EngineStops
  <2>2. engine' = "down" /\ DOMAIN memory' = {"research", "jobs"}
    BY <1>5 DEF EngineStops
  <2>3. \A i \in Idx : ~Recording(i)'
    BY <2>1 DEF Recording, Putting
  <2>4. Formed'
    BY <1>3, <2>1, <2>2 DEF RecordInv, Formed
  <2> QED BY <1>3, <2>1, <2>2, <2>3, <2>4, QuietStep
<1> QED BY <1>4, <1>5

(* A resume begins no put and reads what the committed results are in, unless *)
(* the plan is another one, which has no committed results yet.               *)
LEMMA ResumeStep ==
  ASSUME RecordInv, Resume
  PROVE  RecordInv'
<1>1. PICK p \in Plans, fleet \in Fleets :
        LET recorded == CheckpointFor("research", p)
        IN  /\ plan' = p
            /\ memory' = [research |-> recorded, jobs |-> CheckpointFor("jobs", p)]
            /\ task' = [i \in Idx |-> IF i \in DOMAIN recorded
                                      THEN [Fresh("") EXCEPT !.st = "restored", !.prov = recorded[i]]
                                      ELSE Fresh("")]
            /\ safe' = IF p = plan THEN safe ELSE {}
  BY DEF Resume
<1>2. UNCHANGED <<stored, clock>> /\ engine' = "first"
  BY DEF Resume
<1>3. \A v : /\ Coroutine(Fresh("")) /\ Coroutine([Fresh("") EXCEPT !.st = "restored", !.prov = v])
             /\ Fresh("").st = "queued" /\ [Fresh("") EXCEPT !.st = "restored", !.prov = v].st = "restored"
  BY DEF Coroutine, Fresh
<1>4. DOMAIN task' = Idx /\ \A i \in Idx : Coroutine(task'[i]) /\ task'[i].st \in {"queued", "restored"}
  BY <1>1, <1>3
<1>5. \A i \in Idx : ~Recording(i)' /\ ~Putting(i)' /\ ~Dumped(i)'
  BY <1>4 DEF Recording, Putting, Dumped
<1>6. Formed'
  BY <1>1, <1>2, <1>4 DEF RecordInv, Formed
<1>7. PaidResultsSurvive'
  BY <1>1, <1>2 DEF RecordInv, PaidResultsSurvive
<1>8. Kept'
  <2>1. CASE safe' = {}
    BY <2>1, <1>5 DEF Kept
  <2>2. CASE p = plan /\ safe # {}
    <3>1. memory'.research = stored.research.data /\ safe' = safe
      BY <1>1, <2>2 DEF RecordInv, PaidResultsSurvive, CheckpointFor, Loaded
    <3> QED BY <2>2, <3>1, <1>5 DEF RecordInv, PaidResultsSurvive, Kept
  <2> QED BY <1>1, <2>1, <2>2
<1>9. Clocked'
  BY <1>2, <1>4, <1>5 DEF RecordInv, Clocked
<1>10. Nested'
  BY <1>5 DEF Nested
<1> QED BY <1>6, <1>7, <1>8, <1>9, <1>10 DEF RecordInv

(* A put starts last: its transaction is younger than every other and than    *)
(* the row.                                                                   *)
LEMMA BeginStep ==
  ASSUME RecordInv, NEW i \in Idx, PutBegins(i)
  PROVE  RecordInv'
<1>1. /\ DOMAIN task = Idx /\ Coroutine(task[i]) /\ clock \in Nat /\ stored.research.start \in Nat
      /\ stored.research.start <= clock
  BY DEF RecordInv, Formed, Clocked
<1>2. UNCHANGED <<engine, plan, memory, stored, safe>> /\ clock' = clock + 1 /\ task[i].st = "writing"
  BY DEF PutBegins
<1>3. Steps(i) /\ task'[i].st = "begun" /\ task'[i].key = task[i].key /\ task'[i].start = clock + 1
  <2>1. task' = [task EXCEPT ![i].st = "begun", ![i].start = clock']
    BY <1>2 DEF PutBegins
  <2>2. clock' \in Nat
    BY <1>1, <1>2
  <2>3. Steps(i) /\ task'[i].st = "begun" /\ task'[i].key = task[i].key /\ task'[i].start = clock'
    BY <1>1, <2>1, <2>2 DEF Coroutine, Steps
  <2> QED BY <1>2, <2>3
<1>4. Formed'
  BY <1>1, <1>2, <1>3 DEF RecordInv, Formed, Steps
<1>5. \A j \in Idx : j # i => task'[j] = task[j] /\ (Putting(j)' <=> Putting(j)) /\ (Dumped(j)' <=> Dumped(j))
                              /\ (Recording(j)' <=> Recording(j))
  BY <1>3 DEF Steps, Recording, Putting, Dumped
<1>6. ~Dumped(i)' /\ (Putting(i)' => Recording(i))
  BY <1>2, <1>3 DEF Dumped, Recording, Putting
<1>7. \A j \in Idx : j # i /\ task'[j].st \in {"begun", "dumped"} => task'[j].start \in 1 .. clock
  BY <1>5 DEF RecordInv, Clocked
<1>8. Clocked'
  <2>1. \A j \in Idx : task'[j].st \in {"begun", "dumped"} => task'[j].start \in 1 .. clock'
    BY <1>1, <1>2, <1>3, <1>7
  <2>2. \A j, k \in Idx : Putting(j)' /\ Putting(k)' /\ task'[j].start = task'[k].start => j = k
    <3>1. \A j \in Idx : j # i /\ Putting(j)' => task'[j].start < task'[i].start
      BY <1>1, <1>3, <1>7 DEF Putting
    <3>2. \A j \in Idx : j # i /\ Putting(j)' => task'[j].start # task'[i].start
      BY <1>1, <1>3, <1>7 DEF Putting
    <3> QED BY <1>5, <3>2 DEF RecordInv, Clocked
  <2>3. \A j \in Idx : Recording(j)' => Recording(j)
    BY <1>5, <1>6, <1>3 DEF Recording
  <2>4. stored'.research.start <= clock'
    BY <1>1, <1>2
  <2> QED BY <1>2, <2>1, <2>2, <2>3, <2>4 DEF RecordInv, Clocked
<1>9. Kept'
  <2>1. \A j \in Idx : Recording(j)' => Recording(j)
    BY <1>5, <1>6, <1>3 DEF Recording
  <2> QED BY <1>2, <2>1 DEF RecordInv, Kept
<1>10. Nested'
  <2>1. \A j \in Idx : Dumped(j)' => j # i /\ Dumped(j) /\ task'[j] = task[j] /\ task[j].start < task'[i].start
    <3>1. \A j \in Idx : Dumped(j)' => j # i /\ Dumped(j) /\ task'[j] = task[j]
      BY <1>5, <1>6
    <3>2. \A j \in Idx : Dumped(j) => task[j].start \in 1 .. clock
      BY DEF RecordInv, Clocked, Dumped, Putting
    <3> QED BY <1>1, <1>3, <3>1, <3>2
  <2>2. \A j \in Idx : Dumped(j)' => ~(task'[i].start < task'[j].start)
    <3>1. \A j \in Idx : Dumped(j) => task[j].start \in 1 .. clock
      BY DEF RecordInv, Clocked, Dumped, Putting
    <3> QED BY <1>1, <1>3, <2>1, <3>1
  <2>3. ~(task'[i].start <= stored'.research.start)
    BY <1>1, <1>2, <1>3
  <2> QED BY <1>2, <1>5, <2>1, <2>2, <2>3 DEF RecordInv, Nested
<1>11. PaidResultsSurvive'
  BY <1>2 DEF RecordInv, PaidResultsSurvive
<1> QED BY <1>4, <1>8, <1>9, <1>10, <1>11 DEF RecordInv

(* What is dumped is the dict as it is now: it holds what was committed and   *)
(* what is being put.                                                         *)
LEMMA DumpStep ==
  ASSUME RecordInv, NEW i \in Idx, Dump(i)
  PROVE  RecordInv'
<1>1. DOMAIN task = Idx /\ Coroutine(task[i])
  BY DEF RecordInv, Formed
<1>2. UNCHANGED <<engine, plan, memory, stored, safe, clock>> /\ task[i].st = "begun"
  BY DEF Dump
<1>3. /\ Steps(i) /\ task'[i].st = "dumped" /\ task'[i].key = task[i].key /\ task'[i].start = task[i].start
      /\ task'[i].dump = memory[task[i].key]
  BY <1>1 DEF Dump, Coroutine, Steps
<1>4. Formed'
  BY <1>1, <1>2, <1>3 DEF RecordInv, Formed, Steps
<1>5. \A j \in Idx : j # i => task'[j] = task[j] /\ (Dumped(j)' <=> Dumped(j))
  BY <1>3 DEF Steps, Putting, Dumped
<1>6. \A j \in Idx : /\ task'[j].start = task[j].start
                     /\ (Putting(j)' <=> Putting(j)) /\ (Recording(j)' <=> Recording(j))
                     /\ (task'[j].st \in {"begun", "dumped"} <=> task[j].st \in {"begun", "dumped"})
  BY <1>2, <1>3, <1>5 DEF Recording, Putting
<1>7. Clocked'
  BY <1>2, <1>6 DEF RecordInv, Clocked
<1>8. Kept'
  BY <1>2, <1>6 DEF RecordInv, Kept
<1>9. Dumped(i)' => /\ task'[i].dump = memory.research /\ engine # "down"
                    /\ \A j \in Idx : Putting(j) => j \in DOMAIN memory.research
                    /\ safe \subseteq DOMAIN memory.research
  <2>1. Dumped(i)' => task[i].key = "research" /\ Recording(i)
    BY <1>2, <1>3 DEF Dumped, Putting, Recording
  <2>2. \A j \in Idx : Putting(j) => Recording(j)
    BY DEF Recording
  <2> QED BY <1>3, <2>1, <2>2 DEF RecordInv, Clocked, Kept
<1>10. Nested'
  <2>1. Dumped(i)' => Putting(i)
    BY <1>6 DEF Dumped
  <2>2. \A j \in Idx : Dumped(j)' => j \in DOMAIN task'[j].dump
    BY <1>5, <1>9, <2>1 DEF RecordInv, Nested
  <2>3. \A j, k \in Idx : Dumped(j)' /\ Putting(k)' /\ task'[k].start < task'[j].start => k \in DOMAIN task'[j].dump
    BY <1>5, <1>6, <1>9 DEF RecordInv, Nested
  <2>4. \A j \in Idx : Dumped(j)' /\ task'[j].start > stored'.research.start => safe' \subseteq DOMAIN task'[j].dump
    BY <1>2, <1>5, <1>9 DEF RecordInv, Nested
  <2>5. \A j \in Idx : Putting(j)' /\ task'[j].start <= stored'.research.start =>
             stored'.research.digest = plan' /\ j \in DOMAIN stored'.research.data
    BY <1>2, <1>6 DEF RecordInv, Nested
  <2> QED BY <2>2, <2>3, <2>4, <2>5 DEF Nested
<1>11. PaidResultsSurvive'
  BY <1>2 DEF RecordInv, PaidResultsSurvive
<1> QED BY <1>4, <1>7, <1>8, <1>10, <1>11 DEF RecordInv

(* A commit of results becomes the row if it is younger, and then holds all   *)
(* that was committed; an older one is in the row already.                    *)
LEMMA CommitStep ==
  ASSUME RecordInv, NEW i \in Idx, Commit(i), task[i].key = "research"
  PROVE  RecordInv'
<1> DEFINE new == Row(task[i].start, plan, task[i].dump)
<1>1. /\ DOMAIN task = Idx /\ Coroutine(task[i]) /\ DOMAIN stored = {"research", "jobs"}
      /\ stored.research.start \in Nat /\ task[i].start \in Nat /\ clock \in Nat
  BY DEF RecordInv, Formed, Coroutine
<1>2. /\ UNCHANGED <<engine, plan, memory, clock>> /\ safe' = safe \cup {i} /\ Dumped(i)
      /\ task' = [task EXCEPT ![i] = Written(i)]
  BY DEF Commit, Dumped, Putting
<1>3. DOMAIN stored' = {"research", "jobs"} /\ stored'.research = Latest(stored.research, new)
  BY <1>1 DEF Commit
<1>4. Steps(i) /\ task'[i].st = "done"
  BY <1>1, <1>2 DEF Written, Coroutine, Steps, Dumped, Putting
<1>5. new.start = task[i].start /\ new.digest = plan /\ new.data = task[i].dump
  BY DEF Row
<1>6. \/ /\ task[i].start > stored.research.start
         /\ stored'.research.start = task[i].start
         /\ stored'.research.digest = plan /\ stored'.research.data = task[i].dump
      \/ ~(task[i].start > stored.research.start) /\ stored'.research = stored.research
  BY <1>3, <1>5 DEF Latest
<1>7. Formed'
  BY <1>1, <1>2, <1>3, <1>4, <1>6 DEF RecordInv, Formed, Steps
<1>8. /\ ~Recording(i)' /\ ~Putting(i)' /\ ~Dumped(i)'
      /\ \A j \in Idx : j # i => /\ task'[j] = task[j] /\ (Putting(j)' <=> Putting(j))
                                 /\ (Dumped(j)' <=> Dumped(j)) /\ (Recording(j)' <=> Recording(j))
  BY <1>4 DEF Steps, Recording, Putting, Dumped
<1>9. /\ Recording(i) /\ task[i].start \in 1 .. clock
      /\ \A j \in Idx : Putting(j) => task[j].start \in 1 .. clock
      /\ \A j \in Idx : Putting(j) /\ j # i => task[j].start # task[i].start
  BY <1>2 DEF RecordInv, Clocked, Recording, Putting, Dumped
<1>10. Clocked'
  <2>1. stored'.research.start <= clock'
    BY <1>1, <1>2, <1>6, <1>9 DEF RecordInv, Clocked
  <2>2. \A j \in Idx : task'[j].st \in {"begun", "dumped"} => task'[j].start \in 1 .. clock'
    BY <1>2, <1>4, <1>8 DEF RecordInv, Clocked
  <2> QED BY <1>2, <1>8, <2>1, <2>2 DEF RecordInv, Clocked
<1>11. Kept'
  BY <1>2, <1>8, <1>9 DEF RecordInv, Kept
<1>12. PaidResultsSurvive' /\ stored'.research.digest = plan /\ i \in DOMAIN stored'.research.data
       /\ safe \subseteq DOMAIN stored'.research.data
  <2>1. CASE task[i].start > stored.research.start /\ stored'.research.data = task[i].dump /\ stored'.research.digest = plan
    BY <1>2, <2>1 DEF RecordInv, Nested, PaidResultsSurvive
  <2>2. CASE ~(task[i].start > stored.research.start) /\ stored'.research = stored.research
    <3>1. task[i].start <= stored.research.start
      BY <1>1, <2>2
    <3>2. stored.research.digest = plan /\ i \in DOMAIN stored.research.data
      BY <1>2, <3>1 DEF RecordInv, Nested, Dumped
    <3>3. safe \subseteq DOMAIN stored.research.data
      BY DEF RecordInv, PaidResultsSurvive
    <3> QED BY <1>2, <2>2, <3>2, <3>3 DEF PaidResultsSurvive
  <2> QED BY <1>6, <2>1, <2>2
<1>13. Nested'
  <2>1. \A j \in Idx : Dumped(j)' => j # i /\ Dumped(j) /\ task'[j] = task[j]
    BY <1>8
  <2>2. \A j \in Idx : Dumped(j)' => j \in DOMAIN task'[j].dump
    BY <2>1 DEF RecordInv, Nested
  <2>3. \A j, k \in Idx : Dumped(j)' /\ Putting(k)' /\ task'[k].start < task'[j].start => k \in DOMAIN task'[j].dump
    BY <1>8, <2>1 DEF RecordInv, Nested
  <2>4. ASSUME NEW j \in Idx, Dumped(j)', task'[j].start > stored'.research.start
        PROVE  safe' \subseteq DOMAIN task'[j].dump
    <3>1. j # i /\ Dumped(j) /\ Putting(j) /\ task'[j] = task[j] /\ task[j].start \in Nat
      BY <1>9, <2>1, <2>4 DEF Dumped
    <3>2. task[j].start > stored.research.start /\ task[i].start < task[j].start
      BY <1>1, <1>6, <2>4, <3>1
    <3>3. safe \subseteq DOMAIN task[j].dump /\ i \in DOMAIN task[j].dump
      BY <1>2, <3>1, <3>2 DEF RecordInv, Nested, Dumped
    <3> QED BY <1>2, <3>1, <3>3
  <2>5. ASSUME NEW j \in Idx, Putting(j)', task'[j].start <= stored'.research.start
        PROVE  stored'.research.digest = plan' /\ j \in DOMAIN stored'.research.data
    <3>1. j # i /\ Putting(j) /\ task'[j] = task[j] /\ task[j].start \in Nat
      BY <1>8, <1>9, <2>5
    <3>2. CASE /\ stored'.research.start = task[i].start
               /\ stored'.research.digest = plan /\ stored'.research.data = task[i].dump
      <4>1. task[j].start < task[i].start
        BY <1>1, <1>9, <2>5, <3>1, <3>2
      <4> QED BY <1>2, <3>1, <3>2, <4>1 DEF RecordInv, Nested
    <3>3. CASE stored'.research = stored.research
      BY <1>2, <2>5, <3>1, <3>3 DEF RecordInv, Nested
    <3> QED BY <1>6, <3>2, <3>3
  <2> QED BY <2>2, <2>3, <2>4, <2>5 DEF Nested
<1> QED BY <1>7, <1>10, <1>11, <1>12, <1>13 DEF RecordInv

(* A commit of job ids touches neither the results nor a put of them.         *)
LEMMA CommitJobStep ==
  ASSUME RecordInv, NEW i \in Idx, Commit(i), task[i].key # "research"
  PROVE  RecordInv'
<1>1. /\ DOMAIN task = Idx /\ Coroutine(task[i]) /\ DOMAIN stored = {"research", "jobs"}
      /\ stored.research.start \in Nat
  BY DEF RecordInv, Formed
<1>2. /\ UNCHANGED <<engine, plan, memory, clock, safe>> /\ task' = [task EXCEPT ![i] = Written(i)]
  BY DEF Commit
<1>3. DOMAIN stored' = {"research", "jobs"} /\ stored'.research = stored.research
  BY <1>1 DEF Commit
<1>4. Steps(i) /\ task'[i].st = "polling"
  BY <1>1, <1>2 DEF Written, Coroutine, Steps
<1>5. Formed'
  BY <1>1, <1>2, <1>3, <1>4 DEF RecordInv, Formed, Steps
<1>6. /\ ~Recording(i)' /\ ~Putting(i)' /\ ~Dumped(i)'
      /\ \A j \in Idx : j # i => /\ task'[j] = task[j] /\ (Putting(j)' <=> Putting(j))
                                 /\ (Dumped(j)' <=> Dumped(j)) /\ (Recording(j)' <=> Recording(j))
  BY <1>4 DEF Steps, Recording, Putting, Dumped
<1>7. Clocked'
  <2>1. \A j \in Idx : task'[j].st \in {"begun", "dumped"} => task'[j].start \in 1 .. clock'
    BY <1>2, <1>4, <1>6 DEF RecordInv, Clocked
  <2> QED BY <1>2, <1>3, <1>6, <2>1 DEF RecordInv, Clocked
<1>8. Kept'
  BY <1>2, <1>6 DEF RecordInv, Kept
<1>9. Nested'
  BY <1>2, <1>3, <1>6 DEF RecordInv, Nested
<1>10. PaidResultsSurvive'
  BY <1>2, <1>3 DEF RecordInv, PaidResultsSurvive
<1> QED BY <1>5, <1>7, <1>8, <1>9, <1>10 DEF RecordInv

(* The invariant is inductive.                                                *)
LEMMA RecordStep == RecordInv /\ [RNext]_rvars => RecordInv'
<1> SUFFICES ASSUME RecordInv, [RNext]_rvars PROVE RecordInv'
  OBVIOUS
<1>1. ASSUME NEW i \in Idx, OneAngle(i) \/ Submit(i) \/ Poll(i) \/ WriteFails(i) PROVE RecordInv'
  BY <1>1, CallStep
<1>2. ASSUME NEW i \in Idx, PutBegins(i) PROVE RecordInv'
  BY <1>2, BeginStep
<1>3. ASSUME NEW i \in Idx, Dump(i) PROVE RecordInv'
  BY <1>3, DumpStep
<1>4. ASSUME NEW i \in Idx, Commit(i) PROVE RecordInv'
  BY <1>4, CommitStep, CommitJobStep
<1>5. CASE Resume
  BY <1>5, ResumeStep
<1>6. CASE Gathered \/ EngineStops
  BY <1>6, RunStep
<1>7. CASE UNCHANGED rvars
  BY <1>7 DEF rvars, RecordInv, Formed, Clocked, Kept, Nested, PaidResultsSurvive, Recording, Putting, Dumped
<1> QED BY <1>1, <1>2, <1>3, <1>4, <1>5, <1>6, <1>7 DEF RNext

(* Once the row of a result was committed it stays in the row a resume reads, *)
(* for any number of angles, concurrent puts, stops and plans.                *)
THEOREM PaidResultsSurviveHolds == RSpec => []PaidResultsSurvive
<1>1. RecordInv => PaidResultsSurvive
  BY DEF RecordInv
<1> QED BY <1>1, RecordInit, RecordStep, PTL DEF RSpec

---------------------------------------------------------------------------
(* What a resume hands over.  A result is in the dict, or its coroutine may   *)
(* still want one; the dict holds what the row and every dump of it hold.     *)
Wanting(i) == \/ task[i].st \in {"queued", "asking", "polling", "failed"}
              \/ task[i].st \in {"writing", "begun", "dumped"} /\ task[i].key # "research"
Unresulted ==
    /\ \A i \in Idx : Wanting(i) => i \notin DOMAIN memory.research
    /\ \A i \in Idx : task[i].st = "dumped" /\ task[i].key = "research" =>
            DOMAIN task[i].dump \subseteq DOMAIN memory.research
    /\ engine # "down" /\ stored.research.digest = plan =>
            DOMAIN stored.research.data \subseteq DOMAIN memory.research

(* Every recorded job is one that was submitted, to a resumable provider.     *)
SomeSeq(s) == \E S : s \in Seq(S)
JobOf(e) == e.prov \in Resumable /\ e.id \in DOMAIN job
JobIds(dict) == \A k \in DOMAIN dict : JobOf(dict[k])
DumpsJobs(i) == task[i].st = "dumped" /\ task[i].key = "jobs"
Submitted ==
    /\ SomeSeq(job) /\ \A k \in DOMAIN job : "st" \in DOMAIN job[k]
    /\ JobIds(memory.jobs) /\ JobIds(stored.jobs.data)
    /\ \A i \in Idx : DumpsJobs(i) => JobIds(task[i].dump)

(* In the first attempt an angle that submitted nothing has the recorded job  *)
(* it had when the run was resumed: the dict, the row and every dump on its   *)
(* way to the row agree on it; it polls that very job, or that job is gone,   *)
(* or it is another provider's.                                               *)
Fresher(i) == task[i].st \in {"queued", "asking"} \/ (task[i].st = "polling" /\ task[i].resumed)
Agree(dict, i) == /\ i \in DOMAIN dict <=> i \in DOMAIN memory.jobs
                  /\ i \in DOMAIN dict => dict[i] = memory.jobs[i]
Handed ==
    /\ \A i \in Idx : Wanting(i) /\ task[i].st \notin {"polling", "failed"} => ~task[i].resumed
    /\ engine = "first" => \A i \in Idx :
          /\ Fresher(i) => /\ Agree(CheckpointFor("jobs", plan), i)
                           /\ \A k \in Idx : DumpsJobs(k) => Agree(task[k].dump, i)
          /\ task[i].st = "polling" /\ task[i].resumed =>
                i \in DOMAIN memory.jobs /\ task[i].job = memory.jobs[i].id
          /\ task[i].st = "asking" /\ i \in DOMAIN memory.jobs /\ memory.jobs[i].prov = task[i].prov =>
                job[memory.jobs[i].id].st = "gone"
Hands == Unresulted /\ Submitted /\ Handed

LEMMA HandsInit == RInit => Hands
<1> SUFFICES ASSUME RInit PROVE Hands
  OBVIOUS
<1>1. /\ task = [i \in Idx |-> Fresh("")] /\ engine = "down" /\ job = <<>>
      /\ memory = [research |-> Nothing, jobs |-> Nothing]
      /\ stored = [research |-> Row(0, 0, Nothing), jobs |-> Row(0, 0, Nothing)]
  BY DEF RInit, Nothing
<1>2. \A i \in Idx : task[i].st = "queued" /\ ~task[i].resumed
  BY <1>1 DEF Fresh
<1>3. DOMAIN memory.research = {} /\ DOMAIN memory.jobs = {} /\ DOMAIN stored.jobs.data = {}
  <2>1. DOMAIN Nothing = {}
    BY DEF Nothing
  <2>2. memory.research = Nothing /\ memory.jobs = Nothing /\ stored.jobs.data = Nothing
    BY <1>1 DEF Row
  <2> QED BY <2>1, <2>2
<1>4. SomeSeq(job) /\ DOMAIN job = {}
  <2>1. <<>> \in Seq({}) /\ DOMAIN <<>> = {}
    BY EmptySeq
  <2> QED BY <1>1, <2>1, Zenon DEF SomeSeq
<1>5. Unresulted
  BY <1>1, <1>2, <1>3 DEF Unresulted
<1>6. Submitted
  BY <1>2, <1>3, <1>4 DEF Submitted, JobIds, DumpsJobs
<1>7. Handed
  BY <1>1, <1>2 DEF Handed
<1> QED BY <1>5, <1>6, <1>7 DEF Hands

(* Submitting appends; no step takes a job back, and a job that is gone       *)
(* stays gone.                                                                *)
JobsKept ==
    /\ SomeSeq(job') /\ DOMAIN job \subseteq DOMAIN job'
    /\ \A k \in DOMAIN job' : "st" \in DOMAIN job'[k]
    /\ \A k \in DOMAIN job : job[k].st = "gone" => job'[k].st = "gone"

LEMMA JobUpdate ==
  ASSUME Submitted, NEW n, NEW st, job' = [job EXCEPT ![n].st = st],
         n \in DOMAIN job /\ job[n].st = "gone" => st = "gone"
  PROVE  JobsKept /\ Len(job') = Len(job)
<1>1. PICK S : job \in Seq(S)
  BY DEF Submitted, SomeSeq
<1>2. DOMAIN job' = DOMAIN job
  OBVIOUS
<1>3. \A k \in DOMAIN job : "st" \in DOMAIN job'[k] /\ (job[k].st = "gone" => job'[k].st = "gone")
  BY DEF Submitted
<1>4. job' \in Seq({job'[k] : k \in DOMAIN job})
  <2>1. Len(job) \in Nat /\ DOMAIN job = 1 .. Len(job)
    BY <1>1, LenProperties
  <2> DEFINE U == {job'[k] : k \in DOMAIN job}
  <2>2. job' = [k \in 1 .. Len(job) |-> job'[k]]
    BY <1>2, <2>1
  <2>3. \A k \in 1 .. Len(job) : job'[k] \in U
    BY <2>1
  <2> HIDE DEF U
  <2>4. [k \in 1 .. Len(job) |-> job'[k]] \in Seq(U)
    BY <2>1, <2>3, IsASeq
  <2> QED BY <2>2, <2>4 DEF U
<1>5. Len(job') = Len(job)
  BY <1>1, <1>2, <1>4, LenProperties
<1> QED BY <1>2, <1>3, <1>4, <1>5 DEF JobsKept, SomeSeq

LEMMA JobAppend ==
  ASSUME Submitted, NEW i \in Idx, job' = NewJob(i)
  PROVE  /\ JobsKept /\ Len(job') = Len(job) + 1 /\ Len(job) \in Nat
         /\ Len(job') \in DOMAIN job' /\ Last(job').angle = i /\ Last(job').prov = task[i].prov
<1>1. PICK S : job \in Seq(S)
  BY DEF Submitted, SomeSeq
<1> DEFINE e == [angle |-> i, prov |-> task[i].prov, plan |-> plan, st |-> "open"]
           U == S \cup {e}
<1>2. job \in Seq(U) /\ e \in U
  BY <1>1, SeqMonotonic
<1>3. job' = Append(job, e)
  BY DEF NewJob
<1>4. "st" \in DOMAIN e /\ e.angle = i /\ e.prov = task[i].prov
  OBVIOUS
<1> HIDE DEF e, U
<1>5. /\ job' \in Seq(U) /\ Len(job') = Len(job) + 1 /\ job'[Len(job) + 1] = e
      /\ \A k \in 1 .. Len(job) : job'[k] = job[k]
  BY <1>2, <1>3, AppendProperties
<1>6. Len(job) \in Nat /\ DOMAIN job = 1 .. Len(job) /\ DOMAIN job' = 1 .. Len(job) + 1
  BY <1>2, <1>5, LenProperties
<1>7. \A k \in DOMAIN job' : "st" \in DOMAIN job'[k]
  BY <1>4, <1>5, <1>6 DEF Submitted
<1>8. JobsKept
  BY <1>5, <1>6, <1>7 DEF JobsKept, SomeSeq
<1> QED BY <1>4, <1>5, <1>6, <1>8 DEF Last

(* Ids that were given stay given.                                            *)
LEMMA JobIdsKept ==
  ASSUME JobsKept, NEW dict, JobIds(dict)
  PROVE  JobIds(dict)'
BY DEF JobsKept, JobIds, JobOf

(* A step of one coroutine that neither records a job nor writes a row.       *)
LEMMA CoroutineMove ==
  ASSUME Hands, NEW i \in Idx, Steps(i), JobsKept, UNCHANGED <<engine, plan, stored>>,
         memory'.jobs = memory.jobs,
         DOMAIN memory.research \subseteq DOMAIN memory'.research,
         DOMAIN memory'.research \subseteq DOMAIN memory.research \cup {i},
         Wanting(i)' => i \notin DOMAIN memory'.research,
         Wanting(i)' /\ task'[i].st \notin {"polling", "failed"} => ~task'[i].resumed,
         task'[i].st = "dumped" => task'[i].dump = memory[task'[i].key] /\ memory' = memory,
         engine = "first" /\ Fresher(i)' => Fresher(i),
         engine = "first" /\ task'[i].st = "polling" /\ task'[i].resumed =>
             i \in DOMAIN memory.jobs /\ task'[i].job = memory.jobs[i].id,
         engine = "first" /\ task'[i].st = "asking" /\ i \in DOMAIN memory.jobs
             /\ memory.jobs[i].prov = task'[i].prov => job'[memory.jobs[i].id].st = "gone"
  PROVE  Hands'
<1>1. \A j \in Idx : j # i => /\ task'[j] = task[j] /\ (Wanting(j)' <=> Wanting(j))
                              /\ (Fresher(j)' <=> Fresher(j)) /\ (DumpsJobs(j)' <=> DumpsJobs(j))
  BY DEF Steps, Wanting, Fresher, DumpsJobs
<1>2. DumpsJobs(i)' => task'[i].dump = memory.jobs
  BY DEF DumpsJobs
<1>3. Unresulted'
  <2>1. \A j \in Idx : Wanting(j)' => j \notin DOMAIN memory'.research
    BY <1>1 DEF Hands, Unresulted
  <2>2. \A j \in Idx : task'[j].st = "dumped" /\ task'[j].key = "research" =>
            DOMAIN task'[j].dump \subseteq DOMAIN memory'.research
    BY <1>1 DEF Hands, Unresulted
  <2>3. engine' # "down" /\ stored'.research.digest = plan' => DOMAIN stored'.research.data \subseteq DOMAIN memory'.research
    BY DEF Hands, Unresulted
  <2> QED BY <2>1, <2>2, <2>3 DEF Unresulted
<1>4. Submitted'
  <2>1. JobIds(memory.jobs)' /\ JobIds(stored.jobs.data)'
    BY JobIdsKept DEF Hands, Submitted, JobIds, JobOf
  <2>2. ASSUME NEW j \in Idx, DumpsJobs(j)'
        PROVE  JobIds(task[j].dump)'
    <3>1. JobIds(task'[j].dump)
      BY <1>1, <1>2, <2>2 DEF Hands, Submitted
    <3> QED BY <3>1 DEF JobsKept, JobIds, JobOf
  <2> QED BY <2>1, <2>2 DEF Submitted, JobsKept
<1>5. Handed'
  <2>1. \A j \in Idx : Wanting(j)' /\ task'[j].st \notin {"polling", "failed"} => ~task'[j].resumed
    BY <1>1 DEF Hands, Handed
  <2>2. ASSUME NEW j \in Idx, engine = "first"
        PROVE  /\ Fresher(j)' => /\ Agree(CheckpointFor("jobs", plan), j)'
                                 /\ \A k \in Idx : DumpsJobs(k)' => Agree(task[k].dump, j)'
               /\ task'[j].st = "polling" /\ task'[j].resumed =>
                     j \in DOMAIN memory'.jobs /\ task'[j].job = memory'.jobs[j].id
               /\ task'[j].st = "asking" /\ j \in DOMAIN memory'.jobs /\ memory'.jobs[j].prov = task'[j].prov =>
                     job'[memory'.jobs[j].id].st = "gone"
    <3>1. Fresher(j)' => Fresher(j)
      BY <1>1, <2>2
    <3>2. Fresher(j) => Agree(CheckpointFor("jobs", plan), j)'
      BY <2>2 DEF Hands, Handed, Agree, CheckpointFor, Loaded
    <3>3. ASSUME Fresher(j), NEW k \in Idx, DumpsJobs(k)'
          PROVE  Agree(task[k].dump, j)'
      <4>1. Agree(task'[k].dump, j)
        BY <1>1, <1>2, <2>2, <3>3 DEF Hands, Handed, Agree
      <4> QED BY <4>1 DEF Agree
    <3>4. j # i => /\ task'[j].st = "polling" /\ task'[j].resumed =>
                         j \in DOMAIN memory'.jobs /\ task'[j].job = memory'.jobs[j].id
                   /\ task'[j].st = "asking" /\ j \in DOMAIN memory'.jobs /\ memory'.jobs[j].prov = task'[j].prov =>
                         job'[memory'.jobs[j].id].st = "gone"
      BY <1>1, <2>2 DEF Hands, Handed, Submitted, JobIds, JobOf, JobsKept
    <3> QED BY <2>2, <3>1, <3>2, <3>3, <3>4
  <2> QED BY <2>1, <2>2 DEF Handed
<1> QED BY <1>3, <1>4, <1>5 DEF Hands

LEMMA JobsStill ==
  ASSUME Submitted, UNCHANGED job
  PROVE  JobsKept
BY DEF Submitted, JobsKept, SomeSeq

(* An angle is asked for only when no job of this provider is recorded.       *)
LEMMA OneAngleHands ==
  ASSUME Formed, Hands, NEW i \in Idx, OneAngle(i)
  PROVE  Hands'
<1>1. DOMAIN task = Idx /\ Coroutine(task[i])
  BY DEF Formed
<1>2. JobsKept /\ UNCHANGED <<engine, plan, stored, memory, job>> /\ task[i].st = "queued"
  BY JobsStill DEF OneAngle, Hands
<1>3. CASE task' = [task EXCEPT ![i].st = "failed"]
  <2>1. Steps(i) /\ task'[i].st = "failed"
    BY <1>1, <1>3, Turns
  <2> QED BY <1>2, <2>1, CoroutineMove DEF Hands, Unresulted, Wanting, Fresher
<1> DEFINE p == ProviderOf(i)
           j == RecordedHere(i, ProviderOf(i))
<1>4. CASE task' = [task EXCEPT ![i].prov = p, ![i].job = j, ![i].resumed = (j # 0),
                                ![i].st = IF j # 0 THEN "polling" ELSE "asking"]
  <2>1. /\ Steps(i) /\ task'[i].prov = p /\ task'[i].job = j
        /\ IF j # 0 THEN task'[i].st = "polling" ELSE task'[i].st = "asking" /\ ~task'[i].resumed
    <3> HIDE DEF p, j
    <3> DEFINE st == IF j # 0 THEN "polling" ELSE "asking"
               b == (j # 0)
    <3>1. task' = [task EXCEPT ![i].prov = p, ![i].job = j, ![i].resumed = b, ![i].st = st]
      BY <1>4
    <3>2. (j # 0 => st = "polling") /\ (j = 0 => st = "asking" /\ ~b)
      OBVIOUS
    <3> HIDE DEF st, b
    <3>3. Steps(i) /\ task'[i].st = st /\ task'[i].prov = p /\ task'[i].job = j /\ task'[i].resumed = b
      BY <1>1, <3>1 DEF Steps, Coroutine
    <3> QED BY <3>2, <3>3
  <2>2. Wanting(i) /\ Fresher(i)
    BY <1>2 DEF Wanting, Fresher
  <2>3. engine = "first" => Agree(CheckpointFor("jobs", plan), i)
    BY <2>2 DEF Hands, Handed
  <2>4. engine = "first" /\ j # 0 => i \in DOMAIN memory.jobs /\ j = memory.jobs[i].id
    BY <2>3 DEF RecordedHere, Agree
  <2>5. engine = "first" /\ j = 0 /\ i \in DOMAIN memory.jobs => memory.jobs[i].prov # p
    <3>1. ASSUME engine = "first", i \in DOMAIN memory.jobs, memory.jobs[i].prov = p
          PROVE  j # 0
      <4>1. memory.jobs[i].prov \in Resumable /\ memory.jobs[i].id \in DOMAIN job
        BY <3>1 DEF Hands, Submitted, JobIds, JobOf
      <4>2. memory.jobs[i].id # 0
        BY <4>1, LenProperties DEF Hands, Submitted, SomeSeq
      <4>3. j = memory.jobs[i].id
        BY <2>3, <3>1, <4>1 DEF RecordedHere, Agree
      <4> QED BY <4>2, <4>3
    <3> QED BY <3>1
  <2> HIDE DEF p, j
  <2>6. i \notin DOMAIN memory.research
    BY <2>2 DEF Hands, Unresulted
  <2> QED BY <1>2, <2>1, <2>2, <2>4, <2>5, <2>6, CoroutineMove
<1> QED BY <1>3, <1>4 DEF OneAngle

(* The updates of Submit and Poll.                                            *)
LEMMA SubmitHands ==
  ASSUME Formed, Hands, NEW i \in Idx, Submit(i)
  PROVE  Hands'
<1>1. DOMAIN task = Idx /\ Coroutine(task[i]) /\ DOMAIN memory = {"research", "jobs"}
  BY DEF Formed
<1>2. UNCHANGED <<engine, plan, stored>> /\ task[i].st = "asking" /\ memory'.research = memory.research
  BY <1>1 DEF Submit
<1>3. Wanting(i) /\ Fresher(i) /\ ~task[i].resumed /\ i \notin DOMAIN memory.research
  BY <1>2 DEF Wanting, Fresher, Hands, Handed, Unresulted
<1>4. CASE UNCHANGED <<job, memory>> /\ task' = [task EXCEPT ![i].st = "failed"]
  <2>1. Steps(i) /\ task'[i].st = "failed" /\ JobsKept
    BY <1>1, <1>4, Turns, JobsStill DEF Hands
  <2> QED BY <1>2, <1>3, <1>4, <2>1, CoroutineMove DEF Fresher
<1>5. CASE UNCHANGED memory /\ job' = NewJob(i) /\ task' = [task EXCEPT ![i].tries = @ + 1]
  <2>1. Steps(i) /\ task'[i].st = "asking" /\ task'[i].prov = task[i].prov /\ task'[i].resumed = task[i].resumed
    BY <1>1, <1>2, <1>5 DEF Steps, Coroutine
  <2>2. JobsKept
    BY <1>5, JobAppend DEF Hands
  <2>3. engine = "first" /\ i \in DOMAIN memory.jobs /\ memory.jobs[i].prov = task[i].prov =>
            job[memory.jobs[i].id].st = "gone" /\ memory.jobs[i].id \in DOMAIN job
    BY <1>2 DEF Hands, Handed, Submitted, JobIds, JobOf
  <2> QED BY <1>2, <1>3, <1>5, <2>1, <2>2, <2>3, CoroutineMove DEF JobsKept
<1>6. CASE UNCHANGED memory /\ job' = NewJob(i) /\ task' = [task EXCEPT ![i].st = "polling", ![i].job = Len(job')]
  <2>1. Steps(i) /\ task'[i].st = "polling" /\ task'[i].resumed = task[i].resumed
    BY <1>1, <1>2, <1>6 DEF Steps, Coroutine
  <2>2. JobsKept
    BY <1>6, JobAppend DEF Hands
  <2> QED BY <1>2, <1>3, <1>6, <2>1, <2>2, CoroutineMove
<1>7. CASE /\ job' = NewJob(i) /\ task[i].prov \in Resumable
           /\ task' = [task EXCEPT ![i] = [Writing(i, "jobs") EXCEPT !.job = Len(job')]]
           /\ memory' = [memory EXCEPT !.jobs = With(@, i, [prov |-> task[i].prov, id |-> Len(job')])]
  <2> DEFINE e == [prov |-> task[i].prov, id |-> Len(job')]
  <2>1. Steps(i) /\ task'[i].st = "writing" /\ task'[i].key = "jobs" /\ task'[i].resumed = task[i].resumed
    BY <1>1, <1>7 DEF Steps, Coroutine, Writing
  <2>2. JobsKept /\ Len(job') \in DOMAIN job'
    BY <1>7, JobAppend DEF Hands
  <2>3. memory'.jobs = With(memory.jobs, i, e)
    BY <1>1, <1>7
  <2>4. DOMAIN memory'.jobs = DOMAIN memory.jobs \cup {i} /\ memory'.jobs[i] = e
        /\ \A k \in DOMAIN memory.jobs : k # i => memory'.jobs[k] = memory.jobs[k]
    BY <2>3 DEF With
  <2>5. e.prov \in Resumable /\ e.id \in DOMAIN job'
    BY <1>7, <2>2
  <2> HIDE DEF e
  <2>6. \A j \in Idx : j # i => /\ task'[j] = task[j] /\ (Wanting(j)' <=> Wanting(j))
                                /\ (Fresher(j)' <=> Fresher(j)) /\ (DumpsJobs(j)' <=> DumpsJobs(j))
    BY <2>1 DEF Steps, Wanting, Fresher, DumpsJobs
  <2>7. ~Fresher(i)' /\ ~DumpsJobs(i)' /\ Wanting(i)'
    BY <2>1 DEF Fresher, DumpsJobs, Wanting
  <2>8. Unresulted'
    <3>1. \A j \in Idx : Wanting(j)' => j \notin DOMAIN memory'.research
      BY <1>2, <1>3, <2>6 DEF Hands, Unresulted
    <3>2. \A j \in Idx : task'[j].st = "dumped" /\ task'[j].key = "research" =>
              DOMAIN task'[j].dump \subseteq DOMAIN memory'.research
      BY <1>2, <2>1, <2>6 DEF Hands, Unresulted
    <3>3. engine' # "down" /\ stored'.research.digest = plan' => DOMAIN stored'.research.data \subseteq DOMAIN memory'.research
      BY <1>2 DEF Hands, Unresulted
    <3> QED BY <3>1, <3>2, <3>3 DEF Unresulted
  <2>9. Submitted'
    <3>1. JobIds(stored.jobs.data)'
      BY <1>2, <2>2, JobIdsKept DEF Hands, Submitted, JobIds, JobOf, JobsKept
    <3>2. JobIds(memory.jobs)'
      BY <2>2, <2>4, <2>5 DEF Hands, Submitted, JobIds, JobOf, JobsKept
    <3>3. \A j \in Idx : DumpsJobs(j)' => JobIds(task[j].dump)'
      BY <2>2, <2>6, <2>7 DEF Hands, Submitted, JobIds, JobOf, JobsKept
    <3> QED BY <2>2, <3>1, <3>2, <3>3 DEF Submitted, JobsKept
  <2>10. Handed'
    <3>1. \A j \in Idx : Wanting(j)' /\ task'[j].st \notin {"polling", "failed"} => ~task'[j].resumed
      BY <1>3, <2>1, <2>6 DEF Hands, Handed
    <3>2. ASSUME NEW j \in Idx, engine = "first", j # i
          PROVE  /\ Fresher(j)' => /\ Agree(CheckpointFor("jobs", plan), j)'
                                   /\ \A k \in Idx : DumpsJobs(k)' => Agree(task[k].dump, j)'
                 /\ task'[j].st = "polling" /\ task'[j].resumed =>
                       j \in DOMAIN memory'.jobs /\ task'[j].job = memory'.jobs[j].id
                 /\ task'[j].st = "asking" /\ j \in DOMAIN memory'.jobs /\ memory'.jobs[j].prov = task'[j].prov =>
                       job'[memory'.jobs[j].id].st = "gone"
      <4>1. j \in DOMAIN memory'.jobs <=> j \in DOMAIN memory.jobs
        BY <2>4, <3>2
      <4>2. j \in DOMAIN memory.jobs => memory'.jobs[j] = memory.jobs[j] /\ memory.jobs[j].id \in DOMAIN job
        BY <2>4, <3>2 DEF Hands, Submitted, JobIds, JobOf
      <4>3. Fresher(j) => Agree(CheckpointFor("jobs", plan), j)'
        BY <1>2, <3>2, <4>1, <4>2 DEF Hands, Handed, Agree, CheckpointFor, Loaded
      <4>4. ASSUME Fresher(j), NEW k \in Idx, DumpsJobs(k)'
            PROVE  Agree(task[k].dump, j)'
        BY <2>6, <2>7, <3>2, <4>1, <4>2, <4>4 DEF Hands, Handed, Agree
      <4>5. task'[j] = task[j] /\ (Fresher(j)' <=> Fresher(j))
        BY <2>6, <3>2
      <4> QED BY <2>2, <3>2, <4>1, <4>2, <4>3, <4>4, <4>5 DEF Hands, Handed, JobsKept
    <3>3. task'[i].st = "writing"
      BY <2>1
    <3> QED BY <1>2, <2>7, <3>1, <3>2, <3>3 DEF Handed
  <2> QED BY <2>8, <2>9, <2>10 DEF Hands
<1> QED BY <1>4, <1>5, <1>6, <1>7 DEF Submit, Fail

(* A report ends the wanting; a resumed job that is gone may be replaced.     *)
LEMMA PollHands ==
  ASSUME Formed, Hands, NEW i \in Idx, Poll(i)
  PROVE  Hands'
<1>1. DOMAIN task = Idx /\ Coroutine(task[i]) /\ DOMAIN memory = {"research", "jobs"}
  BY DEF Formed
<1>2. UNCHANGED <<engine, plan, stored>> /\ task[i].st = "polling" /\ memory'.jobs = memory.jobs
  BY <1>1 DEF Poll
<1>3. Wanting(i) /\ i \notin DOMAIN memory.research
  BY <1>2 DEF Wanting, Hands, Unresulted
<1>4. CASE /\ job[task[i].job].st \in {"open", "reported"}
           /\ job' = [job EXCEPT ![task[i].job].st = "reported"]
           /\ memory' = [memory EXCEPT !.research = With(@, i, task[i].prov)]
           /\ task' = [task EXCEPT ![i] = Writing(i, "research")]
  <2>1. Steps(i) /\ task'[i].st = "writing" /\ task'[i].key = "research"
    BY <1>1, <1>4 DEF Steps, Coroutine, Writing
  <2>2. JobsKept
    BY <1>4, JobUpdate DEF Hands
  <2>3. DOMAIN memory'.research = DOMAIN memory.research \cup {i}
    BY <1>1, <1>4, WithDomain
  <2>4. ~Wanting(i)' /\ ~Fresher(i)'
    BY <2>1 DEF Wanting, Fresher
  <2> QED BY <1>2, <2>1, <2>2, <2>3, <2>4, CoroutineMove
<1>5. CASE /\ UNCHANGED memory /\ task' = [task EXCEPT ![i].st = "failed"]
           /\ UNCHANGED job \/ (job[task[i].job].st = "open" /\ job' = [job EXCEPT ![task[i].job].st = "failed"])
  <2>1. Steps(i) /\ task'[i].st = "failed"
    BY <1>1, <1>5, Turns
  <2>2. JobsKept
    BY <1>5, JobUpdate, JobsStill DEF Hands
  <2> QED BY <1>2, <1>3, <1>5, <2>1, <2>2, CoroutineMove DEF Fresher
<1>6. CASE /\ task[i].resumed /\ UNCHANGED memory
           /\ job' = [job EXCEPT ![task[i].job].st = "gone"]
           /\ task' = [task EXCEPT ![i].st = IF Redispatch THEN "asking" ELSE "failed", ![i].job = 0, ![i].resumed = FALSE]
  <2>1. Steps(i) /\ task'[i].st \in {"asking", "failed"} /\ ~task'[i].resumed
    <3> DEFINE st == IF Redispatch THEN "asking" ELSE "failed"
    <3>1. st \in {"asking", "failed"}
      OBVIOUS
    <3>2. task' = [task EXCEPT ![i].st = st, ![i].job = 0, ![i].resumed = FALSE]
      BY <1>6
    <3> HIDE DEF st
    <3>3. Steps(i) /\ task'[i].st = st /\ task'[i].resumed = FALSE
      BY <1>1, <3>2 DEF Steps, Coroutine
    <3> QED BY <3>1, <3>3
  <2>2. JobsKept
    BY <1>6, JobUpdate DEF Hands
  <2>3. Fresher(i)
    BY <1>2, <1>6 DEF Fresher
  <2>4. engine = "first" => i \in DOMAIN memory.jobs /\ task[i].job = memory.jobs[i].id
    BY <1>2, <1>6 DEF Hands, Handed
  <2>5. engine = "first" => job'[memory.jobs[i].id].st = "gone"
    BY <1>6, <2>4 DEF Hands, Submitted, JobIds, JobOf
  <2> QED BY <1>2, <1>3, <1>6, <2>1, <2>2, <2>3, <2>5, CoroutineMove
<1> QED BY <1>4, <1>5, <1>6 DEF Poll, Fail

(* A put, up to its commit; what is dumped is the dict of now.                *)
LEMMA PutHands ==
  ASSUME Formed, Hands, NEW i \in Idx, PutBegins(i) \/ Dump(i) \/ WriteFails(i)
  PROVE  Hands'
<1>1. DOMAIN task = Idx /\ Coroutine(task[i]) /\ clock \in Nat
  BY DEF Formed
<1>2. UNCHANGED <<engine, plan, stored, memory, job>> /\ JobsKept
  BY JobsStill DEF PutBegins, Dump, WriteFails, Hands
<1>3. task[i].st \in {"writing", "begun", "dumped"}
  BY DEF PutBegins, Dump, WriteFails
<1>4. task[i].key # "research" => i \notin DOMAIN memory.research /\ ~task[i].resumed
  BY <1>3 DEF Wanting, Hands, Unresulted, Handed
<1>5. CASE PutBegins(i)
  <2>1. clock' \in Nat /\ task' = [task EXCEPT ![i].st = "begun", ![i].start = clock']
    BY <1>1, <1>5 DEF PutBegins
  <2>2. Steps(i) /\ task'[i].st = "begun" /\ task'[i].key = task[i].key /\ task'[i].resumed = task[i].resumed
    BY <1>1, <2>1 DEF Steps, Coroutine
  <2>3. ~Fresher(i)' /\ (Wanting(i)' => task[i].key # "research")
    BY <2>2 DEF Fresher, Wanting
  <2> QED BY <1>2, <1>4, <2>2, <2>3, CoroutineMove
<1>6. CASE Dump(i)
  <2>1. task' = [task EXCEPT ![i].st = "dumped", ![i].dump = memory[task[i].key]]
    BY <1>6 DEF Dump
  <2>2. Steps(i) /\ task'[i].st = "dumped" /\ task'[i].key = task[i].key /\ task'[i].resumed = task[i].resumed
        /\ task'[i].dump = memory[task[i].key]
    BY <1>1, <2>1 DEF Steps, Coroutine
  <2>3. ~Fresher(i)' /\ (Wanting(i)' => task[i].key # "research")
    BY <2>2 DEF Fresher, Wanting
  <2> QED BY <1>2, <1>4, <2>2, <2>3, CoroutineMove
<1>7. CASE WriteFails(i)
  <2>1. task' = [task EXCEPT ![i] = Written(i)] /\ task[i].st = "dumped"
    BY <1>7 DEF WriteFails
  <2>2. Steps(i) /\ task'[i].st = (IF task[i].key = "research" THEN "done" ELSE "polling") /\ task'[i].resumed = task[i].resumed
    BY <1>1, <2>1 DEF Written, Coroutine, Steps
  <2>3. ~Fresher(i)' /\ (Wanting(i)' => task[i].key # "research")
    BY <1>4, <2>2 DEF Fresher, Wanting
  <2> QED BY <1>2, <1>4, <2>2, <2>3, CoroutineMove DEF Fresher
<1> QED BY <1>5, <1>6, <1>7

(* A row is replaced by a dump that agrees with the dict.                     *)
LEMMA CommitHands ==
  ASSUME Formed, Hands, NEW i \in Idx, Commit(i)
  PROVE  Hands'
<1>1. DOMAIN task = Idx /\ Coroutine(task[i]) /\ DOMAIN stored = {"research", "jobs"}
  BY DEF Formed
<1>2. UNCHANGED <<engine, plan, memory, job>> /\ task[i].st = "dumped" /\ task' = [task EXCEPT ![i] = Written(i)]
      /\ JobsKept
  BY JobsStill DEF Commit, Hands
<1>3. Steps(i) /\ task'[i].st = (IF task[i].key = "research" THEN "done" ELSE "polling") /\ task'[i].resumed = task[i].resumed
  BY <1>1, <1>2 DEF Written, Coroutine, Steps
<1>4. task[i].key # "research" => i \notin DOMAIN memory.research /\ ~task[i].resumed
  BY <1>2 DEF Wanting, Hands, Unresulted, Handed
<1>5. \A j \in Idx : j # i => /\ task'[j] = task[j] /\ (Wanting(j)' <=> Wanting(j))
                              /\ (Fresher(j)' <=> Fresher(j)) /\ (DumpsJobs(j)' <=> DumpsJobs(j))
  BY <1>3 DEF Steps, Wanting, Fresher, DumpsJobs
<1>6. ~Fresher(i)' /\ ~DumpsJobs(i)' /\ (Wanting(i)' => task[i].key # "research") /\ task'[i].st # "asking"
      /\ ~(task'[i].st = "polling" /\ task'[i].resumed)
  BY <1>3, <1>4 DEF Fresher, DumpsJobs, Wanting
<1>7. /\ \/ stored'.research = stored.research
         \/ task[i].key = "research" /\ stored'.research.data = task[i].dump
      /\ \/ stored'.jobs = stored.jobs
         \/ task[i].key = "jobs" /\ stored'.jobs.data = task[i].dump /\ stored'.jobs.digest = plan
  <2>1. stored' = [stored EXCEPT ![task[i].key] = Latest(@, Row(task[i].start, plan, task[i].dump))]
    BY DEF Commit
  <2> QED BY <1>1, <2>1 DEF Latest, Row
<1>8. Unresulted'
  <2>1. \A j \in Idx : Wanting(j)' => j \notin DOMAIN memory'.research
    BY <1>2, <1>4, <1>5, <1>6 DEF Hands, Unresulted
  <2>2. \A j \in Idx : task'[j].st = "dumped" /\ task'[j].key = "research" =>
            DOMAIN task'[j].dump \subseteq DOMAIN memory'.research
    BY <1>2, <1>3, <1>5 DEF Hands, Unresulted
  <2>3. engine' # "down" /\ stored'.research.digest = plan' => DOMAIN stored'.research.data \subseteq DOMAIN memory'.research
    BY <1>2, <1>7 DEF Hands, Unresulted
  <2> QED BY <2>1, <2>2, <2>3 DEF Unresulted
<1>9. Submitted'
  <2>1. JobIds(stored'.jobs.data)
    BY <1>2, <1>7 DEF Hands, Submitted, DumpsJobs
  <2> QED BY <1>2, <1>5, <1>6, <2>1 DEF Hands, Submitted, JobIds, JobOf
<1>10. Handed'
  <2>1. \A j \in Idx : Wanting(j)' /\ task'[j].st \notin {"polling", "failed"} => ~task'[j].resumed
    BY <1>3, <1>4, <1>5, <1>6 DEF Hands, Handed
  <2>2. ASSUME NEW j \in Idx, engine = "first", j # i, Fresher(j)
        PROVE  Agree(CheckpointFor("jobs", plan), j)'
    <3>1. CASE stored'.jobs = stored.jobs
      BY <1>2, <2>2, <3>1 DEF Hands, Handed, Agree, CheckpointFor, Loaded
    <3>2. CASE task[i].key = "jobs" /\ stored'.jobs.data = task[i].dump /\ stored'.jobs.digest = plan
      <4>1. Agree(task[i].dump, j)
        BY <1>2, <2>2, <3>2 DEF Hands, Handed, DumpsJobs
      <4> QED BY <1>2, <3>2, <4>1 DEF Agree, CheckpointFor, Loaded
    <3> QED BY <1>7, <3>1, <3>2
  <2>3. ASSUME NEW j \in Idx, engine = "first", j # i
        PROVE  /\ Fresher(j)' => \A k \in Idx : DumpsJobs(k)' => Agree(task[k].dump, j)'
               /\ task'[j].st = "polling" /\ task'[j].resumed =>
                     j \in DOMAIN memory'.jobs /\ task'[j].job = memory'.jobs[j].id
               /\ task'[j].st = "asking" /\ j \in DOMAIN memory'.jobs /\ memory'.jobs[j].prov = task'[j].prov =>
                     job'[memory'.jobs[j].id].st = "gone"
    BY <1>2, <1>5, <1>6, <2>3 DEF Hands, Handed, Agree
  <2> QED BY <1>2, <1>5, <1>6, <2>1, <2>2, <2>3 DEF Handed
<1> QED BY <1>8, <1>9, <1>10 DEF Hands

(* The retry is for angles without a result; a death forgets the dicts, a     *)
(* resume takes them from the rows.                                           *)
LEMMA WholeRunHands ==
  ASSUME Formed, Hands, Gathered \/ EngineStops \/ Resume
  PROVE  Hands'
<1>1. \A p : Fresh(p).st = "queued" /\ ~Fresh(p).resumed
  BY DEF Fresh
<1>2. (UNCHANGED <<stored, job>> /\ JobsKept /\ engine' # "first") \/ Resume
  BY JobsStill DEF Gathered, EngineStops, Resume, Close, Hands
<1>3. CASE Gathered
  <2>1. UNCHANGED <<stored, job, memory, plan>> /\ engine \in {"first", "second"} /\ engine' # "first"
    BY <1>3 DEF Gathered, Close
  <2>2. \A i \in Idx : task[i].st \in {"done", "failed", "restored"}
    BY <1>3 DEF Gathered, Returned
  <2>3. \A i \in Idx : \/ task'[i] = task[i]
                       \/ task'[i].st = "queued" /\ ~task'[i].resumed /\ i \in Uncovered
    BY <1>1, <1>3 DEF Gathered, Formed
  <2>4. \A i \in Uncovered : i \in Idx /\ task[i].st \notin {"done", "restored"}
    BY DEF Uncovered, Succeeded
  <2>5. \A i \in Idx : task'[i].st = "queued" => Wanting(i)
    BY <2>2, <2>3, <2>4 DEF Wanting
  <2>6. \A i \in Idx : /\ task'[i].st \in {"done", "failed", "restored", "queued"} /\ ~DumpsJobs(i)'
                       /\ Wanting(i)' => Wanting(i)
    BY <2>2, <2>3, <2>5 DEF DumpsJobs, Wanting
  <2>7. Unresulted'
    BY <2>1, <2>6 DEF Hands, Unresulted
  <2>8. Submitted'
    BY <2>1, <2>6 DEF Hands, Submitted, JobIds, JobOf
  <2>9. Handed'
    BY <2>1, <2>2, <2>3, <2>6 DEF Handed, Wanting
  <2> QED BY <2>7, <2>8, <2>9 DEF Hands
<1>4. CASE EngineStops
  <2>1. UNCHANGED <<stored, job>> /\ engine' = "down"
    BY <1>4 DEF EngineStops
  <2>2. \A i \in Idx : task'[i].st = "queued" /\ ~task'[i].resumed
    BY <1>1, <1>4 DEF EngineStops
  <2>3. DOMAIN memory'.research = {} /\ DOMAIN memory'.jobs = {}
    <3>1. DOMAIN Nothing = {}
      BY DEF Nothing
    <3>2. memory'.research = Nothing /\ memory'.jobs = Nothing
      BY <1>4 DEF EngineStops
    <3> QED BY <3>1, <3>2
  <2>4. Unresulted' /\ Submitted' /\ Handed'
    BY <2>1, <2>2, <2>3 DEF Hands, Unresulted, Submitted, Handed, JobIds, JobOf, DumpsJobs
  <2> QED BY <2>4 DEF Hands
<1>5. CASE Resume
  <2>1. PICK p \in Plans, fleet \in Fleets :
          LET recorded == CheckpointFor("research", p)
          IN  /\ plan' = p
              /\ memory' = [research |-> recorded, jobs |-> CheckpointFor("jobs", p)]
              /\ task' = [i \in Idx |-> IF i \in DOMAIN recorded
                                        THEN [Fresh("") EXCEPT !.st = "restored", !.prov = recorded[i]]
                                        ELSE Fresh("")]
    BY <1>5 DEF Resume
  <2>2. UNCHANGED <<stored, job>>
    BY <1>5 DEF Resume
  <2>3. memory'.research = CheckpointFor("research", p) /\ memory'.jobs = CheckpointFor("jobs", p)
    BY <2>1
  <2>4. \A v : [Fresh("") EXCEPT !.st = "restored", !.prov = v].st = "restored"
    BY DEF Fresh
  <2>5. \A i \in Idx : \/ task'[i].st = "restored"
                       \/ task'[i].st = "queued" /\ ~task'[i].resumed /\ i \notin DOMAIN memory'.research
    BY <1>1, <2>1, <2>3, <2>4
  <2>6. Unresulted'
    BY <2>1, <2>2, <2>3, <2>5 DEF Unresulted, Wanting, CheckpointFor, Loaded
  <2>7. Submitted'
    <3>1. JobIds(memory'.jobs)
      <4>1. DOMAIN Nothing = {}
        BY DEF Nothing
      <4> QED BY <2>3, <4>1 DEF Hands, Submitted, JobIds, CheckpointFor, Loaded
    <3> QED BY <2>2, <2>5, <3>1 DEF Hands, Submitted, JobIds, JobOf, DumpsJobs
  <2>8. Handed'
    <3>1. \A i \in Idx : Agree(CheckpointFor("jobs", plan), i)'
      BY <2>1, <2>2, <2>3 DEF Agree, CheckpointFor, Loaded
    <3>2. \A i \in Idx : ~DumpsJobs(i)' /\ (Wanting(i)' => ~task'[i].resumed /\ task'[i].st = "queued")
      BY <2>5 DEF DumpsJobs, Wanting
    <3>3. \A i \in Idx : task'[i].st \notin {"polling", "asking"}
      BY <2>5
    <3> QED BY <3>1, <3>2, <3>3 DEF Handed
  <2> QED BY <2>6, <2>7, <2>8 DEF Hands
<1> QED BY <1>3, <1>4, <1>5

LEMMA HandsStep == RecordInv /\ Hands /\ [RNext]_rvars => Hands'
<1> SUFFICES ASSUME RecordInv, Hands, [RNext]_rvars PROVE Hands'
  OBVIOUS
<1>1. Formed
  BY DEF RecordInv
<1>2. CASE UNCHANGED rvars
  BY <1>2 DEF rvars, Hands, Unresulted, Submitted, Handed, Wanting, Fresher, DumpsJobs, JobIds, JobOf, Agree,
              CheckpointFor, Loaded
<1> QED BY <1>1, <1>2, OneAngleHands, SubmitHands, PollHands, PutHands, CommitHands, WholeRunHands DEF RNext

(* Only Submit makes a job, of an angle that has neither a stored result nor  *)
(* a job the provider may still answer.                                       *)
LEMMA NoneBoughtTwice ==
  ASSUME Formed, Hands, [RNext]_rvars, engine = "first", Len(job') > Len(job)
  PROVE  ~Recorded(Last(job').angle, Last(job').prov)
<1>1. Len(job) \in Nat
  BY LenProperties DEF Hands, Submitted, SomeSeq
<1>2. ASSUME NEW i \in Idx, Submit(i)
      PROVE  job' = NewJob(i) \/ UNCHANGED job
  BY <1>2 DEF Submit, Fail
<1>3. ASSUME NEW i \in Idx, Poll(i)
      PROVE  Len(job') = Len(job)
  <2>1. PICK st : job' = [job EXCEPT ![task[i].job].st = st] \/ UNCHANGED job
    BY <1>3 DEF Poll, Fail
  <2> QED BY <2>1
<1>4. PICK i \in Idx : Submit(i) /\ job' = NewJob(i)
  <2>1. ~UNCHANGED job
    BY <1>1
  <2>2. ASSUME NEW i \in Idx, OneAngle(i) \/ PutBegins(i) \/ Dump(i) \/ Commit(i) \/ WriteFails(i)
        PROVE  UNCHANGED job
    BY <2>2 DEF OneAngle, PutBegins, Dump, Commit, WriteFails
  <2>3. CASE Resume \/ Gathered \/ EngineStops \/ UNCHANGED rvars
    BY <2>1, <2>3 DEF Resume, Gathered, EngineStops, rvars
  <2>4. Len(job') # Len(job)
    BY <1>1
  <2> QED BY <1>2, <1>3, <2>1, <2>2, <2>3, <2>4 DEF RNext
<1>5. Last(job').angle = i /\ Last(job').prov = task[i].prov
  BY <1>4, JobAppend DEF Hands
<1>6. task[i].st = "asking" /\ Wanting(i) /\ Fresher(i)
  BY <1>4 DEF Submit, Wanting, Fresher
<1>7. ~(stored.research.digest = plan /\ i \in DOMAIN stored.research.data)
  BY <1>6 DEF Hands, Unresulted
<1>8. ASSUME stored.jobs.digest = plan, i \in DOMAIN stored.jobs.data, stored.jobs.data[i].prov = task[i].prov
      PROVE  job[stored.jobs.data[i].id].st = "gone"
  <2>1. Agree(stored.jobs.data, i)
    BY <1>6, <1>8 DEF Hands, Handed, CheckpointFor, Loaded
  <2> QED BY <1>6, <1>8, <2>1 DEF Hands, Handed, Agree
<1> QED BY <1>5, <1>7, <1>8 DEF Recorded

(* A first attempt never pays for what a resume can still have, for any       *)
(* number of angles, plans, stops and concurrent puts.                        *)
THEOREM NeverPaidTwiceHolds == RSpec => NeverPaidTwice
<1>1. RecordInv /\ Hands /\ [RNext]_rvars =>
          [engine = "first" /\ Len(job') > Len(job) => ~Recorded(Last(job').angle, Last(job').prov)]_rvars
  BY NoneBoughtTwice DEF RecordInv
<1> QED BY <1>1, RecordInit, RecordStep, HandsInit, HandsStep, PTL DEF RSpec, NeverPaidTwice

-----------------------------------------------------------------------------
(* The run.                                                                   *)
Entering == {"none", "intake"}
(* What an execution fell short of is among its notes, for a finished stage.  *)
NotedWorkshop(r, b) ==
    /\ r.draft.fallback => "workshop" \in r.notes
    /\ ~b.decided => "decision" \in r.notes
NotedTrim(r) == r.draft.trimmed => "trim" \in r.notes
NotedRecheck(r) == r.blocked => "recheck" \in r.notes
(* Results are of angles and for the plan they are kept under.                *)
FoundFor(f, p) == DOMAIN f \subseteq AngleNo /\ \A a \in DOMAIN f : f[a] = p
Sound(r, b) == NotedWorkshop(r, b) /\ NotedTrim(r) /\ NotedRecheck(r) /\ FoundFor(r.found, r.draft.plan)

Memory(r) == DOMAIN r = {"draft", "found", "notes", "ran", "unchecked", "blocked"}
NowInv ==
    /\ Memory(now) /\ NotedRecheck(now) /\ FoundFor(now.found, now.draft.plan)
    /\ runStage \in Entering => DOMAIN now.found = {}
    /\ runStage \notin Entering => NotedWorkshop(now, brief)
    /\ runStage \notin Entering \cup {"research_division"} => NotedTrim(now)
    /\ runStage = "research_division" => DOMAIN now.found = {}
KeptInv ==
    /\ DOMAIN outputs = {"workshop", "research", "park", "bundle", "spec"}
    /\ FoundFor(outputs.research.found, outputs.research.digest)
    /\ FoundFor(checkpoints.research.found, checkpoints.research.digest)
    /\ outputs.bundle # Absent => Memory(outputs.bundle[1]) /\ Sound(outputs.bundle[1], brief)
ToldInv == NowInv /\ KeptInv /\ ShortfallIsTold /\ ResultsFitThePlan

LEMMA ToldInit == PInit => ToldInv
<1> SUFFICES ASSUME PInit PROVE ToldInv
  OBVIOUS
<1>1. now = Blank /\ runStage = "none" /\ result = Absent /\ checkpoints = NoCheckpoints
  BY DEF PInit
<1>2. outputs = [workshop |-> Absent, research |-> NoCheckpoints.research,
                 park |-> NoCheckpoints.park, bundle |-> Absent, spec |-> FALSE]
  BY DEF PInit
<1>3. Memory(Blank) /\ DOMAIN Blank.found = {} /\ ~Blank.blocked
  BY DEF Blank, Memory, Absent
<1>4. DOMAIN NoCheckpoints.research.found = {}
  BY DEF NoCheckpoints, Absent
<1>5. NowInv
  BY <1>1, <1>3 DEF NowInv, Entering, NotedRecheck, FoundFor
<1>6. KeptInv
  BY <1>1, <1>2, <1>4 DEF KeptInv, FoundFor
<1> QED BY <1>1, <1>5, <1>6 DEF ToldInv, ShortfallIsTold, ResultsFitThePlan

(* Leaving an execution forgets it.                                           *)
LEMMA Leaving ==
  ASSUME Leaves
  PROVE  /\ NowInv' /\ FoundFor(checkpoints'.research.found, checkpoints'.research.digest)
<1>1. Memory(Blank) /\ DOMAIN Blank.found = {} /\ ~Blank.blocked
  BY DEF Blank, Memory, Absent
<1>2. DOMAIN NoCheckpoints.research.found = {}
  BY DEF NoCheckpoints, Absent
<1> QED BY <1>1, <1>2 DEF Leaves, NowInv, Entering, NotedRecheck, FoundFor

(* A report that is not new, or a status that is not completed by it.         *)
LEMMA ResultKept ==
  ASSUME ToldInv, UNCHANGED <<brief, result>>, runStatus' = "completed" => runStatus = "completed"
  PROVE  ShortfallIsTold' /\ ResultsFitThePlan'
BY DEF ToldInv, ShortfallIsTold, ResultsFitThePlan

(* What was written stays sound while no row of results and no bundle is      *)
(* written.                                                                   *)
SameOutputs == /\ DOMAIN outputs' = {"workshop", "research", "park", "bundle", "spec"}
        /\ outputs'.research = outputs.research /\ outputs'.bundle = outputs.bundle
LEMMA OutputsKept ==
  ASSUME ToldInv, UNCHANGED brief, SameOutputs,
         checkpoints' = checkpoints \/ FoundFor(checkpoints'.research.found, checkpoints'.research.digest)
  PROVE  KeptInv'
BY DEF ToldInv, KeptInv, SameOutputs

LEMMA UnwrittenKept ==
  ASSUME ToldInv, UNCHANGED outputs
  PROVE  SameOutputs
BY DEF ToldInv, KeptInv, SameOutputs

LEMMA EnteringStep ==
  ASSUME ToldInv, FromCache \/ LoadCheckpoints
  PROVE  ToldInv'
<1>1. ShortfallIsTold' /\ ResultsFitThePlan'
  BY ResultKept DEF FromCache, LoadCheckpoints
<1>2. UNCHANGED <<brief, outputs>>
  BY DEF FromCache, LoadCheckpoints
<1>3. CASE FromCache
  <2>1. Memory(now') /\ Sound(now', brief') /\ runStage' = "rewrite" /\ UNCHANGED checkpoints
    BY <1>3, <1>2 DEF FromCache, ToldInv, KeptInv
  <2>2. NowInv'
    BY <2>1 DEF NowInv, Sound, Entering
  <2>3. KeptInv'
    BY <1>2, <2>1, OutputsKept, UnwrittenKept
  <2> QED BY <1>1, <2>2, <2>3 DEF ToldInv
<1>4. CASE LoadCheckpoints
  <2>1. now' = Blank /\ runStage' = "intake"
    BY <1>4 DEF LoadCheckpoints
  <2>2. NowInv'
    <3>1. Memory(Blank) /\ DOMAIN Blank.found = {} /\ ~Blank.blocked
      BY DEF Blank, Memory, Absent
    <3> QED BY <2>1, <3>1 DEF NowInv, Entering, NotedRecheck, FoundFor
  <2>3. checkpoints'.research \in {NoCheckpoints.research, outputs.research}
    BY <1>4 DEF LoadCheckpoints, Unread, NoCheckpoints
  <2>4. FoundFor(NoCheckpoints.research.found, NoCheckpoints.research.digest)
    BY DEF NoCheckpoints, Absent, FoundFor
  <2>5. FoundFor(checkpoints'.research.found, checkpoints'.research.digest)
    BY <2>3, <2>4 DEF ToldInv, KeptInv
  <2>6. KeptInv'
    BY <1>2, <2>5, OutputsKept, UnwrittenKept
  <2> QED BY <1>1, <2>2, <2>6 DEF ToldInv
<1> QED BY <1>3, <1>4

(* The stages before the research: the workshop's shortfalls are noted with   *)
(* its result, the trim with the division, and only results of this very plan *)
(* are taken up.                                                              *)
LEMMA PlanningStep ==
  ASSUME ToldInv, QuestionWorkshop \/ DivideAngles
  PROVE  ToldInv'
<1>1. UNCHANGED <<brief, result, runStatus, checkpoints>>
  BY DEF QuestionWorkshop, DivideAngles, asked
<1>2. ShortfallIsTold' /\ ResultsFitThePlan'
  BY <1>1, ResultKept
<1>3. Memory(now) /\ NotedRecheck(now)
  BY DEF ToldInv, NowInv
<1>4. CASE QuestionWorkshop
  <2>1. DOMAIN now.found = {} /\ runStage' = "research_division"
    BY <1>4 DEF QuestionWorkshop, ToldInv, NowInv, Entering
  <2>2. PICK d : /\ now' = Note([now EXCEPT !.draft = d], NotesOfWorkshop(d) \cup NotesOfBrief)
                 /\ Put("workshop", <<d>>) \/ UNCHANGED outputs
    BY <1>4 DEF QuestionWorkshop
  <2>3. /\ Memory(now') /\ now'.draft = d /\ now'.found = now.found /\ now'.blocked = now.blocked
        /\ now'.notes = now.notes \cup NotesOfWorkshop(d) \cup NotesOfBrief
    BY <1>3, <2>2 DEF Note, Memory
  <2>4. NotedWorkshop(now', brief') /\ NotedRecheck(now')
    BY <1>1, <1>3, <2>3 DEF NotedWorkshop, NotedRecheck, NotesOfWorkshop, NotesOfBrief
  <2>5. NowInv'
    BY <2>1, <2>3, <2>4 DEF NowInv, Entering, FoundFor
  <2>6. SameOutputs
    BY <2>2 DEF Put, SameOutputs, ToldInv, KeptInv
  <2> QED BY <1>1, <1>2, <2>5, <2>6, OutputsKept DEF ToldInv
<1>5. CASE DivideAngles
  <2>1. runStage = "research_division" /\ runStage' = "deep_research" /\ NotedWorkshop(now, brief)
    BY <1>5 DEF DivideAngles, GoesOn, ToldInv, NowInv, Entering
  <2>2. PICK dark \in SUBSET DarkStreams :
          now' = Note([now EXCEPT !.found = RestoreForTheseAngles(checkpoints.research, now.draft.plan)],
                      dark \cup (IF now.draft.trimmed THEN {"trim"} ELSE {}))
    BY <1>5 DEF DivideAngles
  <2>3. /\ Memory(now') /\ now'.draft = now.draft /\ now'.blocked = now.blocked
        /\ now'.found = RestoreForTheseAngles(checkpoints.research, now.draft.plan)
        /\ now'.notes = now.notes \cup (dark \cup (IF now.draft.trimmed THEN {"trim"} ELSE {}))
    BY <1>3, <2>2 DEF Note, Memory
  <2>4. NotedWorkshop(now', brief') /\ NotedRecheck(now') /\ NotedTrim(now')
    BY <1>1, <1>3, <2>1, <2>3 DEF NotedWorkshop, NotedRecheck, NotedTrim
  <2>5. FoundFor(now'.found, now'.draft.plan)
    BY <2>3 DEF ToldInv, KeptInv, RestoreForTheseAngles, FoundFor, Absent
  <2>6. NowInv'
    BY <2>1, <2>3, <2>4, <2>5 DEF NowInv, Entering
  <2>7. SameOutputs
    BY <1>5, UnwrittenKept DEF DivideAngles
  <2> QED BY <1>1, <1>2, <2>6, <2>7, OutputsKept DEF ToldInv
<1> QED BY <1>4, <1>5

(* A result is kept under the plan it was bought for.                         *)
LEMMA RecordingStep ==
  ASSUME ToldInv, NEW a \in AngleNo, RecordAngle(a)
  PROVE  ToldInv'
<1>1. UNCHANGED <<brief, result, runStatus, runStage, checkpoints>> /\ runStage = "deep_research"
  BY DEF RecordAngle, asked
<1>2. ShortfallIsTold' /\ ResultsFitThePlan'
  BY <1>1, ResultKept
<1> DEFINE found == [x \in DOMAIN now.found \cup {a} |-> IF x = a THEN now.draft.plan ELSE now.found[x]]
<1>3. now' = [now EXCEPT !.found = found] /\ Put("research", [digest |-> now.draft.plan, found |-> found])
  BY DEF RecordAngle
<1>4. FoundFor(found, now.draft.plan)
  BY DEF ToldInv, NowInv, FoundFor
<1> HIDE DEF found
<1>5. /\ Memory(now') /\ now'.draft = now.draft /\ now'.found = found
      /\ now'.notes = now.notes /\ now'.blocked = now.blocked
  BY <1>3 DEF ToldInv, NowInv, Memory
<1>6. NowInv'
  BY <1>1, <1>4, <1>5 DEF ToldInv, NowInv, Entering, NotedWorkshop, NotedTrim, NotedRecheck
<1>7. KeptInv'
  <2>1. CASE outputs' = [outputs EXCEPT !["research"] = [digest |-> now.draft.plan, found |-> found]]
    BY <1>1, <1>4, <2>1 DEF ToldInv, KeptInv
  <2>2. CASE UNCHANGED outputs
    BY <1>1, <2>2, OutputsKept, UnwrittenKept
  <2> QED BY <1>3, <2>1, <2>2 DEF Put
<1> QED BY <1>2, <1>6, <1>7 DEF ToldInv

(* The stages after it take no note back.                                     *)
LEMMA WorkStep ==
  ASSUME ToldInv, MergeClaims \/ Gates \/ Verify \/ Coverage \/ CompleteYields
  PROVE  ToldInv'
<1>1. UNCHANGED <<brief, result, runStatus, checkpoints, outputs>>
  BY DEF MergeClaims, Gates, Verify, Coverage, CompleteYields, asked
<1>2. ShortfallIsTold' /\ ResultsFitThePlan'
  BY <1>1, ResultKept
<1>3. Memory(now)
  BY DEF ToldInv, NowInv
<1>4. /\ runStage \notin Entering \cup {"research_division"} /\ runStage' \notin Entering \cup {"research_division"}
  BY DEF MergeClaims, Gates, Verify, Coverage, CompleteYields, GoesOn, Entering
<1>5. /\ Memory(now') /\ now'.draft = now.draft /\ now'.found = now.found /\ now.notes \subseteq now'.notes
      /\ now'.blocked => now.blocked \/ "recheck" \in now'.notes
  BY <1>3 DEF MergeClaims, Gates, Verify, Coverage, CompleteYields, Note, Memory
<1>6. NowInv'
  BY <1>1, <1>4, <1>5 DEF ToldInv, NowInv, Entering, NotedWorkshop, NotedTrim, NotedRecheck
<1> QED BY <1>1, <1>2, <1>6, OutputsKept, UnwrittenKept DEF ToldInv

(* Leaving without a report: a park, a failure, a death, a cancel, the        *)
(* client's pause.                                                            *)
LEMMA LeavingStep ==
  ASSUME ToldInv, Leaves, UNCHANGED <<brief, result>>, runStatus' = "completed" => runStatus = "completed", SameOutputs
  PROVE  ToldInv'
BY ResultKept, Leaving, OutputsKept DEF ToldInv

LEMMA EndingStep ==
  ASSUME ToldInv,
         \/ AnglesReturn \/ BundleUp \/ HitsWall \/ Errs \/ Dies \/ StopsCancelled
         \/ CancelRun \/ AnswerSpec \/ ResumeRun
  PROVE  ToldInv'
<1>1. UNCHANGED <<brief, result>>
  BY DEF AnglesReturn, BundleUp, HitsWall, Errs, Dies, StopsCancelled, CancelRun, AnswerSpec, ResumeRun, asked
<1>2. runStatus' = "completed" => runStatus = "completed"
  BY DEF AnglesReturn, BundleUp, HitsWall, Errs, Dies, StopsCancelled, CancelRun, AnswerSpec, ResumeRun,
         ParkAt, Settles
<1>3. ASSUME NEW sign, NEW n, ParkAt(sign, n)
      PROVE  Leaves /\ SameOutputs
  BY <1>3 DEF ParkAt, SameOutputs, ToldInv, KeptInv
<1>4. CASE AnglesReturn
  <2>1. CASE ParkAt("deep_research", 0)
    BY <1>1, <1>2, <1>3, <2>1, LeavingStep
  <2>2. CASE runStage = "deep_research" /\ runStage' = "distill" /\ UNCHANGED <<runStatus, outputs, checkpoints, now>>
    <3>1. NowInv'
      BY <1>1, <2>2 DEF ToldInv, NowInv, Entering
    <3> QED BY <1>1, <2>2, <3>1, ResultKept, OutputsKept, UnwrittenKept DEF ToldInv
  <2> QED BY <1>4, <2>1, <2>2 DEF AnglesReturn
<1>5. CASE BundleUp
  <2>1. /\ runStage = "synthesize" /\ Memory(now) /\ Sound(now, brief)
    BY <1>5 DEF BundleUp, GoesOn, ToldInv, NowInv, Entering, Sound
  <2>2. \/ UNCHANGED outputs
        \/ outputs' = [outputs EXCEPT !["bundle"] = <<now>>]
    BY <1>5 DEF BundleUp, Put
  <2>3. \/ Leaves
        \/ runStage' = "done" /\ UNCHANGED <<checkpoints, now>>
    BY <1>5 DEF BundleUp
  <2>4. NowInv' /\ (checkpoints' = checkpoints \/ FoundFor(checkpoints'.research.found, checkpoints'.research.digest))
    <3>1. CASE Leaves
      BY <3>1, Leaving
    <3>2. CASE runStage' = "done" /\ UNCHANGED <<checkpoints, now>>
      BY <1>1, <2>1, <3>2 DEF NowInv, Entering, Sound
    <3> QED BY <2>3, <3>1, <3>2
  <2>5. KeptInv'
    <3>1. CASE UNCHANGED outputs
      BY <1>1, <2>4, <3>1, OutputsKept, UnwrittenKept
    <3>2. CASE outputs' = [outputs EXCEPT !["bundle"] = <<now>>]
      BY <1>1, <2>1, <2>4, <3>2 DEF ToldInv, KeptInv
    <3> QED BY <2>2, <3>1, <3>2
  <2> QED BY <1>1, <1>2, <2>4, <2>5, ResultKept DEF ToldInv
<1>6. CASE HitsWall
  BY <1>1, <1>2, <1>3, <1>6, LeavingStep, UnwrittenKept DEF HitsWall
<1>7. CASE Errs \/ Dies \/ StopsCancelled
  BY <1>1, <1>2, <1>7, LeavingStep, UnwrittenKept DEF Errs, Dies, StopsCancelled
<1>8. CASE CancelRun \/ AnswerSpec \/ ResumeRun
  <2>1. UNCHANGED <<runStage, checkpoints, now>> /\ SameOutputs
    BY <1>8 DEF CancelRun, AnswerSpec, ResumeRun, SameOutputs, ToldInv, KeptInv
  <2>2. NowInv'
    BY <1>1, <2>1 DEF ToldInv, NowInv, Entering
  <2> QED BY <1>1, <1>2, <2>1, <2>2, ResultKept, OutputsKept DEF ToldInv
<1> QED BY <1>4, <1>5, <1>6, <1>7, <1>8

(* A report is reported as completed only when nothing was noted and no angle *)
(* was lost; what was not noted then did not happen.                          *)
LEMMA CompletedIsWhole ==
  ASSUME NEW r, FoundFor(r.found, r.draft.plan),
         TerminalState(Lost(r.found), Cardinality(AngleNo), r.ran, WorkerReasons(r)) = "completed"
  PROVE  r.ran /\ ~r.unchecked /\ r.notes = {} /\ DOMAIN r.found = AngleNo
<1>1. IsFiniteSet(AngleNo \ DOMAIN r.found) /\ Lost(r.found) \in Nat
  BY PipelineAssumption, FS_Difference, FS_CardinalityType DEF Lost
<1>2. r.ran /\ WorkerReasons(r) = {} /\ ~(Lost(r.found) > 0)
  BY DEF TerminalState
<1>3. Lost(r.found) = 0
  BY <1>1, <1>2
<1>4. AngleNo \ DOMAIN r.found = {}
  BY <1>1, <1>3, FS_EmptySet DEF Lost
<1> QED BY <1>2, <1>4 DEF WorkerReasons, FoundFor

LEMMA ReportStep ==
  ASSUME ToldInv, Distill \/ WriteFinalReport
  PROVE  ToldInv'
<1>1. UNCHANGED <<brief, outputs>>
  BY DEF Distill, WriteFinalReport
<1>2. CASE Distill
  <2>1. CASE runStage' = "merge" /\ UNCHANGED <<runStatus, checkpoints, now, result>>
    <3>1. runStage = "distill"
      BY <1>2 DEF Distill
    <3>2. NowInv'
      BY <1>1, <2>1, <3>1 DEF ToldInv, NowInv, Entering
    <3> QED BY <1>1, <2>1, <3>2, ResultKept, OutputsKept, UnwrittenKept DEF ToldInv
  <2>2. CASE Finishes(now, FALSE, 0, TRUE)
    <3>1. ShortfallIsTold' /\ ResultsFitThePlan'
      <4>1. CASE runStatus = "running"
        <5>1. result' = <<[claims |-> FALSE, basis |-> now]>>
          BY <2>2, <4>1 DEF Finishes
        <5> QED BY <5>1 DEF ShortfallIsTold, ResultsFitThePlan
      <4>2. CASE runStatus # "running"
        BY <1>1, <2>2, <4>2, ResultKept DEF Finishes, Settles
      <4> QED BY <4>1, <4>2
    <3>2. Leaves
      BY <2>2 DEF Finishes
    <3> QED BY <1>1, <3>1, <3>2, Leaving, OutputsKept, UnwrittenKept DEF ToldInv
  <2> QED BY <1>2, <2>1, <2>2 DEF Distill
<1>3. CASE WriteFinalReport
  <2>1. Finishes(now, TRUE, Lost(now.found), now.ran) /\ Sound(now, brief)
    BY <1>3 DEF WriteFinalReport, ToldInv, NowInv, Entering, Sound
  <2>2. ShortfallIsTold' /\ ResultsFitThePlan'
    <3>1. CASE runStatus = "running"
      <4>1. /\ result' = <<[claims |-> TRUE, basis |-> now]>>
            /\ runStatus' = TerminalState(Lost(now.found), Cardinality(AngleNo), now.ran, WorkerReasons(now))
        BY <2>1, <3>1 DEF Finishes, Settles
      <4>2. result'[1].basis = now
        BY <4>1
      <4>3. ResultsFitThePlan'
        BY <2>1, <4>2 DEF ResultsFitThePlan, Sound, FoundFor
      <4>4. FoundFor(now.found, now.draft.plan)
        BY <2>1 DEF Sound
      <4>5. runStatus' = "completed" => now.ran /\ ~now.unchecked /\ now.notes = {} /\ DOMAIN now.found = AngleNo
        BY <4>1, <4>4, CompletedIsWhole
      <4>6. runStatus' = "completed" =>
               ~now.draft.fallback /\ ~now.draft.trimmed /\ ~now.blocked /\ brief'.decided
        BY <1>1, <2>1, <4>5 DEF Sound, NotedWorkshop, NotedTrim, NotedRecheck
      <4>7. ShortfallIsTold'
        BY <4>2, <4>5, <4>6 DEF ShortfallIsTold
      <4> QED BY <4>3, <4>7
    <3>2. CASE runStatus # "running"
      BY <1>1, <2>1, <3>2, ResultKept DEF Finishes, Settles
    <3> QED BY <3>1, <3>2
  <2>3. Leaves
    BY <2>1 DEF Finishes
  <2> QED BY <1>1, <2>2, <2>3, Leaving, OutputsKept, UnwrittenKept DEF ToldInv
<1> QED BY <1>2, <1>3

(* The invariant is inductive.                                                *)
LEMMA ToldStep == ToldInv /\ [PNext]_pvars => ToldInv'
<1> SUFFICES ASSUME ToldInv, [PNext]_pvars PROVE ToldInv'
  OBVIOUS
<1>1. CASE UNCHANGED pvars
  <2>1. UNCHANGED <<brief, result, runStatus, runStage, now, outputs, checkpoints>>
    BY <1>1 DEF pvars
  <2>2. NowInv'
    BY <2>1 DEF ToldInv, NowInv
  <2> QED BY <2>1, <2>2, ResultKept, OutputsKept, UnwrittenKept DEF ToldInv
<1> QED BY <1>1, EnteringStep, PlanningStep, RecordingStep, WorkStep, EndingStep, ReportStep DEF PNext

(* A run that is reported as simply completed fell short of nothing.          *)
THEOREM ShortfallIsToldHolds == PSpec => []ShortfallIsTold
<1>1. ToldInv => ShortfallIsTold
  BY DEF ToldInv
<1> QED BY <1>1, ToldInit, ToldStep, PTL DEF PSpec

(* What a report rests on was researched for the questions of this very       *)
(* workshop.                                                                  *)
THEOREM ResultsFitThePlanHolds == PSpec => []ResultsFitThePlan
<1>1. ToldInv => ResultsFitThePlan
  BY DEF ToldInv
<1> QED BY <1>1, ToldInit, ToldStep, PTL DEF PSpec
=============================================================================
