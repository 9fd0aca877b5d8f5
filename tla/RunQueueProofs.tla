--------------------------- MODULE RunQueueProofs ---------------------------
(***************************************************************************)
(* Theorems about RunQueue, for every number of runs, processes, callers,  *)
(* slots, recoveries and faults.                                           *)
(***************************************************************************)
EXTENDS RunQueue, FiniteSetTheorems, TLAPS

-----------------------------------------------------------------------------
(* The inductive invariant.                                                *)

(* A request names a run that exists: rows are never deleted.              *)
RequestsNameRuns ==
  \A c \in Caller : req[c].verb \notin {None, "create"} => Exists(req[c].run)

(* An unused row is blank, and nothing was ever spent on it.               *)
AbsentIsBlank ==
  \A r \in Run : ~Exists(r) => row[r] = NoRow /\ starts[r] = 0 /\ requeues[r] = 0

(* A task's claim is not from the future, and no two tasks of a process    *)
(* carry the same claim.                                                   *)
ClaimsPast ==
  \A p \in Proc : \A t \in inflight[p] : t.tok \in 1 .. row[t.run].tok
ClaimsDistinct ==
  \A p \in Proc : \A t, u \in inflight[p] :
    t.run = u.run /\ t.tok = u.tok => t = u

(* A process that is not up holds nothing.                                 *)
DownIsEmpty ==
  \A p \in Proc : /\ IsFiniteSet(inflight[p])
                  /\ ~Up(p) => inflight[p] = {}

(* A claim that its task may still consume.                                *)
Live(r) ==
  \E p \in Proc : \E t \in inflight[p] :
    /\ t.run = r /\ t.pc = "dispatched"
    /\ t.tok = row[r].tok /\ Owns(p, r)

(* What was started, and what a live claim may still start, is covered by  *)
(* the requeues, the recoveries, and the first claim once it was made.     *)
Ledger ==
  \A r \in Run :
    /\ starts[r] + (IF Live(r) THEN 1 ELSE 0)
         <= requeues[r] + row[r].reclaims
            + (IF row[r].status \in {"absent", "queued"} THEN 0 ELSE 1)
    /\ row[r].reclaims <= MaxReclaims

IInv ==
  /\ TypeOK
  /\ SlotsAccounted
  /\ RequestsNameRuns
  /\ AbsentIsBlank
  /\ ClaimsPast
  /\ ClaimsDistinct
  /\ DownIsEmpty
  /\ Ledger

-----------------------------------------------------------------------------
(* Typing.                                                                 *)

(* Every outcome carries a status a running run may settle in.             *)
LEMMA OutcomesTyped ==
  ASSUME NEW out \in Outcomes
  PROVE  /\ out.status \in Paused \cup {"completed", "completed_degraded", "failed"}
         /\ out.report \in BOOLEAN
<1>. DEFINE Ended == {"parked", "completed_degraded", "completed"}
<1>a. \A f \in Facts : TerminalState(f) \in Ended
  BY DEF TerminalState
<1>1. CASE out \in Reports
  <2>1. PICK f \in ReportFacts : out = Outcome(TerminalState(f), TRUE)
    BY <1>1 DEF Reports
  <2>2. f \in Facts  BY DEF ReportFacts
  <2>3. QED BY <2>1, <2>2, <1>a DEF Outcome, Paused
<1>2. CASE out \in Parks
  <2>1. PICK f \in ParkFacts : out = Outcome(TerminalState(f), FALSE)
    BY <1>2 DEF Parks
  <2>2. f \in Facts  BY DEF ParkFacts
  <2>3. QED BY <2>1, <2>2, <1>a DEF Outcome, Paused
<1>3. CASE out \in Pauses \cup {Failure}
  <2>1. \E st \in {"needs_input", "needs_report_spec", "failed"} :
          out = Outcome(st, FALSE)
    BY <1>3 DEF Pauses, Failure
  <2>2. QED BY <2>1 DEF Outcome, Paused
<1>4. QED BY <1>1, <1>2, <1>3 DEF Outcomes

(* The rows that inserts create are rows of the table.                     *)
LEMMA RowsTyped ==
  /\ NoRow \in Row
  /\ \A k \in Key \cup {None}, parent \in Run \cup {None}, spec \in BOOLEAN :
       QueuedRow(k, parent, spec) \in Row
BY DEF NoRow, QueuedRow, Row, Status, Run, Paused, Final

(* Every UPDATE of `run` leaves a row of the table.                        *)
LEMMA WritesTyped ==
  ASSUME NEW rw \in Row
  PROVE  /\ Cancelled(rw) \in Row
         /\ \A spec \in BOOLEAN : Requeued(rw, spec) \in Row
         /\ \A p \in Proc : Claimed(rw, p) \in Row
         /\ Consumed(rw) \in Row
         /\ \A old \in BOOLEAN : Aged(rw, old) \in Row
         /\ \A c \in BOOLEAN : Cached(rw, c) \in Row
         /\ Reaped(rw) \in Row
         /\ \A out \in Outcomes : Landed(rw, out) \in Row
<1>. USE DEF Row, Status, Paused, Final
<1>1. Cancelled(rw) \in Row /\ Reaped(rw) \in Row
  BY DEF Cancelled, Reaped
<1>2. \A spec \in BOOLEAN : Requeued(rw, spec) \in Row
  BY DEF Requeued
<1>3. \A p \in Proc : Claimed(rw, p) \in Row
  <2>. DEFINE New(p, n, m) == [rw EXCEPT !.status = "running", !.worker = p, !.tok = n,
                                        !.stale = FALSE, !.reclaims = m]
  <2>1. \A p \in Proc, n, m \in Nat : New(p, n, m) \in Row
    OBVIOUS
  <2>2. \A p \in Proc : Claimed(rw, p) =
          New(p, rw.tok + 1, IF rw.status = "running" THEN rw.reclaims + 1 ELSE rw.reclaims)
    BY DEF Claimed
  <2>3. /\ rw.tok + 1 \in Nat
        /\ (IF rw.status = "running" THEN rw.reclaims + 1 ELSE rw.reclaims) \in Nat
    OBVIOUS
  <2>. HIDE DEF New, Row, Status, Paused, Final
  <2>4. QED BY <2>1, <2>2, <2>3
<1>4. Consumed(rw) \in Row /\ \A old \in BOOLEAN : Aged(rw, old) \in Row
  BY DEF Consumed, Aged
<1>5. \A c \in BOOLEAN : Cached(rw, c) \in Row
  BY DEF Cached
<1>6. ASSUME NEW out \in Outcomes
      PROVE  Landed(rw, out) \in Row
  <2>1. out.status \in Status /\ out.report \in BOOLEAN
    BY OutcomesTyped
  <2>. DEFINE New(n) == [rw EXCEPT !.status = out.status, !.stale = FALSE,
                                  !.reports = n]
  <2>2. \A n \in Nat : New(n) \in Row
    BY <2>1
  <2>3. Landed(rw, out) = New(IF out.report THEN rw.reports + 1 ELSE rw.reports)
    BY DEF Landed
  <2>4. (IF out.report THEN rw.reports + 1 ELSE rw.reports) \in Nat
    BY <2>1
  <2>. HIDE DEF New, Row, Status, Paused, Final
  <2>5. QED BY <2>2, <2>3, <2>4
<1>7. QED BY <1>1, <1>2, <1>3, <1>4, <1>5, <1>6

(* Writing a row of the table gives a table.                               *)
LEMMA Put ==
  ASSUME row \in [Run -> Row], NEW r \in Run, NEW new \in Row,
         row' = [row EXCEPT ![r] = new]
  PROVE  row' \in [Run -> Row]
OBVIOUS

(* TypeOK but for the range of the permits, which the slots account for.   *)
Typed ==
  /\ row \in [Run -> Row]
  /\ loop \in [Proc -> LoopPc]
  /\ sem \in [Proc -> Int]
  /\ inflight \in [Proc -> SUBSET Task]
  /\ req \in [Caller -> Request]
  /\ faults \in Nat
  /\ starts \in [Run -> Nat]
  /\ requeues \in [Run -> Nat]

(* The initial state is well typed.                                        *)
LEMMA InitTyped == Init => TypeOK
<1>. USE ConstantsAssumption
<1>1. Init => row \in [Run -> Row] /\ req \in [Caller -> Request]
  BY RowsTyped DEF Init, Request
<1>2. QED BY <1>1 DEF Init, TypeOK, LoopPc

(* An API step keeps the types of what it writes.                          *)
LEMMA ApiTyped ==
  ASSUME TypeOK, NEW c \in Caller, Api(c)
  PROVE  Typed'
<1>. USE ConstantsAssumption DEF TypeOK, Typed, rowVars, procVars
<1>1. ASSUME NEW verb \in AllVerbs \ {"create"}, NEW r \in Run, ReadFor(c, verb, r, None)
      PROVE  Typed'
  <2>1. [verb |-> verb, run |-> r, key |-> None] \in Request
    BY DEF Request
  <2>2. QED BY <1>1, <2>1 DEF ReadFor
<1>2. ASSUME NEW k \in Key, ReadCreate(c, k)
      PROVE  Typed'
  <2>1. [verb |-> "create", run |-> None, key |-> k] \in Request
    BY DEF Request
  <2>2. QED BY <1>2, <2>1 DEF ReadCreate, ReadFor
<1>3. ASSUME NEW verb \in AllVerbs, Writes(c, verb)
      PROVE  /\ Idle \in Request
             /\ req' \in [Caller -> Request]
             /\ loop' \in [Proc -> LoopPc] /\ sem' \in [Proc -> Int]
             /\ inflight' \in [Proc -> SUBSET Task]
             /\ faults' \in Nat /\ starts' \in [Run -> Nat]
             /\ verb = "create" => req[c].key \in Key
             /\ verb # "create" => req[c].run \in Run
  <2>1. req[c] \in Request /\ req[c].verb = verb /\ verb # None
    BY <1>3 DEF Writes, AllVerbs
  <2>2. QED BY <1>3, <2>1 DEF Writes, Request, Idle
<1>4. CASE WriteCreate(c)
  <2>1. Writes(c, "create")  BY <1>4 DEF WriteCreate
  <2>2. QueuedRow(req[c].key, None, FALSE) \in Row
    BY <2>1, <1>3, RowsTyped DEF AllVerbs
  <2>3. row' \in [Run -> Row] /\ requeues' \in [Run -> Nat]
    BY <1>4, <2>2, Put DEF WriteCreate, Insert
  <2>4. QED BY <2>1, <2>3, <1>3 DEF AllVerbs
<1>5. CASE WriteAnswer(c)
  <2>1. Writes(c, "answer")  BY <1>5 DEF WriteAnswer
  <2>2. QueuedRow(None, req[c].run, FALSE) \in Row
    BY <2>1, <1>3, RowsTyped DEF AllVerbs
  <2>3. Cancelled(row[req[c].run]) \in Row
    BY <2>1, <1>3, WritesTyped DEF AllVerbs
  <2>4. row' \in [Run -> Row] /\ requeues' \in [Run -> Nat]
    <3>1. CASE UNCHANGED row
      BY <1>5, <3>1 DEF WriteAnswer
    <3>2. CASE ~UNCHANGED row
      <4>1. PICK n \in Run :
              row' = [row EXCEPT ![req[c].run] = Cancelled(@),
                                 ![n] = QueuedRow(None, req[c].run, FALSE)]
        BY <1>5, <3>2 DEF WriteAnswer
      <4>2. QED BY <1>5, <4>1, <2>2, <2>3 DEF WriteAnswer
    <3>3. QED BY <3>1, <3>2
  <2>5. QED BY <2>1, <2>4, <1>3 DEF AllVerbs
<1>6. ASSUME NEW r \in Run, NEW from, NEW spec \in BOOLEAN, Requeue(r, from, spec)
      PROVE  row' \in [Run -> Row] /\ requeues' \in [Run -> Nat]
  <2>1. Requeued(row[r], spec) \in Row
    BY WritesTyped
  <2>2. QED BY <1>6, <2>1 DEF Requeue
<1>7. CASE WriteReportSpec(c) \/ WriteResume(c)
  <2>1. \E verb \in {"report_spec", "resume"} : Writes(c, verb)
    BY <1>7 DEF WriteReportSpec, WriteResume
  <2>2. row' \in [Run -> Row] /\ requeues' \in [Run -> Nat]
    BY <1>7, <2>1, <1>3, <1>6 DEF WriteReportSpec, WriteResume, AllVerbs
  <2>3. QED BY <2>1, <2>2, <1>3 DEF AllVerbs
<1>8. CASE WriteRewrite(c)
  <2>1. Writes(c, "rewrite") /\ QueuedRow(None, None, TRUE) \in Row
    BY <1>8, RowsTyped DEF WriteRewrite
  <2>2. row' \in [Run -> Row] /\ requeues' \in [Run -> Nat]
    BY <1>8, <2>1, Put DEF WriteRewrite, Insert
  <2>3. QED BY <2>1, <2>2, <1>3 DEF AllVerbs
<1>9. CASE WriteCancel(c)
  <2>1. Writes(c, "cancel")  BY <1>9 DEF WriteCancel
  <2>2. Cancelled(row[req[c].run]) \in Row
    BY <2>1, <1>3, WritesTyped DEF AllVerbs
  <2>3. row' \in [Run -> Row] /\ requeues' \in [Run -> Nat]
    BY <1>9, <2>2 DEF WriteCancel
  <2>4. QED BY <2>1, <2>3, <1>3 DEF AllVerbs
<1>10. QED
  BY <1>1, <1>2, <1>4, <1>5, <1>7, <1>8, <1>9
  DEF Api, ReadAnswer, ReadReportSpec, ReadResume, ReadRewrite, ReadCancel, AllVerbs

(* A worker step keeps the types of what it writes.                        *)
LEMMA WorkerTyped ==
  ASSUME TypeOK, NEW p \in Proc, Worker(p)
  PROVE  Typed'
<1>. USE ConstantsAssumption DEF TypeOK, Typed, rowVars, procVars
<1>1. CASE Start(p) \/ Acquire(p) \/ ClaimNone(p) \/ ReapFault(p) \/ Crash(p)
  BY <1>1 DEF Start, Acquire, ClaimNone, ReapFault, Crash, Fault, LoopPc
<1>2. CASE Claim(p)
  <2>1. PICK r \in Run :
          /\ row' = [row EXCEPT ![r] = Claimed(@, p)]
          /\ inflight' = [inflight EXCEPT ![p] = @ \cup
                                             {Dispatched(r, row[r].tok + 1)}]
    BY <1>2 DEF Claim
  <2>2. row' \in [Run -> Row]
    BY <2>1, WritesTyped
  <2>3. row[r].tok + 1 \in Nat
    BY DEF Row
  <2>4. Dispatched(r, row[r].tok + 1) \in Task
    BY <2>3 DEF Task, Dispatched
  <2>5. inflight' \in [Proc -> SUBSET Task]
    BY <2>1, <2>4
  <2>6. QED BY <1>2, <2>2, <2>5 DEF Claim, LoopPc
<1>3. CASE Reap(p)
  <2>1. \A r \in Run : Reaped(row[r]) \in Row
    BY WritesTyped
  <2>2. QED BY <1>3, <2>1 DEF Reap, LoopPc
<1>4. ASSUME NEW t \in inflight[p], TaskStep(p, t)
      PROVE  Typed'
  <2>. t \in Task /\ t.run \in Run /\ t.tok \in Nat
    BY DEF Task
  <2>1. CASE Consume(p, t)
    <3>1. [t EXCEPT !.pc = "engine"] \in Task
      BY <2>1 DEF Consume, Task
    <3>2. inflight' \in [Proc -> SUBSET Task] /\ sem' \in [Proc -> Int]
      BY <2>1, <3>1 DEF Consume, Finish, Becomes
    <3>. Consumed(row[t.run]) \in Row  BY WritesTyped
    <3>3. row' \in [Run -> Row] /\ starts' \in [Run -> Nat]
      BY <2>1 DEF Consume
    <3>4. QED BY <2>1, <3>2, <3>3 DEF Consume
  <2>2. CASE Heartbeat(p, t)
    <3>1. Aged(row[t.run], FALSE) \in Row  BY WritesTyped
    <3>2. row' \in [Run -> Row]  BY <2>2, <3>1, Put DEF Heartbeat
    <3>3. UNCHANGED <<loop, sem, inflight, req, faults, starts, requeues>>
      BY <2>2 DEF Heartbeat
    <3>4. QED BY <3>2, <3>3
  <2>3. CASE EngineReturns(p, t)
    <3>1. PICK out \in Outcomes, cached \in BOOLEAN :
            /\ Becomes(p, t, [t EXCEPT !.pc = "write", !.out = out])
            /\ row' = [row EXCEPT ![t.run] = Cached(@, cached)]
      BY <2>3 DEF EngineReturns
    <3>2. [t EXCEPT !.pc = "write", !.out = out] \in Task
      BY DEF Task
    <3>3. inflight' \in [Proc -> SUBSET Task]
      BY <3>1, <3>2 DEF Becomes
    <3>. Cached(row[t.run], cached) \in Row  BY WritesTyped
    <3>4. row' \in [Run -> Row]
      BY <3>1
    <3>5. faults' \in Nat
      BY <2>3 DEF EngineReturns, Fault
    <3>6. QED BY <2>3, <3>3, <3>4, <3>5 DEF EngineReturns
  <2>4. CASE EngineAborts(p, t) \/ ConsumeFault(p, t)
    BY <2>4 DEF EngineAborts, ConsumeFault, Finish, Fault
  <2>5. CASE TerminalWrite(p, t)
    <3>1. t.out \in Outcomes
      BY <2>5 DEF TerminalWrite, Task
    <3>2. Landed(row[t.run], t.out) \in Row
      BY <3>1, WritesTyped
    <3>3. row' \in [Run -> Row]
      BY <2>5, <3>2 DEF TerminalWrite
    <3>4. QED BY <2>5, <3>3 DEF TerminalWrite, Finish
  <2>6. CASE WriteFault(p, t)
    <3>1. Failure \in Outcomes  BY DEF Outcomes
    <3>2. [t EXCEPT !.out = Failure] \in Task
      BY <2>6, <3>1 DEF WriteFault, Task
    <3>3. QED BY <2>6, <3>2 DEF WriteFault, Becomes, Finish, Fault
  <2>7. QED BY <1>4, <2>1, <2>2, <2>3, <2>4, <2>5, <2>6 DEF TaskStep
<1>5. QED BY <1>1, <1>2, <1>3, <1>4 DEF Worker

(* Every step keeps every type but the range of `sem`, which needs         *)
(* SlotsAccounted.                                                         *)
LEMMA StepTyped == TypeOK /\ [Next]_vars => Typed'
<1>. USE ConstantsAssumption
<1>1. ASSUME TypeOK, NEW r \in Run, GoStale(r)
      PROVE  Typed'
  <2>1. Aged(row[r], TRUE) \in Row  BY <1>1, WritesTyped DEF TypeOK
  <2>2. row' \in [Run -> Row]  BY <1>1, <2>1, Put DEF TypeOK, GoStale
  <2>3. UNCHANGED <<loop, sem, inflight, req, faults, starts, requeues>>
    BY <1>1 DEF GoStale, procVars
  <2>4. QED BY <1>1, <2>2, <2>3 DEF TypeOK, Typed
<1>2. ASSUME TypeOK, UNCHANGED vars
      PROVE  Typed'
  BY <1>2 DEF TypeOK, Typed, vars
<1>3. QED BY <1>1, <1>2, ApiTyped, WorkerTyped DEF Next

-----------------------------------------------------------------------------
(* Slots.                                                                  *)

(* A verb of the API touches no process.                                   *)
LEMMA ApiFrame ==
  ASSUME NEW c \in Caller, Api(c)
  PROVE  UNCHANGED <<loop, sem, inflight, faults, starts>>
BY DEF Api, ReadCreate, ReadAnswer, ReadReportSpec, ReadResume, ReadRewrite, ReadCancel,
       ReadFor, WriteCreate, WriteAnswer, WriteReportSpec, WriteResume, WriteRewrite,
       WriteCancel, Writes, rowVars, procVars

(* A step of a task leaves it as it was, ends it and frees its slot, or    *)
(* moves it past the consume with the claim it has.                        *)
LEMMA TaskMoves ==
  ASSUME TypeOK, NEW p \in Proc, NEW t \in inflight[p], TaskStep(p, t)
  PROVE  /\ loop' = loop
         /\ \/ UNCHANGED <<sem, inflight>>
            \/ Finish(p, t)
            \/ /\ sem' = sem
               /\ \E u \in Task : /\ u.run = t.run /\ u.tok = t.tok
                                  /\ u # t /\ u.pc # "dispatched"
                                  /\ Becomes(p, t, u)
<1>. t \in Task  BY DEF TypeOK
<1>1. CASE Consume(p, t)
  <2>1. [t EXCEPT !.pc = "engine"] \in Task /\ t.pc = "dispatched"
    BY <1>1 DEF Consume, Task
  <2>2. QED BY <1>1, <2>1 DEF Consume, Task
<1>2. CASE Heartbeat(p, t)
  BY <1>2 DEF Heartbeat, procVars
<1>3. CASE EngineReturns(p, t)
  <2>1. PICK out \in Outcomes : Becomes(p, t, [t EXCEPT !.pc = "write", !.out = out])
    BY <1>3 DEF EngineReturns, Task
  <2>2. /\ [t EXCEPT !.pc = "write", !.out = out] \in Task
        /\ t.pc = "engine"
    BY <1>3 DEF EngineReturns, Task
  <2>3. QED BY <1>3, <2>1, <2>2 DEF EngineReturns, Task
<1>4. CASE EngineAborts(p, t) \/ ConsumeFault(p, t) \/ TerminalWrite(p, t)
  BY <1>4 DEF EngineAborts, ConsumeFault, TerminalWrite
<1>5. CASE WriteFault(p, t)
  <2>1. CASE t.out = Failure
    BY <1>5, <2>1 DEF WriteFault
  <2>2. CASE t.out # Failure
    <3>1. Failure \in Outcomes  BY DEF Outcomes
    <3>2. [t EXCEPT !.out = Failure] \in Task
      BY <1>5, <3>1 DEF WriteFault, Task
    <3>3. QED BY <1>5, <2>2, <3>2 DEF WriteFault, Task
  <2>3. QED BY <2>1, <2>2
<1>6. QED BY <1>1, <1>2, <1>3, <1>4, <1>5 DEF TaskStep

SlotsInv == SlotsAccounted /\ DownIsEmpty /\ ClaimsDistinct

(* Every step of a process keeps its permits accounted for.                *)
LEMMA SlotsStep ==
  ASSUME TypeOK, SlotsInv, ClaimsPast, [Next]_vars
  PROVE  SlotsInv'
<1>. USE ConstantsAssumption DEF SlotsInv, TypeOK, SlotsAccounted, DownIsEmpty, ClaimsDistinct
<1>1. ASSUME UNCHANGED <<loop, sem, inflight>>
      PROVE  SlotsInv'
  BY <1>1 DEF Up
<1>2. ASSUME NEW p \in Proc, Start(p)
      PROVE  SlotsInv'
  <2>1. inflight[p] = {}  BY <1>2 DEF Start, Up
  <2>2. QED BY <1>2, <2>1, FS_EmptySet DEF Start, Up
<1>3. ASSUME NEW p \in Proc, Acquire(p)
      PROVE  SlotsInv'
  <2>1. Cardinality(inflight[p]) \in Nat  BY FS_CardinalityType
  <2>2. QED BY <1>3, <2>1 DEF Acquire, Up
<1>4. ASSUME NEW p \in Proc, Claim(p)
      PROVE  SlotsInv'
  <2>1. PICK r \in Run : inflight' = [inflight EXCEPT ![p] = @ \cup
                                        {Dispatched(r, row[r].tok + 1)}]
    BY <1>4 DEF Claim
  <2>2. row[r].tok \in Nat  BY DEF Row
  <2>3. \A t \in inflight[p] : ~(t.run = r /\ t.tok = row[r].tok + 1)
    BY <2>2 DEF ClaimsPast
  <2>4. Dispatched(r, row[r].tok + 1) \notin inflight[p]
    BY <2>3 DEF Dispatched
  <2>5. /\ IsFiniteSet(inflight'[p])
        /\ Cardinality(inflight'[p]) = Cardinality(inflight[p]) + 1
        /\ Cardinality(inflight[p]) \in Nat
    BY <2>1, <2>4, FS_AddElement, FS_CardinalityType
  <2>6. ClaimsDistinct'
    BY <2>1, <2>3 DEF Dispatched
  <2>7. DownIsEmpty'
    BY <1>4, <2>1, <2>5 DEF Claim, Up
  <2>8. sem' = sem /\ loop' = [loop EXCEPT ![p] = "acquire"] /\ loop[p] = "claim"
    BY <1>4 DEF Claim
  <2>9. SlotsAccounted'
    BY <2>1, <2>5, <2>8 DEF Up
  <2>10. QED BY <2>6, <2>7, <2>9
<1>5. ASSUME NEW p \in Proc, ClaimNone(p)
      PROVE  SlotsInv'
  <2>1. Cardinality(inflight[p]) \in Nat  BY FS_CardinalityType
  <2>2. QED BY <1>5, <2>1 DEF ClaimNone, Up
<1>6. ASSUME NEW p \in Proc, Reap(p) \/ ReapFault(p)
      PROVE  SlotsInv'
  BY <1>6 DEF Reap, ReapFault, Up
<1>7. ASSUME NEW p \in Proc, Crash(p)
      PROVE  SlotsInv'
  BY <1>7, FS_EmptySet DEF Crash, Up
<1>8. ASSUME NEW p \in Proc, NEW t \in inflight[p], TaskStep(p, t)
      PROVE  SlotsInv'
  <2>1. IsFiniteSet(inflight[p]) /\ Cardinality(inflight[p]) \in Nat /\ Up(p)
    BY FS_CardinalityType
  <2>2. CASE UNCHANGED <<sem, inflight>>
    BY <1>1, <1>8, <2>2, TaskMoves
  <2>3. /\ IsFiniteSet(inflight[p] \ {t})
        /\ Cardinality(inflight[p] \ {t}) = Cardinality(inflight[p]) - 1
    BY <2>1, FS_RemoveElement
  <2>4. CASE Finish(p, t)
    <3>1. ClaimsDistinct'  BY <2>4 DEF Finish
    <3>2. loop' = loop  BY <1>8, TaskMoves
    <3>3. DownIsEmpty'  BY <2>3, <2>4, <3>2 DEF Finish, Up
    <3>4. SlotsAccounted'  BY <2>1, <2>3, <2>4, <3>2 DEF Finish, Up
    <3>5. QED BY <3>1, <3>3, <3>4
  <2>5. ASSUME NEW u \in Task, u.run = t.run, u.tok = t.tok, u # t,
               Becomes(p, t, u), loop' = loop, sem' = sem
        PROVE  SlotsInv'
    <3>1. u \notin inflight[p]
      BY <2>5
    <3>2. /\ IsFiniteSet(inflight'[p])
          /\ Cardinality(inflight'[p]) = Cardinality(inflight[p])
      <4>. DEFINE S == inflight[p] \ {t}
      <4>1. inflight'[p] = S \cup {u} /\ u \notin S
        BY <2>5, <3>1 DEF Becomes
      <4>2. IsFiniteSet(S) /\ Cardinality(S) = Cardinality(inflight[p]) - 1
        BY <2>3
      <4>. HIDE DEF S
      <4>3. IsFiniteSet(S \cup {u}) /\ Cardinality(S \cup {u}) = Cardinality(S) + 1
        BY <4>1, <4>2, FS_AddElement
      <4>4. QED BY <2>1, <4>1, <4>2, <4>3
    <3>3. ClaimsDistinct'
      BY <2>5 DEF Becomes
    <3>4. QED BY <2>5, <3>2, <3>3 DEF Becomes, Up
  <2>6. QED BY <1>8, <2>2, <2>4, <2>5, TaskMoves
<1>9. QED
  BY <1>1, <1>2, <1>3, <1>4, <1>5, <1>6, <1>7, <1>8, ApiFrame
  DEF Next, Worker, GoStale, procVars, vars

-----------------------------------------------------------------------------
(* What a step does to one row.                                            *)

Unspent(r) == starts'[r] = starts[r] /\ requeues'[r] = requeues[r]

Kept(r) == row'[r] = row[r] /\ Unspent(r)
Born(r) ==
  /\ ~Exists(r) /\ Unspent(r)
  /\ \E k \in Key \cup {None}, parent \in Run \cup {None}, spec \in BOOLEAN :
       row'[r] = QueuedRow(k, parent, spec)
Stopped(r) == Exists(r) /\ row'[r] = Cancelled(row[r]) /\ Unspent(r)
SentBack(r) ==
  /\ row[r].status \in {"needs_report_spec", "parked"}
  /\ \E spec \in BOOLEAN : row'[r] = Requeued(row[r], spec)
  /\ starts'[r] = starts[r] /\ requeues'[r] = requeues[r] + 1
Taken(r) ==
  /\ Claimable(r) /\ Unspent(r)
  /\ \E p \in Proc : row'[r] = Claimed(row[r], p)
Spent(r) ==
  /\ Live(r)
  /\ row'[r] = Consumed(row[r])
  /\ starts'[r] = starts[r] + 1 /\ requeues'[r] = requeues[r]
Touched(r) ==
  /\ Exists(r) /\ Unspent(r)
  /\ \/ row'[r] = Aged(row[r], FALSE)
     \/ row'[r] = Aged(row[r], TRUE) /\ GoStale(r)
     \/ \E b \in BOOLEAN : row'[r] = Cached(row[r], b)
Ended(r) ==
  /\ row[r].status = "running" /\ Unspent(r)
  /\ \/ Reapable(r) /\ row'[r] = Reaped(row[r])
     \/ \E p \in Proc : \E t \in inflight[p] :
          /\ t.run = r /\ t.pc = "write" /\ Owns(p, r) /\ Finish(p, t)
          /\ row'[r] = Landed(row[r], t.out)

RowStep(r) ==
  \/ Kept(r) \/ Born(r) \/ Stopped(r) \/ SentBack(r)
  \/ Taken(r) \/ Spent(r) \/ Touched(r) \/ Ended(r)

(* An API step changes any one row in one of the ways RowStep lists.       *)
LEMMA ApiRowStep ==
  ASSUME TypeOK, RequestsNameRuns, NEW c \in Caller, Api(c), NEW r \in Run
  PROVE  RowStep(r)
<1>. USE ConstantsAssumption DEF TypeOK, RowStep
<1>1. ASSUME UNCHANGED <<row, starts, requeues>>  PROVE RowStep(r)
  BY <1>1 DEF Kept, Unspent
<1>2. ASSUME NEW verb \in AllVerbs, Writes(c, verb)
      PROVE  /\ starts' = starts
             /\ verb = "create" => req[c].key \in Key
             /\ verb # "create" => req[c].run \in Run /\ Exists(req[c].run)
  <2>1. req[c] \in Request /\ req[c].verb = verb /\ verb # None
    BY <1>2 DEF Writes
  <2>2. QED BY <1>2, <2>1 DEF Writes, Request, Idle, RequestsNameRuns
<1>3. ASSUME NEW k \in Key \cup {None}, NEW spec \in BOOLEAN,
             Insert(QueuedRow(k, None, spec)), UNCHANGED <<starts, requeues>>
      PROVE  RowStep(r)
  BY <1>3 DEF Insert, Kept, Born, Unspent
<1>4. CASE WriteCreate(c)
  BY <1>4, <1>1, <1>2, <1>3 DEF WriteCreate, AllVerbs
<1>5. CASE WriteAnswer(c)
  <2>1. /\ starts' = starts /\ requeues' = requeues
        /\ req[c].run \in Run /\ Exists(req[c].run)
    BY <1>5, <1>2 DEF WriteAnswer, AllVerbs
  <2>2. CASE ~UNCHANGED row
    <3>1. PICK n \in Run :
            /\ ~Exists(n)
            /\ row' = [row EXCEPT ![req[c].run] = Cancelled(@),
                                  ![n] = QueuedRow(None, req[c].run, FALSE)]
      BY <1>5, <2>2 DEF WriteAnswer
    <3>2. CASE r = n
      BY <2>1, <3>1, <3>2 DEF Born, Unspent
    <3>3. CASE r = req[c].run /\ r # n
      BY <2>1, <3>1, <3>3 DEF Stopped, Unspent
    <3>4. CASE r # req[c].run /\ r # n
      BY <2>1, <3>1, <3>4 DEF Kept, Unspent
    <3>5. QED BY <3>2, <3>3, <3>4
  <2>3. QED BY <1>1, <2>1, <2>2
<1>6. CASE WriteReportSpec(c) \/ WriteResume(c)
  <2>1. PICK from \in {"needs_report_spec", "parked"}, spec \in BOOLEAN :
          Requeue(req[c].run, from, spec) /\ starts' = starts /\ req[c].run \in Run
    BY <1>6, <1>2 DEF WriteReportSpec, WriteResume, AllVerbs
  <2>2. QED BY <1>1, <2>1 DEF Requeue, Kept, SentBack, Unspent
<1>7. CASE WriteRewrite(c)
  BY <1>7, <1>2, <1>3 DEF WriteRewrite, AllVerbs
<1>8. CASE WriteCancel(c)
  <2>1. req[c].run \in Run /\ Exists(req[c].run) /\ starts' = starts
    BY <1>8, <1>2 DEF WriteCancel, AllVerbs
  <2>2. QED BY <1>8, <2>1 DEF WriteCancel, Kept, Stopped, Unspent
<1>9. QED
  BY <1>1, <1>4, <1>5, <1>6, <1>7, <1>8
  DEF Api, ReadCreate, ReadAnswer, ReadReportSpec, ReadResume, ReadRewrite, ReadCancel,
      ReadFor, rowVars

(* So does every step of the system.                                       *)
LEMMA StepRow ==
  ASSUME TypeOK, RequestsNameRuns, AbsentIsBlank, ClaimsPast, [Next]_vars, NEW r \in Run
  PROVE  RowStep(r)
<1>. USE ConstantsAssumption DEF TypeOK, RowStep
<1>1. ASSUME UNCHANGED <<row, starts, requeues>>  PROVE RowStep(r)
  BY <1>1 DEF Kept, Unspent
<1>2. ASSUME NEW p \in Proc, NEW t \in inflight[p], TaskStep(p, t)
      PROVE  RowStep(r)
  <2>. t.run \in Run  BY DEF Task
  <2>0. Exists(t.run)
    BY DEF ClaimsPast, AbsentIsBlank, NoRow
  <2>1. CASE Consume(p, t)
    BY <1>1, <2>1 DEF Consume, Kept, Spent, Unspent, Live
  <2>2. CASE Heartbeat(p, t)
    BY <2>0, <2>2 DEF Heartbeat, Kept, Touched, Unspent
  <2>3. CASE EngineReturns(p, t)
    BY <2>0, <2>3 DEF EngineReturns, Kept, Touched, Unspent
  <2>4. CASE TerminalWrite(p, t)
    <3>1. t.out \in Outcomes /\ UNCHANGED <<starts, requeues>>
      BY <2>4 DEF TerminalWrite, Task
    <3>2. CASE Owns(p, t.run) /\ r = t.run
      <4>1. row'[r] = Landed(row[r], t.out) /\ Finish(p, t) /\ t.pc = "write"
        BY <2>4, <3>2 DEF TerminalWrite
      <4>2. Ended(r)
        BY <3>1, <3>2, <4>1 DEF Ended, Unspent, Owns
      <4>3. QED BY <4>2
    <3>3. CASE ~(Owns(p, t.run) /\ r = t.run)
      BY <2>4, <3>1, <3>3 DEF TerminalWrite, Kept, Unspent
    <3>4. QED BY <3>2, <3>3
  <2>5. CASE EngineAborts(p, t) \/ WriteFault(p, t) \/ ConsumeFault(p, t)
    BY <1>1, <2>5 DEF EngineAborts, WriteFault, ConsumeFault, rowVars
  <2>6. QED BY <1>2, <2>1, <2>2, <2>3, <2>4, <2>5 DEF TaskStep
<1>3. ASSUME NEW p \in Proc, Claim(p)
      PROVE  RowStep(r)
  BY <1>3 DEF Claim, Kept, Taken, Unspent
<1>4. ASSUME NEW p \in Proc, Reap(p)
      PROVE  RowStep(r)
  BY <1>4 DEF Reap, Reapable, Kept, Ended, Unspent
<1>5. ASSUME NEW s \in Run, GoStale(s)
      PROVE  RowStep(r)
  BY <1>5 DEF GoStale, Kept, Touched, Unspent, Exists
<1>6. ASSUME NEW p \in Proc, Worker(p)
      PROVE  RowStep(r)
  BY <1>1, <1>2, <1>3, <1>4, <1>6
  DEF Worker, Start, Acquire, ClaimNone, ReapFault, Crash, rowVars
<1>7. QED BY <1>1, <1>5, <1>6, ApiRowStep DEF Next, vars

(* The columns the arguments below read, after each kind of step.          *)
LEMMA RowStepColumns ==
  ASSUME TypeOK, NEW r \in Run
  PROVE  /\ Kept(r) => row'[r] = row[r]
         /\ Born(r) => /\ ~Exists(r) /\ row'[r].status = "queued"
                       /\ row'[r].tok = 0 /\ row'[r].reclaims = 0
         /\ Stopped(r) => /\ row'[r].status = "cancelled" /\ row'[r].tok = row[r].tok
                          /\ row'[r].reclaims = row[r].reclaims
         /\ SentBack(r) => /\ row'[r].status = "queued" /\ row'[r].tok = row[r].tok
                           /\ row'[r].reclaims = row[r].reclaims
         /\ Taken(r) => /\ row'[r].status = "running" /\ row'[r].tok = row[r].tok + 1
                        /\ row'[r].reclaims = IF row[r].status = "running"
                                              THEN row[r].reclaims + 1 ELSE row[r].reclaims
         /\ Spent(r) => /\ row'[r].status = row[r].status /\ row'[r].tok = row[r].tok + 1
                        /\ row'[r].worker = row[r].worker
                        /\ row'[r].reclaims = row[r].reclaims
         /\ Touched(r) => /\ row'[r].status = row[r].status /\ row'[r].tok = row[r].tok
                          /\ row'[r].worker = row[r].worker
                          /\ row'[r].reclaims = row[r].reclaims
         /\ Ended(r) => /\ row'[r].status \in Paused \cup {"completed", "completed_degraded", "failed"}
                        /\ row'[r].tok = row[r].tok
                        /\ row'[r].reclaims = row[r].reclaims
<1>. row[r] \in Row  BY DEF TypeOK
<1>. USE DEF Row
<1>1. Kept(r) => row'[r] = row[r]
  BY DEF Kept
<1>2. Born(r) => /\ ~Exists(r) /\ row'[r].status = "queued"
                 /\ row'[r].tok = 0 /\ row'[r].reclaims = 0
  BY DEF Born, QueuedRow, NoRow
<1>3. Stopped(r) => /\ row'[r].status = "cancelled" /\ row'[r].tok = row[r].tok
                    /\ row'[r].reclaims = row[r].reclaims
  BY DEF Stopped, Cancelled
<1>4. SentBack(r) => /\ row'[r].status = "queued" /\ row'[r].tok = row[r].tok
                     /\ row'[r].reclaims = row[r].reclaims
  BY DEF SentBack, Requeued
<1>5. Taken(r) => /\ row'[r].status = "running" /\ row'[r].tok = row[r].tok + 1
                  /\ row'[r].reclaims = IF row[r].status = "running"
                                        THEN row[r].reclaims + 1 ELSE row[r].reclaims
  BY DEF Taken, Claimed
<1>6. Spent(r) => /\ row'[r].status = row[r].status /\ row'[r].tok = row[r].tok + 1
                  /\ row'[r].worker = row[r].worker
                  /\ row'[r].reclaims = row[r].reclaims
  BY DEF Spent, Consumed
<1>7. Touched(r) => /\ row'[r].status = row[r].status /\ row'[r].tok = row[r].tok
                    /\ row'[r].worker = row[r].worker
                    /\ row'[r].reclaims = row[r].reclaims
  BY DEF Touched, Aged, Cached
<1>8. ASSUME Ended(r)
      PROVE  /\ row'[r].status \in Paused \cup {"completed", "completed_degraded", "failed"}
             /\ row'[r].tok = row[r].tok
             /\ row'[r].reclaims = row[r].reclaims
  <2>1. CASE row'[r] = Reaped(row[r])
    BY <2>1 DEF Reaped
  <2>2. ASSUME NEW out \in Outcomes, row'[r] = Landed(row[r], out)
        PROVE  /\ row'[r].status = out.status
               /\ row'[r].tok = row[r].tok /\ row'[r].reclaims = row[r].reclaims
    BY <2>2 DEF Landed
  <2>3. \A p \in Proc : \A t \in inflight[p] : t.pc = "write" => t.out \in Outcomes
    BY DEF TypeOK, Task
  <2>4. QED BY <1>8, <2>1, <2>2, <2>3, OutcomesTyped DEF Ended
<1>9. QED BY <1>1, <1>2, <1>3, <1>4, <1>5, <1>6, <1>7, <1>8

(* Rows are never deleted, and started_at never goes back.                 *)
LEMMA RowsAdvance ==
  ASSUME TypeOK, NEW r \in Run, RowStep(r), Exists(r)
  PROVE  Exists(r)' /\ row[r].tok <= row'[r].tok
<1>. row[r].tok \in Nat  BY DEF TypeOK, Row
<1>1. ~Born(r)  BY DEF Born
<1>2. Exists(r)'
  <2>1. SentBack(r) \/ Taken(r) \/ Stopped(r) \/ Ended(r) => row'[r].status # "absent"
    BY RowStepColumns DEF Paused
  <2>2. Kept(r) \/ Spent(r) \/ Touched(r) => row'[r].status = row[r].status
    BY RowStepColumns
  <2>3. QED BY <1>1, <2>1, <2>2 DEF RowStep, Exists
<1>3. row'[r].tok \in {row[r].tok, row[r].tok + 1}
  BY <1>1, RowStepColumns DEF RowStep
<1>4. QED BY <1>2, <1>3

(* Rows are never deleted, so a request keeps naming a run.                *)
LEMMA RequestsStep ==
  ASSUME TypeOK, RequestsNameRuns, AbsentIsBlank, ClaimsPast, [Next]_vars
  PROVE  RequestsNameRuns'
<1>. USE ConstantsAssumption
<1>1. \A c \in Caller : req[c].verb \notin {None, "create"} => req[c].run \in Run
  BY DEF TypeOK, Request, Idle
<1>2. \A r \in Run : Exists(r) => Exists(r)'
  BY StepRow, RowsAdvance
<1>3. ASSUME NEW c \in Caller, Api(c)
      PROVE  \A d \in Caller : \/ req'[d] = req[d]
                               \/ req'[d].verb \in {None, "create"}
                               \/ req'[d].run \in Run /\ row[req'[d].run].status # "absent"
  <2>1. \A r \in Run : row[r].cache => Exists(r)
    BY DEF AbsentIsBlank, NoRow
  <2>2. CASE \E k \in Key : ReadCreate(c, k)
    BY <2>2 DEF ReadCreate, ReadFor, TypeOK
  <2>3. CASE \E r \in Run : \/ ReadAnswer(c, r) \/ ReadReportSpec(c, r)
                            \/ ReadResume(c, r) \/ ReadRewrite(c, r) \/ ReadCancel(c, r)
    BY <2>1, <2>3 DEF ReadAnswer, ReadReportSpec, ReadResume, ReadRewrite, ReadCancel,
                      ReadFor, TypeOK, Exists
  <2>4. CASE req' = [req EXCEPT ![c] = Idle]
    BY <2>4 DEF TypeOK, Idle
  <2>5. QED
    BY <1>3, <2>2, <2>3, <2>4
    DEF Api, Writes, WriteCreate, WriteAnswer, WriteReportSpec, WriteResume, WriteRewrite,
        WriteCancel
<1>4. CASE req' = req
  BY <1>1, <1>2, <1>4 DEF RequestsNameRuns
<1>5. ASSUME NEW c \in Caller, Api(c)
      PROVE  RequestsNameRuns'
  <2>1. \A r \in Run : Exists(r) => Exists(r)'  BY <1>2
  <2>2. SUFFICES ASSUME NEW d \in Caller, req'[d].verb \notin {None, "create"}
                 PROVE  row'[req'[d].run].status # "absent"
    BY DEF RequestsNameRuns, Exists
  <2>3. QED BY <1>1, <1>3, <1>5, <2>1, <2>2 DEF RequestsNameRuns, Exists
<1>6. QED
  BY ZenonT(40), <1>4, <1>5 DEF Next, Worker, Start, Acquire, Claim, ClaimNone, Reap, ReapFault, Crash,
     TaskStep, Consume, Heartbeat, EngineReturns, EngineAborts, TerminalWrite, WriteFault,
     ConsumeFault, GoStale, vars

(* A row that stays unused stays blank.                                    *)
LEMMA AbsentStep ==
  ASSUME TypeOK, RequestsNameRuns, AbsentIsBlank, ClaimsPast, [Next]_vars
  PROVE  AbsentIsBlank'
<1>1. SUFFICES ASSUME NEW r \in Run, ~Exists(r)'
               PROVE  (row[r] = NoRow /\ starts[r] = 0 /\ requeues[r] = 0)'
  BY DEF AbsentIsBlank
<1>2. ~Exists(r) /\ RowStep(r)
  BY <1>1, StepRow, RowsAdvance
<1>3. Kept(r)
  BY <1>1, <1>2, RowStepColumns DEF RowStep, Exists, Taken, Claimable, Spent, Touched,
     Ended, Stopped, SentBack, Paused, Live, Owns
<1>4. QED BY <1>2, <1>3 DEF AbsentIsBlank, Kept, Unspent

-----------------------------------------------------------------------------
(* Claims.                                                                 *)

(* Where a task in flight comes from: it was there with the same claim,    *)
(* and if it is still dispatched it was there as it is; or it is new.      *)
LEMMA TaskOrigin ==
  ASSUME TypeOK, [Next]_vars, NEW q \in Proc, NEW u \in inflight'[q]
  PROVE  \/ /\ \E t \in inflight[q] : t.run = u.run /\ t.tok = u.tok
            /\ u.pc = "dispatched" => u \in inflight[q]
         \/ \E r \in Run : /\ Claimable(r) /\ row'[r] = Claimed(row[r], q)
                          /\ u = Dispatched(r, row[r].tok + 1)
<1>. USE DEF TypeOK
<1>1. CASE inflight' = inflight
  BY <1>1
<1>2. ASSUME NEW p \in Proc, Claim(p)
      PROVE  u \in inflight[q] \/ \E r \in Run : /\ Claimable(r) /\ row'[r] = Claimed(row[r], q)
                                              /\ u = Dispatched(r, row[r].tok + 1)
  BY <1>2 DEF Claim
<1>3. ASSUME NEW p \in Proc, Crash(p)
      PROVE  u \in inflight[q]
  BY <1>3 DEF Crash
<1>4. ASSUME NEW p \in Proc, NEW t \in inflight[p], Finish(p, t)
      PROVE  u \in inflight[q]
  BY <1>4 DEF Finish
<1>5. ASSUME NEW p \in Proc, NEW t \in inflight[p], NEW v \in Task, v.pc # "dispatched",
             v.run = t.run, v.tok = t.tok, Becomes(p, t, v)
      PROVE  /\ \E w \in inflight[q] : w.run = u.run /\ w.tok = u.tok
             /\ u.pc = "dispatched" => u \in inflight[q]
  BY <1>5 DEF Becomes
<1>6. QED
  BY <1>1, <1>2, <1>3, <1>4, <1>5, ApiFrame, TaskMoves
  DEF Next, Worker, Start, Acquire, ClaimNone, Reap, ReapFault, GoStale, procVars, vars

(* Claims stay in the past of their row, and distinct.                     *)
LEMMA ClaimsPastStep ==
  ASSUME TypeOK, RequestsNameRuns, AbsentIsBlank, ClaimsPast, [Next]_vars
  PROVE  ClaimsPast'
<1>1. SUFFICES ASSUME NEW p \in Proc, NEW u \in inflight'[p]
               PROVE  u.tok \in 1 .. row'[u.run].tok
  BY DEF ClaimsPast
<1>2. ASSUME NEW t \in inflight[p], t.run = u.run, t.tok = u.tok
      PROVE  u.tok \in 1 .. row'[u.run].tok
  <2>1. t.run \in Run /\ t.tok \in 1 .. row[t.run].tok
    BY DEF ClaimsPast, TypeOK, Task
  <2>2. Exists(t.run)
    BY <2>1 DEF AbsentIsBlank, NoRow
  <2>3. row[t.run].tok <= row'[t.run].tok
    BY <2>1, <2>2, StepRow, RowsAdvance
  <2>4. row[t.run].tok \in Nat /\ row'[t.run].tok \in Nat
    BY <2>1, StepTyped DEF TypeOK, Typed, Row
  <2>5. QED BY <1>2, <2>1, <2>3, <2>4
<1>3. ASSUME NEW r \in Run, row'[r] = Claimed(row[r], p), u = Dispatched(r, row[r].tok + 1)
      PROVE  u.tok \in 1 .. row'[u.run].tok
  <2>1. row[r] \in Row  BY DEF TypeOK
  <2>2. row'[r].tok = row[r].tok + 1 /\ row[r].tok \in Nat
    BY <1>3, <2>1 DEF Claimed, Row
  <2>3. QED BY <1>3, <2>2 DEF Dispatched
<1>4. QED BY <1>2, <1>3, TaskOrigin

-----------------------------------------------------------------------------
(* Spend.                                                                  *)

(* Only a claim makes a run live.                                          *)
LEMMA LiveStep ==
  ASSUME TypeOK, RequestsNameRuns, AbsentIsBlank, ClaimsPast, [Next]_vars,
         NEW r \in Run, Live(r)', ~Taken(r)
  PROVE  Live(r) /\ ~Spent(r)
<1>0. PICK p \in Proc : \E u \in inflight'[p] :
        /\ u.run = r /\ u.pc = "dispatched" /\ u.tok = row'[r].tok
        /\ row'[r].status = "running" /\ row'[r].worker = p
  BY DEF Live, Owns
<1>1. PICK u \in inflight'[p] :
        /\ u.run = r /\ u.pc = "dispatched" /\ u.tok = row'[r].tok
        /\ row'[r].status = "running" /\ row'[r].worker = p
  BY <1>0
<1>2. RowStep(r)  BY StepRow
<1>3. /\ row[r] \in Row /\ row[r].tok \in Nat
      /\ ClaimsPast
  BY DEF TypeOK, Row
<1>4. \A s \in Run : Claimable(s) /\ row'[s] = Claimed(row[s], p)
                      /\ u = Dispatched(s, row[s].tok + 1) => s = r
  BY <1>1 DEF Dispatched
<1>5. u \in inflight[p]
  <2>1. CASE \E s \in Run : /\ Claimable(s) /\ row'[s] = Claimed(row[s], p)
                           /\ u = Dispatched(s, row[s].tok + 1)
    <3>1. Claimable(r) /\ row'[r] = Claimed(row[r], p)
      BY <1>4, <2>1
    <3>2. row'[r].tok = row[r].tok + 1
      BY <1>3, <3>1 DEF Claimed, Row
    <3>3. Kept(r) \/ Stopped(r) \/ SentBack(r) \/ Touched(r) \/ Ended(r)
            => row'[r].tok = row[r].tok
      BY RowStepColumns
    <3>4. ~Born(r) /\ ~Spent(r)
      <4>1. row'[r].reclaims = row[r].reclaims + 1 \/ row[r].status = "queued"
        BY <1>3, <3>1 DEF Claimed, Claimable, Row
      <4>2. Born(r) => row'[r].status = "queued"  BY RowStepColumns
      <4>3. Spent(r) => row[r].status = "running" /\ row'[r].reclaims = row[r].reclaims
        BY RowStepColumns DEF Spent, Live, Owns
      <4>4. row[r].reclaims \in Nat  BY <1>3 DEF Row
      <4>5. QED BY <1>1, <4>1, <4>2, <4>3, <4>4
    <3>5. QED BY <1>2, <1>3, <3>2, <3>3, <3>4 DEF RowStep
  <2>2. QED BY <1>1, <2>1, TaskOrigin
<1>6. u.tok <= row[r].tok
  BY <1>1, <1>3, <1>5 DEF ClaimsPast
<1>7. row'[r].tok <= row[r].tok
  BY <1>1, <1>6
<1>8. ~Spent(r) /\ ~Born(r) /\ row'[r].status \in {"running"}
  BY <1>1, <1>3, <1>7, RowStepColumns
<1>9. Kept(r) \/ Touched(r)
  BY <1>2, <1>8, RowStepColumns DEF RowStep, Paused
<1>10. row'[r].status = row[r].status /\ row'[r].tok = row[r].tok
       /\ row'[r].worker = row[r].worker
  BY <1>9, RowStepColumns
<1>11. QED BY <1>1, <1>5, <1>8, <1>10 DEF Live, Owns

(* The spend ledger balances across every step: a start is paid for by     *)
(* consuming the live claim, a recovery or a requeue.                      *)
LEMMA LedgerStep ==
  ASSUME TypeOK, RequestsNameRuns, AbsentIsBlank, ClaimsPast, Ledger, [Next]_vars
  PROVE  Ledger'
<1>. DEFINE Due(r)   == IF Live(r) THEN 1 ELSE 0
            First(r) == IF row[r].status \in {"absent", "queued"} THEN 0 ELSE 1
<1>1. SUFFICES ASSUME NEW r \in Run
               PROVE  /\ starts'[r] + Due(r)' <= requeues'[r] + row'[r].reclaims + First(r)'
                      /\ row'[r].reclaims <= MaxReclaims
  BY DEF Ledger
<1>2. /\ starts[r] + Due(r) <= requeues[r] + row[r].reclaims + First(r)
      /\ row[r].reclaims <= MaxReclaims /\ MaxReclaims \in Nat
      /\ starts[r] \in Nat /\ requeues[r] \in Nat /\ row[r].reclaims \in Nat
  BY ConstantsAssumption DEF Ledger, TypeOK, Row
<1>3. Due(r) \in {0, 1} /\ Due(r)' \in {0, 1} /\ First(r) \in {0, 1} /\ First(r)' \in {0, 1}
  OBVIOUS
<1>4. ~Taken(r) => Due(r)' <= Due(r)
  BY LiveStep
<1>5. row'[r].status # "running" => Due(r)' = 0
  BY DEF Live, Owns
<1>6. CASE Kept(r) \/ Touched(r)
  <2>1. /\ ~Taken(r) \/ row'[r].tok = row[r].tok + 1
        /\ row'[r].tok = row[r].tok /\ row[r].tok \in Nat
        /\ row'[r].status = row[r].status /\ row'[r].reclaims = row[r].reclaims
    BY <1>6, RowStepColumns DEF TypeOK, Row
  <2>2. Due(r)' <= Due(r)  BY <1>4, <2>1
  <2>3. First(r)' = First(r)  BY <2>1
  <2>. HIDE DEF Due, First
  <2>4. starts'[r] = starts[r] /\ requeues'[r] = requeues[r]
    BY <1>6 DEF Kept, Touched, Unspent
  <2>5. QED BY <1>2, <1>3, <2>1, <2>2, <2>3, <2>4
<1>7. CASE Born(r)
  <2>1. Due(r)' = 0 /\ First(r)' = 0 /\ row'[r].reclaims = 0
    BY <1>5, <1>7, RowStepColumns
  <2>2. starts'[r] = 0 /\ requeues'[r] = 0
    BY <1>7 DEF Born, Unspent, AbsentIsBlank
  <2>. HIDE DEF Due, First
  <2>3. QED BY <1>2, <2>1, <2>2
<1>8. CASE Stopped(r) \/ Ended(r)
  <2>1. Due(r)' = 0 /\ First(r)' = 1 /\ row'[r].reclaims = row[r].reclaims
    BY <1>5, <1>8, RowStepColumns DEF Paused
  <2>. HIDE DEF Due, First
  <2>2. QED BY <1>2, <1>3, <1>8, <2>1 DEF Stopped, Ended, Unspent
<1>9. CASE SentBack(r)
  <2>1. Due(r)' = 0 /\ First(r)' = 0 /\ row'[r].reclaims = row[r].reclaims
    BY <1>5, <1>9, RowStepColumns
  <2>. HIDE DEF Due, First
  <2>2. QED BY <1>2, <1>3, <1>9, <2>1 DEF SentBack
<1>10. CASE Taken(r)
  <2>1. First(r)' = 1 /\ row'[r].status = "running"
    BY <1>10, RowStepColumns
  <2>2. CASE row[r].status = "queued"
    <3>1. First(r) = 0 /\ row'[r].reclaims = row[r].reclaims
      BY <1>10, <2>2, RowStepColumns
    <3>. HIDE DEF Due, First
    <3>2. QED BY <1>2, <1>3, <1>10, <2>1, <3>1 DEF Taken, Unspent
  <2>3. CASE row[r].status = "running" /\ row[r].reclaims < MaxReclaims
    <3>1. First(r) = 1 /\ row'[r].reclaims = row[r].reclaims + 1
      BY <1>10, <2>3, RowStepColumns
    <3>. HIDE DEF Due, First
    <3>2. QED BY <1>2, <1>3, <1>10, <2>1, <2>3, <3>1 DEF Taken, Unspent
  <2>4. QED BY <1>10, <2>2, <2>3 DEF Taken, Claimable
<1>11. CASE Spent(r)
  <2>1. Due(r) = 1 /\ First(r) = 1 /\ First(r)' = 1
        /\ row'[r].reclaims = row[r].reclaims
    BY <1>11, RowStepColumns DEF Spent, Live, Owns
  <2>2. ~Taken(r)
    BY <1>2, <1>11 DEF Spent, Taken, Unspent
  <2>3. Due(r)' = 0
    BY <1>11, <2>2, LiveStep
  <2>. HIDE DEF Due, First
  <2>4. QED BY <1>2, <1>11, <2>1, <2>3 DEF Spent
<1>12. QED BY <1>6, <1>7, <1>8, <1>9, <1>10, <1>11, StepRow DEF RowStep

-----------------------------------------------------------------------------
(* The invariant holds.                                                    *)

(* The inductive invariant holds initially, and every step keeps it.       *)
LEMMA InitInv == Init => IInv
<1>1. SUFFICES ASSUME Init PROVE IInv
  OBVIOUS
<1>2. TypeOK
  BY <1>1, InitTyped
<1>3. SlotsAccounted /\ DownIsEmpty /\ ClaimsDistinct /\ ClaimsPast
  BY <1>1, FS_EmptySet
  DEF Init, SlotsAccounted, DownIsEmpty, ClaimsDistinct, ClaimsPast, Up
<1>4. RequestsNameRuns /\ AbsentIsBlank
  BY <1>1 DEF Init, RequestsNameRuns, AbsentIsBlank, Idle
<1>5. Ledger
  <2>1. \A r \in Run : ~Live(r)
    BY <1>1 DEF Init, Live
  <2>2. \A r \in Run : /\ starts[r] = 0 /\ requeues[r] = 0
                      /\ row[r].reclaims = 0 /\ row[r].status = "absent"
    BY <1>1 DEF Init, NoRow
  <2>3. QED BY <2>1, <2>2, ConstantsAssumption DEF Ledger
<1>6. QED BY <1>2, <1>3, <1>4, <1>5 DEF IInv

(* The inductive step.                                                     *)
LEMMA StepInv == IInv /\ [Next]_vars => IInv'
<1>1. SUFFICES ASSUME IInv, [Next]_vars PROVE IInv'
  OBVIOUS
<1>2. SlotsInv'
  BY <1>1, SlotsStep DEF IInv, SlotsInv
<1>3. TypeOK'
  <2>1. Typed'
    BY <1>1, StepTyped DEF IInv
  <2>2. \A p \in Proc : sem'[p] \in 0 .. K
    <3>1. SUFFICES ASSUME NEW p \in Proc PROVE sem'[p] \in 0 .. K
      OBVIOUS
    <3>2. sem'[p] >= 0
      <4>1. /\ sem \in [Proc -> 0 .. K] /\ K \in Nat
            /\ inflight \in [Proc -> SUBSET Task]
        BY <1>1, ConstantsAssumption DEF IInv, TypeOK
      <4>2. ASSUME NEW q \in Proc, Worker(q)
            PROVE  sem'[p] >= 0
        BY <4>1, <4>2, TaskMoves, <1>1
        DEF IInv, Worker, Start, Acquire, Claim, ClaimNone, Reap, ReapFault, Crash, Finish
      <4>3. CASE sem' = sem
        BY <4>1, <4>3
      <4>4. QED BY <1>1, <4>2, <4>3, ApiFrame DEF Next, GoStale, procVars, vars
    <3>3. IsFiniteSet(inflight'[p]) /\ Cardinality(inflight'[p]) \in Nat
      BY <1>2, FS_CardinalityType DEF SlotsInv, DownIsEmpty
    <3>4. CASE Up(p)'
      BY <1>2, <2>1, <3>2, <3>3, <3>4, ConstantsAssumption DEF SlotsInv, SlotsAccounted, Typed
    <3>5. CASE ~Up(p)'
      <4>1. sem'[p] = 0 \/ sem'[p] = sem[p]
        <5>1. /\ sem \in [Proc -> 0 .. K] /\ loop \in [Proc -> LoopPc]
              /\ \A q \in Proc : inflight[q] # {} => Up(q)
          BY <1>1 DEF IInv, TypeOK, DownIsEmpty
        <5>2. ASSUME NEW q \in Proc, NEW t \in inflight[q], TaskStep(q, t)
              PROVE  sem'[p] = sem[p]
          <6>1. p # q  BY <1>1, <3>5, <5>1, <5>2, TaskMoves DEF IInv, Up
          <6>2. QED BY <1>1, <5>1, <5>2, <6>1, TaskMoves DEF IInv, Finish
        <5>3. ASSUME NEW q \in Proc, \/ Start(q) \/ Acquire(q) \/ Claim(q) \/ ClaimNone(q)
                                      \/ Reap(q) \/ ReapFault(q)
              PROVE  sem'[p] = sem[p]
          BY <3>5, <5>1, <5>3 DEF Start, Acquire, Claim, ClaimNone, Reap, ReapFault, Up
        <5>4. ASSUME NEW q \in Proc, Crash(q)
              PROVE  sem'[p] = 0 \/ sem'[p] = sem[p]
          BY <5>1, <5>4 DEF Crash
        <5>5. CASE sem' = sem
          BY <5>5
        <5>6. QED
          BY <1>1, <5>2, <5>3, <5>4, <5>5, ApiFrame DEF Next, Worker, GoStale, procVars, vars
      <4>2. QED BY <1>1, <4>1, ConstantsAssumption DEF IInv, TypeOK
    <3>6. QED BY <3>4, <3>5
  <2>3. QED BY <2>1, <2>2 DEF Typed, TypeOK
<1>4. QED
  BY <1>1, <1>2, <1>3, RequestsStep, AbsentStep, ClaimsPastStep, LedgerStep
  DEF IInv, SlotsInv

(* The invariant of every theorem below.                                   *)
THEOREM Invariance == Spec => []IInv
BY InitInv, StepInv, PTL DEF Spec

(* The types of the tables, the processes and the requests hold for good;  *)
(* in it, a semaphore never has more permits than K.                       *)
THEOREM TypeCorrect == Spec => []TypeOK
<1>1. IInv => TypeOK  BY DEF IInv
<1>2. QED BY Invariance, <1>1, PTL

(* No path through a task leaks a slot or returns one twice.               *)
THEOREM NoSlotLeaks == Spec => []SlotsAccounted
<1>1. IInv => SlotsAccounted  BY DEF IInv
<1>2. QED BY Invariance, <1>1, PTL

(* However often a run is reclaimed, crashed, cancelled or put back, its   *)
(* engine is started at most once for the run, for each requeue, and for   *)
(* each of the MaxReclaims recoveries.                                     *)
THEOREM SpendIsBounded == Spec => []SpendBounded
<1>1. IInv => SpendBounded
  <2>1. SUFFICES ASSUME IInv, NEW r \in Run
                 PROVE  starts[r] <= 1 + requeues[r] + MaxReclaims
    BY DEF SpendBounded
  <2>2. /\ starts[r] <= requeues[r] + row[r].reclaims + 1
        /\ row[r].reclaims <= MaxReclaims
        /\ starts[r] \in Nat /\ requeues[r] \in Nat /\ row[r].reclaims \in Nat
    BY <2>1 DEF IInv, Ledger, TypeOK, Row
  <2>3. QED BY <2>2, ConstantsAssumption
<1>2. QED BY Invariance, <1>1, PTL

(* A run that may still write a report has a requeue, or its creation,     *)
(* left for it.                                                            *)
ReportsLedger ==
  \A r \in Run :
    row[r].reports + (IF row[r].status \in {"queued", "running"} THEN 1 ELSE 0)
      <= 1 + requeues[r]

(* A step to 'running' comes from 'queued' or 'running', a step to         *)
(* 'queued' is an insert or a requeue, and a report ends a 'running'.      *)
LEMMA ReportsLedgerStep ==
  ASSUME IInv, ReportsLedger, [Next]_vars
  PROVE  ReportsLedger'
<1>. DEFINE Pays(rw) == IF rw.status \in {"queued", "running"} THEN 1 ELSE 0
<1>1. SUFFICES ASSUME NEW r \in Run
               PROVE  row'[r].reports + Pays(row'[r]) <= 1 + requeues'[r]
  BY DEF ReportsLedger
<1>2. /\ row[r] \in Row /\ row[r].reports \in Nat /\ requeues[r] \in Nat
      /\ row[r].reports + Pays(row[r]) <= 1 + requeues[r]
  BY DEF IInv, TypeOK, Row, ReportsLedger
<1>3. RowStep(r)
  BY StepRow DEF IInv
<1>4. ASSUME row'[r].reports = row[r].reports, requeues'[r] = requeues[r],
             row'[r].status \in {"queued", "running"}
                => row[r].status \in {"queued", "running"}
      PROVE  row'[r].reports + Pays(row'[r]) <= 1 + requeues'[r]
  BY <1>2, <1>4
<1>5. CASE Kept(r) \/ Stopped(r) \/ Spent(r) \/ Touched(r)
  <2>1. /\ row'[r].reports = row[r].reports
        /\ row'[r].status \in {row[r].status, "cancelled"}
    BY <1>2, <1>5 DEF Kept, Stopped, Spent, Touched, Cancelled, Consumed, Aged, Cached, Row
  <2>2. requeues'[r] = requeues[r]
    BY <1>5 DEF Kept, Stopped, Spent, Touched, Unspent
  <2>3. QED BY <1>4, <2>1, <2>2
<1>6. CASE Taken(r)
  <2>1. row'[r].reports = row[r].reports
    BY <1>2, <1>6 DEF Taken, Claimed, Row
  <2>2. QED BY <1>4, <1>6, <2>1 DEF Taken, Claimable, Unspent
<1>7. CASE Born(r)
  <2>1. row'[r].reports = 0
    BY <1>7 DEF Born, QueuedRow, NoRow
  <2>2. QED BY <1>2, <1>7, <2>1 DEF Born, Unspent
<1>8. CASE SentBack(r)
  <2>1. row'[r].reports = row[r].reports
    BY <1>2, <1>8 DEF SentBack, Requeued, Row
  <2>2. Pays(row[r]) = 0 /\ requeues'[r] = requeues[r] + 1
    BY <1>8 DEF SentBack
  <2>3. QED BY <1>2, <2>1, <2>2
<1>9. CASE Ended(r)
  <2>1. Pays(row[r]) = 1 /\ Pays(row'[r]) = 0 /\ requeues'[r] = requeues[r]
    BY <1>9, RowStepColumns DEF IInv, Ended, Unspent, Paused
  <2>2. row'[r].reports \in {row[r].reports, row[r].reports + 1}
    <3>1. CASE row'[r] = Reaped(row[r])
      BY <1>2, <3>1 DEF Reaped, Row
    <3>2. ASSUME NEW out, row'[r] = Landed(row[r], out)
          PROVE  row'[r].reports \in {row[r].reports, row[r].reports + 1}
      <4>. DEFINE New(n) == [row[r] EXCEPT !.status = out.status, !.stale = FALSE,
                                          !.reports = n]
      <4>1. \A n : New(n).reports = n
        BY <1>2 DEF Row
      <4>2. row'[r] = New(IF out.report THEN row[r].reports + 1 ELSE row[r].reports)
        BY <3>2 DEF Landed
      <4>. HIDE DEF New
      <4>3. QED BY <4>1, <4>2
    <3>3. QED BY <1>9, <3>1, <3>2 DEF Ended
  <2>3. QED BY <1>2, <2>1, <2>2
<1>10. QED BY <1>3, <1>5, <1>6, <1>7, <1>8, <1>9 DEF RowStep

(* Displaced or not, executions leave at most one report body for the run  *)
(* and one for each requeue.                                               *)
THEOREM ReportsAreBounded == Spec => []ReportsBounded
<1>1. Init => ReportsLedger
  BY DEF Init, ReportsLedger, NoRow
<1>2. IInv /\ ReportsLedger /\ [Next]_vars => ReportsLedger'
  BY ReportsLedgerStep
<1>3. IInv /\ ReportsLedger => ReportsBounded
  BY DEF IInv, TypeOK, Row, ReportsLedger, ReportsBounded
<1>4. QED BY Invariance, <1>1, <1>2, <1>3, PTL DEF Spec

-----------------------------------------------------------------------------
(* One executor.  With heartbeats that land, an execution keeps its row:   *)
(* nobody can reclaim a run that somebody executes.                        *)

(* A running row with a task of its owner is not stale.                    *)
AttendedFresh ==
  \A r \in Run : row[r].status = "running" /\ Attended(r) => ~row[r].stale

(* An execution holds its run, unless the run was cancelled under it.      *)
ExecutionHolds ==
  \A p \in Proc : \A t \in Executing(p) :
    \/ row[t.run].status = "cancelled"
    \/ Owns(p, t.run) /\ row[t.run].tok = t.tok + 1

(* No claim that is still to be consumed is as new as its run.             *)
NoRival ==
  \A p, q \in Proc : \A t \in Executing(p), u \in inflight[q] :
    /\ u.pc = "dispatched" /\ u.run = t.run /\ row[t.run].status # "cancelled"
    => u.tok < row[t.run].tok

ExecInv == AttendedFresh /\ ExecutionHolds /\ NoRival /\ SingleExecution

(* With heartbeats landing, a run its owner has in flight never gets stale. *)
LEMMA AttendedFreshStep ==
  ASSUME HeartbeatsLand, IInv, AttendedFresh, [Next]_vars
  PROVE  AttendedFresh'
<1>1. SUFFICES ASSUME NEW r \in Run, row'[r].status = "running", Attended(r)', row'[r].stale
               PROVE  FALSE
  BY DEF AttendedFresh
<1>. row[r] \in Row  BY DEF IInv, TypeOK
<1>2. RowStep(r)  BY StepRow DEF IInv
<1>3. CASE Taken(r)
  BY <1>1, <1>3 DEF Taken, Claimed, Row
<1>4. CASE ~Taken(r)
  <2>1. /\ row'[r].worker = row[r].worker /\ row[r].status = "running"
    BY <1>1, <1>2, <1>4, RowStepColumns DEF RowStep, Paused, IInv
  <2>2. Attended(r)
    <3>1. PICK t \in inflight'[row[r].worker] : row[r].worker \in Proc /\ t.run = r
      BY <1>1, <2>1 DEF Attended
    <3>2. ~\E s \in Run : /\ Claimable(s) /\ row'[s] = Claimed(row[s], row[r].worker)
                         /\ t = Dispatched(s, row[s].tok + 1)
      <4>1. SUFFICES ASSUME Claimable(r), row'[r] = Claimed(row[r], row[r].worker)
                     PROVE  FALSE
        BY <3>1 DEF Dispatched
      <4>2. row'[r].stale = FALSE  BY <4>1 DEF Claimed, Row
      <4>3. QED BY <1>1, <4>2
    <3>3. QED BY <3>1, <3>2, TaskOrigin DEF Attended, IInv
  <2>3. ~row[r].stale
    BY <2>1, <2>2 DEF AttendedFresh
  <2>4. Kept(r) \/ Spent(r) \/ Touched(r)
    BY <1>1, <1>2, <1>4, RowStepColumns DEF RowStep, Paused, IInv
  <2>5. row'[r].stale = row[r].stale \/ row'[r].stale = FALSE \/ GoStale(r)
    <3>1. CASE Kept(r) \/ Spent(r)
      BY <3>1 DEF Kept, Spent, Consumed, Row
    <3>2. CASE Touched(r)
      BY <3>2 DEF Touched, Aged, Cached, Row
    <3>3. QED BY <2>4, <3>1, <3>2
  <2>6. QED BY <1>1, <2>2, <2>3, <2>5 DEF GoStale
<1>5. QED BY <1>3, <1>4

(* A cancelled run stays cancelled.                                        *)
LEMMA CancelledStays ==
  ASSUME TypeOK, NEW r \in Run, RowStep(r), row[r].status = "cancelled"
  PROVE  row'[r].status = "cancelled"
BY RowStepColumns DEF RowStep, Born, Exists, SentBack, Taken, Claimable, Spent, Live, Owns, Ended

(* Where an execution comes from: it was there, or it consumed its claim.  *)
LEMMA ExecutionOrigin ==
  ASSUME TypeOK, [Next]_vars, NEW q \in Proc, NEW u \in Executing(q)'
  PROVE  \/ \E t \in Executing(q) : t.run = u.run /\ t.tok = u.tok
         \/ \E t \in inflight[q] :
              /\ t.pc = "dispatched" /\ u.run = t.run /\ u.tok = t.tok
              /\ Owns(q, t.run) /\ row[t.run].tok = t.tok
              /\ row'[t.run] = Consumed(row[t.run])
              /\ inflight' = [inflight EXCEPT ![q] = (@ \ {t}) \cup {u}]
<1>. USE DEF TypeOK, Executing
<1>1. CASE inflight' = inflight
  BY <1>1
<1>2. ASSUME NEW p \in Proc, Claim(p)
      PROVE  u \in inflight[q] /\ u.pc # "dispatched"
  BY <1>2 DEF Claim, Dispatched
<1>3. ASSUME NEW p \in Proc, Crash(p)
      PROVE  u \in inflight[q] /\ u.pc # "dispatched"
  BY <1>3 DEF Crash
<1>4. ASSUME NEW p \in Proc, NEW t \in inflight[p], Finish(p, t)
      PROVE  u \in inflight[q] /\ u.pc # "dispatched"
  BY <1>4 DEF Finish
<1>5. ASSUME NEW p \in Proc, NEW t \in inflight[p], NEW v \in Task, v.run = t.run, v.tok = t.tok,
             t.pc # "dispatched", Becomes(p, t, v)
      PROVE  \E w \in Executing(q) : w.run = u.run /\ w.tok = u.tok
  BY <1>5 DEF Becomes
<1>6. ASSUME NEW p \in Proc, NEW t \in inflight[p], TaskStep(p, t)
      PROVE  \/ \E w \in Executing(q) : w.run = u.run /\ w.tok = u.tok
             \/ \E w \in inflight[q] :
                  /\ w.pc = "dispatched" /\ u.run = w.run /\ u.tok = w.tok
                  /\ Owns(q, w.run) /\ row[w.run].tok = w.tok
                  /\ row'[w.run] = Consumed(row[w.run])
                  /\ inflight' = [inflight EXCEPT ![q] = (@ \ {w}) \cup {u}]
  <2>1. CASE UNCHANGED <<sem, inflight>> \/ Finish(p, t) \/ t.pc # "dispatched"
    BY <1>1, <1>4, <1>5, <1>6, <2>1, TaskMoves
  <2>2. CASE t.pc = "dispatched" /\ ~Finish(p, t) /\ inflight' # inflight
    <3>1. Consume(p, t)
      BY <1>6, <2>2 DEF TaskStep, Heartbeat, EngineReturns, EngineAborts, TerminalWrite,
         WriteFault, ConsumeFault
    <3>2. /\ t.run \in Run /\ t \in Task
          /\ Owns(p, t.run) /\ row[t.run].tok = t.tok
          /\ row' = [row EXCEPT ![t.run] = Consumed(@)]
          /\ Becomes(p, t, [t EXCEPT !.pc = "engine"])
      BY <2>2, <3>1 DEF Consume, Task
    <3>3. CASE u = [t EXCEPT !.pc = "engine"] /\ q = p
      BY <2>2, <3>2, <3>3 DEF Becomes, Task
    <3>4. CASE ~(u = [t EXCEPT !.pc = "engine"] /\ q = p)
      BY <3>2, <3>4 DEF Becomes
    <3>5. QED BY <3>3, <3>4
  <2>3. QED BY <2>1, <2>2
<1>7. QED
  BY <1>1, <1>2, <1>3, <1>6, ApiFrame
  DEF Next, Worker, Start, Acquire, ClaimNone, Reap, ReapFault, GoStale, procVars, vars

(* While an execution holds an uncancelled run, the run is not claimable,  *)
(* no claim on it is live, and nobody else executes it.                    *)
LEMMA Held ==
  ASSUME IInv, ExecInv, NEW p \in Proc, NEW t \in Executing(p),
         row[t.run].status # "cancelled"
  PROVE  /\ t.run \in Run /\ t \in inflight[p] /\ Owns(p, t.run)
         /\ row[t.run].tok = t.tok + 1
         /\ ~Claimable(t.run) /\ ~Reapable(t.run) /\ ~Live(t.run)
<1>1. t \in inflight[p] /\ t.run \in Run /\ t.tok \in Nat
  BY DEF IInv, TypeOK, Task, Executing
<1>2. Owns(p, t.run) /\ row[t.run].tok = t.tok + 1
  BY DEF ExecInv, ExecutionHolds
<1>3. ~row[t.run].stale
  BY <1>1, <1>2 DEF ExecInv, AttendedFresh, Attended, Owns
<1>4. ~Live(t.run)
  <2>1. SUFFICES ASSUME NEW q \in Proc, NEW u \in inflight[q], u.run = t.run,
                        u.pc = "dispatched", u.tok = row[t.run].tok
                 PROVE  FALSE
    BY DEF Live
  <2>2. u.tok < row[t.run].tok
    BY <2>1 DEF ExecInv, NoRival
  <2>3. row[t.run].tok \in Nat
    BY <1>1 DEF IInv, TypeOK, Row
  <2>4. QED BY <2>1, <2>2, <2>3
<1>5. QED BY <1>1, <1>2, <1>3, <1>4 DEF Claimable, Reapable, Owns

(* An execution keeps its run through every step, unless it is cancelled.  *)
LEMMA HeldStep ==
  ASSUME IInv, ExecInv, [Next]_vars, NEW p \in Proc, NEW t \in Executing(p),
         NEW u \in Executing(p)', t.run = u.run, t.tok = u.tok
  PROVE  \/ row'[u.run].status = "cancelled"
         \/ /\ row[u.run].status # "cancelled"
            /\ row'[u.run].status = "running" /\ row'[u.run].worker = p
            /\ row'[u.run].tok = u.tok + 1
<1>1. t.run \in Run /\ t \in inflight[p] /\ u \in inflight'[p] /\ u.pc # "dispatched"
  BY DEF IInv, TypeOK, Task, Executing
<1>2. RowStep(t.run)
  BY <1>1, StepRow DEF IInv
<1>3. CASE row[t.run].status = "cancelled"
  BY <1>1, <1>2, <1>3, CancelledStays DEF IInv
<1>4. CASE row[t.run].status # "cancelled"
  <2>1. /\ Owns(p, t.run) /\ row[t.run].tok = t.tok + 1
        /\ ~Claimable(t.run) /\ ~Reapable(t.run) /\ ~Live(t.run)
    BY <1>4, Held
  <2>2. ~Born(t.run) /\ ~SentBack(t.run) /\ ~Taken(t.run) /\ ~Spent(t.run)
    BY <2>1 DEF Born, SentBack, Taken, Spent, Exists, Owns
  <2>3. ~Ended(t.run)
    <3>1. SUFFICES ASSUME NEW q \in Proc, NEW v \in inflight[q], v.run = t.run,
                          v.pc = "write", Owns(q, t.run), Finish(q, v)
                   PROVE  FALSE
      BY <2>1 DEF Ended
    <3>2. q = p /\ v = t
      BY <3>1 DEF ExecInv, SingleExecution, Executing
    <3>3. u \in inflight[p] /\ u # t
      BY <1>1, <3>1, <3>2 DEF Finish, IInv, TypeOK
    <3>4. QED BY <1>1, <3>3 DEF IInv, ClaimsDistinct
  <2>4. CASE Kept(t.run) \/ Touched(t.run)
    BY <1>1, <1>4, <2>1, <2>4, RowStepColumns DEF IInv, Owns
  <2>5. CASE Stopped(t.run)
    BY <1>1, <2>5, RowStepColumns DEF IInv
  <2>6. QED BY <1>2, <2>2, <2>3, <2>4, <2>5 DEF RowStep
<1>5. QED BY <1>3, <1>4

(* The invariant behind single execution is inductive.                     *)
LEMMA ExecStep ==
  ASSUME HeartbeatsLand, IInv, ExecInv, [Next]_vars
  PROVE  ExecInv'
<1>1. IInv'  BY StepInv
<1>2. AttendedFresh'
  BY AttendedFreshStep DEF ExecInv
<1>. DEFINE Old(q, u) == \E t \in Executing(q) : t.run = u.run /\ t.tok = u.tok
            New(q, u) == \E t \in inflight[q] :
                           /\ t.pc = "dispatched" /\ u.run = t.run /\ u.tok = t.tok
                           /\ Owns(q, t.run) /\ row[t.run].tok = t.tok
                           /\ row'[t.run] = Consumed(row[t.run])
                           /\ inflight' = [inflight EXCEPT ![q] = (@ \ {t}) \cup {u}]
<1>3. \A q \in Proc : \A u \in Executing(q)' : Old(q, u) \/ New(q, u)
  BY ExecutionOrigin DEF IInv
<1>4. ASSUME NEW q \in Proc, NEW u \in Executing(q)', New(q, u)
      PROVE  /\ u.run \in Run /\ Owns(q, u.run) /\ row[u.run].tok = u.tok /\ u.tok \in Nat
             /\ row'[u.run].status = "running" /\ row'[u.run].worker = q
             /\ row'[u.run].tok = u.tok + 1 /\ Live(u.run) /\ ~Taken(u.run)
  <2>1. PICK t \in inflight[q] :
          /\ t.pc = "dispatched" /\ u.run = t.run /\ u.tok = t.tok
          /\ Owns(q, t.run) /\ row[t.run].tok = t.tok
          /\ row'[t.run] = Consumed(row[t.run])
    BY <1>4
  <2>2. t.run \in Run /\ t.tok \in Nat /\ row[t.run] \in Row
    BY DEF IInv, TypeOK, Task
  <2>3. /\ row'[t.run].status = row[t.run].status /\ row'[t.run].tok = row[t.run].tok + 1
        /\ row'[t.run].worker = row[t.run].worker /\ row'[t.run].reclaims = row[t.run].reclaims
    BY <2>1, <2>2 DEF Consumed, Row
  <2>4. Live(t.run)  BY <2>1 DEF Live
  <2>5. ~Taken(t.run)
    BY <2>1, <2>2, <2>3, RowStepColumns DEF Taken, Claimable, Owns, Row, IInv
  <2>6. QED BY <2>1, <2>2, <2>3, <2>4, <2>5 DEF Owns
<1>. HIDE DEF Old, New
<1>5. ExecutionHolds'
  <2>1. SUFFICES ASSUME NEW q \in Proc, NEW u \in Executing(q)'
                 PROVE  \/ row'[u.run].status = "cancelled"
                        \/ /\ row'[u.run].status = "running" /\ row'[u.run].worker = q
                           /\ row'[u.run].tok = u.tok + 1
    BY DEF ExecutionHolds, Owns
  <2>2. CASE Old(q, u)  BY <2>2, HeldStep DEF Old
  <2>3. CASE New(q, u)  BY <2>3, <1>4
  <2>4. QED BY <1>3, <2>2, <2>3
<1>6. NoRival'
  <2>1. SUFFICES ASSUME NEW p \in Proc, NEW q \in Proc,
                        NEW t \in Executing(p)', NEW u \in inflight'[q],
                        u.pc = "dispatched", u.run = t.run, row'[t.run].status # "cancelled"
                 PROVE  u.tok < row'[t.run].tok
    BY DEF NoRival
  <2>2. /\ t.run \in Run /\ t.tok \in Nat
        /\ row[t.run].tok \in Nat /\ row'[t.run].tok \in Nat /\ u.tok \in Nat
    BY <1>1, <2>1 DEF IInv, TypeOK, Task, Executing, Row
  <2>3. RowStep(t.run)  BY <2>2, StepRow DEF IInv
  <2>4. ~Taken(t.run)
    <3>1. CASE Old(p, t)
      <4>1. PICK o \in Executing(p) : o.run = t.run /\ o.tok = t.tok  BY <3>1 DEF Old
      <4>2. row[o.run].status # "cancelled"
        BY <2>1, <2>2, <2>3, <4>1, CancelledStays DEF IInv
      <4>3. QED BY <4>1, <4>2, Held DEF Taken
    <3>2. CASE New(p, t)  BY <3>2, <1>4
    <3>3. QED BY <1>3, <3>1, <3>2
  <2>5. u \in inflight[q]
    <3>1. ASSUME NEW s \in Run, Claimable(s), row'[s] = Claimed(row[s], q),
                 u = Dispatched(s, row[s].tok + 1)
          PROVE  FALSE
      <4>1. s = t.run  BY <2>1, <3>1 DEF Dispatched
      <4>2. row'[s] = Claimed(row[s], q) /\ row'[s].tok = row[s].tok + 1
        BY <3>1 DEF Claimed, IInv, TypeOK, Row
      <4>3. ~Kept(s) /\ ~Stopped(s) /\ ~SentBack(s) /\ ~Touched(s) /\ ~Ended(s)
        BY <2>2, <4>1, <4>2, RowStepColumns DEF IInv
      <4>4. ~Born(s)  BY <3>1 DEF Born, Claimable, Exists
      <4>5. ~Spent(s)
        <5>1. Spent(s) => row'[s].reclaims = row[s].reclaims /\ row[s].status = "running"
          BY RowStepColumns DEF Spent, Live, Owns, IInv
        <5>2. row[s].status = "running" => row'[s].reclaims = row[s].reclaims + 1
          BY <4>2 DEF Claimed, IInv, TypeOK, Row
        <5>3. row[s].reclaims \in Nat  BY DEF IInv, TypeOK, Row
        <5>4. QED BY <5>1, <5>2, <5>3
      <4>6. QED BY <2>3, <2>4, <4>1, <4>3, <4>4, <4>5 DEF RowStep
    <3>2. QED BY <2>1, <3>1, TaskOrigin DEF IInv
  <2>6. CASE Old(p, t)
    <3>1. PICK o \in Executing(p) : o.run = t.run /\ o.tok = t.tok  BY <2>6 DEF Old
    <3>2. row[o.run].status # "cancelled"
      BY <2>1, <2>2, <2>3, <3>1, CancelledStays DEF IInv
    <3>3. u.tok < row[t.run].tok
      BY <2>1, <2>5, <3>1, <3>2 DEF ExecInv, NoRival
    <3>4. row[t.run].tok <= row'[t.run].tok
      <4>1. Exists(t.run)  BY <3>1, <3>2, Held DEF Owns, Exists
      <4>2. QED BY <2>2, <2>3, <4>1, RowsAdvance DEF IInv
    <3>5. QED BY <2>2, <3>3, <3>4
  <2>7. CASE New(p, t)
    <3>1. u.tok <= row[t.run].tok
      BY <2>1, <2>2, <2>5 DEF IInv, ClaimsPast
    <3>2. row[t.run].tok = t.tok
      BY <2>7, <1>4
    <3>3. row'[t.run].tok = t.tok + 1
      BY <2>7, <1>4
    <3>4. QED BY <2>2, <3>1, <3>2, <3>3
  <2>8. QED BY <1>3, <2>6, <2>7
<1>7. SingleExecution'
  <2>1. SUFFICES ASSUME NEW p \in Proc, NEW q \in Proc,
                        NEW t \in Executing(p)', NEW u \in Executing(q)', t.run = u.run
                 PROVE  p = q /\ t = u
    BY DEF SingleExecution
  <2>2. p = q /\ t.tok = u.tok
    <3>1. CASE Old(p, t) /\ Old(q, u)
      BY <2>1, <3>1 DEF ExecInv, SingleExecution, Old
    <3>2. ASSUME NEW a \in Proc, NEW b \in Proc, NEW v \in Executing(a)', NEW w \in Executing(b)',
                 Old(a, v), New(b, w), v.run = w.run
          PROVE  FALSE
      <4>1. PICK o \in Executing(a) : o.run = v.run /\ o.tok = v.tok  BY <3>2 DEF Old
      <4>2. Owns(b, w.run) /\ Live(w.run)  BY <3>2, <1>4
      <4>3. ~Live(o.run)  BY <3>2, <4>1, <4>2, Held DEF Owns
      <4>4. QED BY <3>2, <4>1, <4>2, <4>3
    <3>3. CASE New(p, t) /\ New(q, u)
      <4>1. Owns(p, t.run) /\ row[t.run].tok = t.tok  BY <3>3, <1>4
      <4>2. Owns(q, u.run) /\ row[u.run].tok = u.tok  BY <3>3, <1>4
      <4>3. QED BY <2>1, <4>1, <4>2 DEF Owns
    <3>4. QED BY <1>3, <2>1, <3>1, <3>2, <3>3
  <2>3. t \in inflight'[p] /\ u \in inflight'[p]
    BY <2>2 DEF Executing
  <2>4. QED BY <1>1, <2>1, <2>2, <2>3 DEF IInv, ClaimsDistinct
<1>8. QED BY <1>2, <1>5, <1>6, <1>7 DEF ExecInv

(* When heartbeats land in time, no run is ever executed by two tasks at   *)
(* once, in one process or in two, whatever crashes, faults, cancels,      *)
(* resumes and reclaims happen.                                            *)
THEOREM ExecutionIsExclusive == HeartbeatsLand => (Spec => []SingleExecution)
<1>1. Init => ExecInv
  BY DEF Init, ExecInv, AttendedFresh, ExecutionHolds, NoRival, SingleExecution,
         Executing, NoRow
<1>2. HeartbeatsLand /\ IInv /\ ExecInv /\ [Next]_vars => ExecInv'
  BY ExecStep
<1>3. ExecInv => SingleExecution
  BY DEF ExecInv
<1>4. QED
  <2>1. SUFFICES ASSUME HeartbeatsLand PROVE Spec => []SingleExecution
    OBVIOUS
  <2>2. IInv /\ ExecInv /\ [Next]_vars => ExecInv'
    BY <1>2, <2>1
  <2>3. QED BY <1>1, <2>2, <1>3, Invariance, PTL DEF Spec

-----------------------------------------------------------------------------
(***************************************************************************)
(* Who may write what of a run.  One run per idempotency key and one       *)
(* replacement per answered run, for every number of concurrent callers,   *)
(* runs and worker processes.                                              *)
(*                                                                         *)
(* And what the worker_id fence of execute_run buys: with one slot a       *)
(* process (NESTOR_WORKER_RUN_CONCURRENCY = 1, the default), an execution  *)
(* whose run was reclaimed writes nothing, whether or not heartbeats land. *)
(* With two slots a process can reclaim its own run, and the fence, which  *)
(* only knows the process, does not tell the two executions apart.         *)
(***************************************************************************)

(* No write but its INSERT ever sets a row's key or parent.                *)
LEMMA LineageKept ==
  ASSUME TypeOK, NEW r \in Run, RowStep(r), Exists(r)
  PROVE  row'[r].key = row[r].key /\ row'[r].parent = row[r].parent
<1>. row[r] \in Row  BY DEF TypeOK
<1>. USE DEF Row
<1>1. CASE Kept(r) \/ Stopped(r) \/ SentBack(r) \/ Touched(r)
  BY <1>1 DEF Kept, Stopped, SentBack, Touched, Cancelled, Requeued, Aged, Cached
<1>2. CASE Taken(r)
  BY <1>2 DEF Taken, Claimed
<1>3. CASE Spent(r)
  BY <1>3 DEF Spent, Consumed
<1>4. CASE Ended(r)
  <2>1. CASE row'[r] = Reaped(row[r])
    BY <2>1 DEF Reaped
  <2>2. ASSUME NEW out, row'[r] = Landed(row[r], out)
        PROVE  row'[r].key = row[r].key /\ row'[r].parent = row[r].parent
    BY <2>2 DEF Landed
  <2>3. QED BY <1>4, <2>1, <2>2 DEF Ended
<1>5. QED BY <1>1, <1>2, <1>3, <1>4 DEF RowStep, Born

(* How a run comes to be: under a key nobody holds, or as the replacement  *)
(* of a run that this very transaction retires from 'needs_input'.         *)
ByCreate(n) ==
  /\ row'[n].parent = None
  /\ row'[n].key # None => ~KeyTaken(row'[n].key)
  /\ \A s \in Run \ {n} : row'[s] = row[s]
ByAnswer(n) ==
  /\ row'[n].key = None
  /\ row'[n].parent \in Run \ {n}
  /\ Retirable(row'[n].parent)
  /\ row'[row'[n].parent] = Cancelled(row[row'[n].parent])
  /\ \A s \in Run \ {n, row'[n].parent} : row'[s] = row[s]

(* Every new run comes to be in one of those two ways.                     *)
LEMMA BirthOrigin ==
  ASSUME IInv, [Next]_vars, NEW n \in Run, ~Exists(n), Exists(n)'
  PROVE  ByCreate(n) \/ ByAnswer(n)
<1>0. row \in [Run -> Row] /\ req \in [Caller -> Request]
  BY DEF IInv, TypeOK
<1>1. row'[n].status = "queued"
  <2>1. RowStep(n)
    BY StepRow DEF IInv
  <2>2. Born(n)
    BY <2>1 DEF RowStep, Born, Kept, Stopped, SentBack, Taken, Claimable, Spent, Live,
                Owns, Touched, Ended, Exists
  <2>3. QED BY <2>2, RowStepColumns DEF IInv
<1>2. ASSUME NEW c \in Caller, Api(c)
      PROVE  ByCreate(n) \/ ByAnswer(n)
  <2>1. row' # row
    BY DEF Exists
  <2>2. ASSUME NEW k \in Key \cup {None}, NEW spec \in BOOLEAN,
               Insert(QueuedRow(k, None, spec)), k # None => ~KeyTaken(k)
        PROVE  ByCreate(n)
    <3>1. PICK r \in Run : ~Exists(r) /\ row' = [row EXCEPT ![r] = QueuedRow(k, None, spec)]
      BY <2>2 DEF Insert
    <3>2. r = n
      BY <1>0, <3>1 DEF Exists
    <3>3. row'[n] = QueuedRow(k, None, spec)
      BY <1>0, <3>1, <3>2
    <3>4. row'[n].key = k /\ row'[n].parent = None
      BY <3>3 DEF QueuedRow, NoRow
    <3>5. QED BY <1>0, <2>2, <3>1, <3>2, <3>4 DEF ByCreate
  <2>3. CASE WriteCreate(c)
    <3>1. req[c].key \in Key
      BY <1>0, <2>3, ConstantsAssumption DEF WriteCreate, Writes, Request, Idle, AllVerbs
    <3>2. ~KeyTaken(req[c].key) /\ Insert(QueuedRow(req[c].key, None, FALSE))
      BY <2>1, <2>3 DEF WriteCreate
    <3>3. QED BY <2>2, <3>1, <3>2
  <2>4. CASE WriteAnswer(c)
    <3>1. PICK r \in Run : r = req[c].run
      BY <1>0, <2>4, ConstantsAssumption DEF WriteAnswer, Writes, Request, Idle, AllVerbs
    <3>2. Retirable(r)
      BY <2>1, <2>4, <3>1 DEF WriteAnswer
    <3>3. PICK m \in Run :
            ~Exists(m) /\ row' = [row EXCEPT ![r] = Cancelled(row[r]),
                                             ![m] = QueuedRow(None, r, FALSE)]
      BY <2>1, <2>4, <3>1 DEF WriteAnswer
    <3>4. r # m /\ r # n
      BY <3>2, <3>3 DEF Retirable, Exists
    <3>5. m = n
      BY <1>0, <3>3, <3>4 DEF Exists
    <3>6. row'[n] = QueuedRow(None, r, FALSE) /\ row'[r] = Cancelled(row[r])
      BY <1>0, <3>3, <3>4, <3>5
    <3>7. row'[n].key = None /\ row'[n].parent = r
      BY <3>6 DEF QueuedRow, NoRow
    <3>8. \A s \in Run \ {n, r} : row'[s] = row[s]
      BY <1>0, <3>3, <3>5
    <3>9. QED BY <3>2, <3>4, <3>6, <3>7, <3>8 DEF ByAnswer
  <2>5. CASE WriteRewrite(c)
    BY <2>2, <2>5 DEF WriteRewrite
  <2>6. CASE WriteReportSpec(c) \/ WriteResume(c)
    BY <1>0, <2>1, <2>6 DEF WriteReportSpec, WriteResume, Requeue, Exists
  <2>7. CASE WriteCancel(c)
    <3>1. row' = [row EXCEPT ![req[c].run] = Cancelled(row[req[c].run])] /\ Exists(req[c].run)
      BY <2>7, ConstantsAssumption
         DEF WriteCancel, Writes, IInv, RequestsNameRuns, AllVerbs
    <3>2. QED BY <1>0, <3>1 DEF Exists
  <2>8. QED
    BY <1>2, <2>1, <2>3, <2>4, <2>5, <2>6, <2>7
    DEF Api, ReadCreate, ReadAnswer, ReadReportSpec, ReadResume, ReadRewrite, ReadCancel,
        ReadFor, rowVars
<1>3. ASSUME NEW p \in Proc, Worker(p)
      PROVE  FALSE
  <2>1. \A t \in inflight[p] : t.run \in Run /\ Exists(t.run)
    BY DEF IInv, TypeOK, Task, ClaimsPast, AbsentIsBlank, NoRow
  <2>2. ASSUME NEW t \in inflight[p], TaskStep(p, t)
        PROVE  row'[n] = row[n]
    BY <1>0, <2>1, <2>2
    DEF TaskStep, Consume, Heartbeat, EngineReturns, EngineAborts, TerminalWrite,
        WriteFault, ConsumeFault, rowVars
  <2>3. row'[n] = row[n]
    BY <1>0, <1>3, <2>2
    DEF Worker, Start, Acquire, Claim, ClaimNone, Reap, ReapFault, Crash, rowVars,
        Claimable, Reapable, Exists
  <2>4. QED BY <2>3 DEF Exists
<1>4. CASE UNCHANGED vars \/ \E r \in Run : GoStale(r)
  <2>1. row'[n] = row[n]
    BY <1>0, <1>4 DEF vars, GoStale, Exists
  <2>2. QED BY <2>1 DEF Exists
<1>5. QED BY <1>2, <1>3, <1>4 DEF Next

(* Concurrent POSTs with one idempotency key make one run.                 *)
THEOREM KeysAreUnique == Spec => []OneRunPerKey
<1>1. Init => OneRunPerKey
  BY DEF Init, OneRunPerKey, NoRow
<1>2. ASSUME IInv, OneRunPerKey, [Next]_vars
      PROVE  OneRunPerKey'
  <2>1. \A r \in Run : Exists(r) => row'[r].key = row[r].key
    BY <1>2, LineageKept, StepRow DEF IInv
  <2>2. \A r \in Run : ~Exists(r) => row[r].key = None
    BY <1>2 DEF IInv, AbsentIsBlank, NoRow
  <2>3. \A r \in Run : ~Exists(r)' => row'[r].key = None
    <3>1. AbsentIsBlank'
      BY <1>2, StepInv DEF IInv
    <3>2. QED BY <3>1 DEF AbsentIsBlank, NoRow
  <2>4. ASSUME NEW n \in Run, NEW m \in Run, n # m, ~Exists(n),
               row'[n].key # None, row'[n].key = row'[m].key
        PROVE  FALSE
    <3>1. Exists(n)'
      BY <2>3, <2>4
    <3>2. ~KeyTaken(row'[n].key) /\ row'[m] = row[m]
      BY <1>2, <2>4, <3>1, BirthOrigin DEF ByCreate, ByAnswer
    <3>3. QED BY <2>4, <3>2 DEF KeyTaken
  <2>5. ASSUME NEW n \in Run, NEW m \in Run, n # m,
               row'[n].key # None, row'[n].key = row'[m].key
        PROVE  FALSE
    <3>1. Exists(n) /\ Exists(m)
      BY <2>4, <2>5
    <3>2. QED BY <1>2, <2>1, <2>5, <3>1 DEF OneRunPerKey
  <2>6. QED BY <2>5 DEF OneRunPerKey
<1>3. QED BY Invariance, <1>1, <1>2, PTL DEF Spec

(* However many users answer a paused run at once, it gets one replacement *)
(* and stays retired.                                                      *)
THEOREM AnswersAreUnique == Spec => []AnsweredOnce
<1>1. Init => AnsweredOnce
  BY DEF Init, AnsweredOnce, NoRow
<1>2. ASSUME IInv, AnsweredOnce, [Next]_vars
      PROVE  AnsweredOnce'
  <2>0. \A r \in Run : row[r].parent \in Run \cup {None} /\ row[r] \in Row
    BY <1>2 DEF IInv, TypeOK, Row
  <2>1. \A r \in Run : Exists(r) => row'[r].parent = row[r].parent
    BY <1>2, LineageKept, StepRow DEF IInv
  <2>2. \A r \in Run : ~Exists(r) => row[r].parent = None
    BY <1>2 DEF IInv, AbsentIsBlank, NoRow
  <2>3. \A r \in Run : row[r].status = "cancelled" => row'[r].status = "cancelled"
    BY <1>2, CancelledStays, StepRow DEF IInv
  <2>4. ASSUME NEW n \in Run, row'[n].parent # None, ~Exists(n)
        PROVE  /\ row'[row'[n].parent].status = "cancelled"
               /\ \A m \in Run \ {n} : row'[m].parent # row'[n].parent
    <3>1. Exists(n)'
      <4>1. AbsentIsBlank'
        BY <1>2, StepInv DEF IInv
      <4>2. QED BY <2>4, <4>1 DEF AbsentIsBlank, NoRow
    <3>2. ByAnswer(n)
      BY <1>2, <2>4, <3>1, BirthOrigin DEF ByCreate
    <3>3. PICK q \in Run \ {n} : q = row'[n].parent
      BY <3>2 DEF ByAnswer
    <3>4. /\ row[q].status = "needs_input" /\ row'[q] = Cancelled(row[q])
          /\ \A s \in Run \ {n, q} : row'[s] = row[s]
      BY <3>2, <3>3 DEF ByAnswer, Retirable
    <3>5. row'[q].status = "cancelled" /\ row'[q].parent = row[q].parent
      BY <2>0, <3>4 DEF Cancelled, Row
    <3>6. \A m \in Run : row[m].parent # q
      BY <1>2, <3>4, ConstantsAssumption DEF AnsweredOnce
    <3>7. \A m \in Run \ {n} : row'[m].parent # q
      BY <3>4, <3>5, <3>6
    <3>8. QED BY <3>3, <3>5, <3>7
  <2>5. ASSUME NEW n \in Run, NEW m \in Run, row'[n].parent # None
        PROVE  /\ row'[row'[n].parent].status = "cancelled"
               /\ row'[m].parent = row'[n].parent => n = m
    <3>1. CASE ~Exists(n)
      BY <2>4, <2>5, <3>1
    <3>2. CASE Exists(n)
      <4>1. row'[n].parent = row[n].parent
        BY <2>1, <3>2
      <4>2. PICK q \in Run : q = row[n].parent
        BY <2>0, <2>5, <4>1
      <4>3. row[q].status = "cancelled"
        BY <1>2, <2>5, <4>1, <4>2 DEF AnsweredOnce
      <4>4. row'[m].parent = q => n = m
        <5>1. CASE ~Exists(m)
          BY <2>4, <2>5, <3>2, <4>1, <4>2, <5>1
        <5>2. CASE Exists(m)
          BY <1>2, <2>1, <2>5, <4>1, <4>2, <5>2 DEF AnsweredOnce
        <5>3. QED BY <5>1, <5>2
      <4>5. QED BY <2>3, <4>1, <4>2, <4>3, <4>4
    <3>3. QED BY <3>1, <3>2
  <2>6. QED BY <2>5 DEF AnsweredOnce
<1>3. QED BY Invariance, <1>1, <1>2, PTL DEF Spec

-----------------------------------------------------------------------------
(* The owner of a run executes it on the claim it consumed last.           *)
FenceInv ==
  \A p \in Proc : \A t \in Executing(p) :
    Owns(p, t.run) => row[t.run].tok = t.tok + 1

(* A process with one slot has one task, and claims nothing meanwhile.     *)
LEMMA OneTask ==
  ASSUME IInv, K = 1, NEW p \in Proc, NEW t \in inflight[p]
  PROVE  inflight[p] = {t} /\ ~Claim(p)
<1>1. Up(p) /\ IsFiniteSet(inflight[p])
  BY DEF IInv, DownIsEmpty
<1>2. sem[p] + (IF loop[p] = "claim" THEN 1 ELSE 0) + Cardinality(inflight[p]) = 1
  BY <1>1 DEF IInv, SlotsAccounted
<1>3. sem[p] \in Nat
  BY ConstantsAssumption DEF IInv, TypeOK
<1>. DEFINE S == inflight[p] \ {t}
<1>4. IsFiniteSet(S) /\ Cardinality(S) = Cardinality(inflight[p]) - 1
  BY <1>1, FS_RemoveElement
<1>5. Cardinality(S) \in Nat
  BY <1>4, FS_CardinalityType
<1>. HIDE DEF S
<1>6. Cardinality(S) = 0 /\ loop[p] # "claim"
  <2>1. Cardinality(inflight[p]) \in Nat
    BY <1>1, FS_CardinalityType
  <2>2. CASE loop[p] = "claim"
    BY <1>2, <1>3, <1>4, <1>5, <2>1, <2>2
  <2>3. CASE loop[p] # "claim"
    BY <1>2, <1>3, <1>4, <1>5, <2>1, <2>3
  <2>4. QED BY <2>2, <2>3
<1>7. S = {}
  BY <1>4, <1>6, FS_EmptySet
<1>8. QED BY <1>6, <1>7 DEF S, Claim

(* A process owns a run it already owned, or claims it, or consumes it.    *)
LEMMA OwnershipOrigin ==
  ASSUME IInv, [Next]_vars, NEW q \in Proc, NEW r \in Run, Owns(q, r)'
  PROVE  \/ Owns(q, r) /\ row'[r].tok = row[r].tok
         \/ Claim(q)
         \/ \E t \in inflight[q] : t.pc = "dispatched"
<1>0. row \in [Run -> Row] /\ row[r] \in Row
  BY DEF IInv, TypeOK
<1>1. CASE row'[r] = row[r]
  BY <1>1 DEF Owns
<1>2. RowStep(r)
  BY StepRow DEF IInv
<1>3. CASE Kept(r) \/ Touched(r)
  BY <1>2, <1>3, RowStepColumns DEF Owns, IInv
<1>4. CASE Spent(r)
  BY <1>4, RowStepColumns DEF Owns, IInv, Spent, Live
<1>5. ~(Born(r) \/ Stopped(r) \/ SentBack(r) \/ Ended(r))
  BY RowStepColumns DEF Owns, IInv, Paused
<1>6. CASE Taken(r)
  <2>1. row'[r].tok = row[r].tok + 1 /\ row[r].tok \in Nat
    BY <1>0, <1>6, RowStepColumns DEF IInv, Row
  <2>2. ASSUME NEW c \in Caller, Api(c)
        PROVE  FALSE
    <3>1. \/ row'[r] = row[r] \/ row'[r] = Cancelled(row[r])
          \/ \E b \in BOOLEAN : row'[r] = Requeued(row[r], b)
          \/ \E k, parent, b : row'[r] = QueuedRow(k, parent, b)
      BY <1>0, <2>2
      DEF Api, ReadCreate, ReadAnswer, ReadReportSpec, ReadResume, ReadRewrite, ReadCancel,
          ReadFor, rowVars, WriteCreate, WriteAnswer, WriteReportSpec, WriteResume,
          WriteRewrite, WriteCancel, Insert, Requeue
    <3>2. row'[r].tok = row[r].tok \/ row'[r].status = "queued"
      BY <1>0, <3>1 DEF Requeued, Cancelled, QueuedRow, NoRow, Row
    <3>3. QED BY <2>1, <3>2 DEF Owns
  <2>3. ASSUME NEW p \in Proc, NEW t \in inflight[p], TaskStep(p, t)
        PROVE  p = q /\ t.pc = "dispatched"
    <3>1. Consume(p, t)
      <4>1. \/ row'[r] = row[r] \/ Consume(p, t)
            \/ \E b : row'[r] = Aged(row[r], b) \/ row'[r] = Cached(row[r], b)
            \/ \E out : row'[r] = Landed(row[r], out)
        BY <1>0, <2>3
        DEF TaskStep, Heartbeat, EngineReturns, EngineAborts, TerminalWrite, WriteFault,
            ConsumeFault, rowVars
      <4>2. Consume(p, t) \/ row'[r].tok = row[r].tok
        BY <1>0, <4>1 DEF Aged, Cached, Landed, Row
      <4>3. QED BY <2>1, <4>2
    <3>2. Consume(p, t) /\ Owns(p, r) /\ row'[r] = Consumed(row[r])
      BY <1>0, <2>1, <3>1 DEF Consume
    <3>3. row'[r].worker = p
      BY <1>0, <3>2 DEF Consumed, Owns, Row
    <3>4. QED BY <3>2, <3>3 DEF Consume, Owns
  <2>4. ASSUME NEW p \in Proc, Claim(p)
        PROVE  p = q
    <3>1. row'[r] = Claimed(row[r], p)
      BY <1>0, <2>1, <2>4 DEF Claim
    <3>2. row'[r].worker = p
      BY <1>0, <3>1 DEF Claimed, Row
    <3>3. QED BY <3>2 DEF Owns
  <2>5. ASSUME NEW p \in Proc, Reap(p)
        PROVE  row'[r].tok = row[r].tok
    BY <1>0, <2>5 DEF Reap, Reaped, Row
  <2>6. ASSUME NEW s \in Run, GoStale(s)
        PROVE  row'[r].tok = row[r].tok
    BY <1>0, <2>6 DEF GoStale, Aged, Row
  <2>7. QED
    BY <2>1, <2>2, <2>3, <2>4, <2>5, <2>6
    DEF Next, Worker, Start, Acquire, ClaimNone, ReapFault, Crash, rowVars, vars
<1>7. QED BY <1>2, <1>3, <1>4, <1>5, <1>6 DEF RowStep

(* An execution that lost its claim writes no outcome, when a process has  *)
(* one slot.                                                               *)
THEOREM FenceHolds == K = 1 => (Spec => DisplacedWritesNothing)
<1>1. Init => FenceInv
  BY DEF Init, FenceInv, Executing
<1>2. ASSUME K = 1, IInv, FenceInv, [Next]_vars
      PROVE  FenceInv'
  <2>1. SUFFICES ASSUME NEW q \in Proc, NEW u \in Executing(q)', Owns(q, u.run)'
                 PROVE  row'[u.run].tok = u.tok + 1
    BY DEF FenceInv
  <2>2. ASSUME NEW t \in Executing(q), t.run = u.run, t.tok = u.tok
        PROVE  row'[u.run].tok = u.tok + 1
    <3>1. t \in inflight[q] /\ t.pc # "dispatched" /\ t.run \in Run
      BY <1>2 DEF Executing, IInv, TypeOK, Task
    <3>2. inflight[q] = {t} /\ ~Claim(q)
      BY <1>2, <3>1, OneTask
    <3>3. Owns(q, t.run) /\ row'[t.run].tok = row[t.run].tok
      BY <1>2, <2>1, <2>2, <3>1, <3>2, OwnershipOrigin
    <3>4. QED BY <1>2, <2>2, <3>3 DEF FenceInv
  <2>3. ASSUME NEW t \in inflight[q], u.run = t.run, u.tok = t.tok,
               row[t.run].tok = t.tok, row'[t.run] = Consumed(row[t.run])
        PROVE  row'[u.run].tok = u.tok + 1
    <3>1. row[t.run] \in Row
      BY <1>2 DEF IInv, TypeOK, Task
    <3>2. QED BY <2>3, <3>1 DEF Consumed, Row
  <2>4. QED BY <1>2, <2>2, <2>3, ExecutionOrigin DEF IInv
<1>3. ASSUME FenceInv, NEW p \in Proc, NEW t \in inflight[p],
             TerminalWrite(p, t), row' # row
      PROVE  row[t.run].tok = t.tok + 1
  BY <1>3 DEF FenceInv, TerminalWrite, Executing
<1>4. SUFFICES ASSUME K = 1 PROVE Spec => DisplacedWritesNothing
  OBVIOUS
<1>5. IInv /\ FenceInv /\ [Next]_vars => FenceInv'
  BY <1>2, <1>4
<1>6. FenceInv /\ [Next]_vars =>
        [\A p \in Proc : \A t \in inflight[p] :
           TerminalWrite(p, t) /\ row' # row => row[t.run].tok = t.tok + 1]_vars
  BY <1>3
<1>7. QED BY Invariance, <1>1, <1>5, <1>6, PTL DEF Spec, DisplacedWritesNothing

-----------------------------------------------------------------------------
(***************************************************************************)
(* The run queue implements RunLifecycle, for every value of the           *)
(* constants.                                                              *)
(***************************************************************************)

-----------------------------------------------------------------------------
(* The refinement mapping, as functions of the state.                      *)
St == [r \in Run |-> row[r].status]
Cr == [r \in Run |-> IF Exists(r)
                     THEN 1 + requeues[r] + MaxReclaims - starts[r]
                     ELSE 0]

(* One row written is one status changed.                                  *)
LEMMA StatusPut ==
  ASSUME NEW r \in Run, NEW new \in Row, row \in [Run -> Row],
         row' = [row EXCEPT ![r] = new]
  PROVE  St' = [St EXCEPT ![r] = new.status]
BY DEF St

(* A step that keeps every status and the two counts is a stutter.         *)
LEMMA Silent ==
  ASSUME \A r \in Run : row'[r].status = row[r].status,
         UNCHANGED <<starts, requeues>>
  PROVE  UNCHANGED <<St, Cr>>
BY DEF St, Cr, Exists

(* The counts unchanged, the credit of the runs that exist is unchanged.   *)
LEMMA CreditKept ==
  ASSUME UNCHANGED <<starts, requeues>>, \A r \in Run : Exists(r)' <=> Exists(r)
  PROVE  Cr' = Cr
BY DEF Cr

(* A created run has the credit of one start and its recoveries.           *)
LEMMA Created ==
  ASSUME IInv, NEW n \in Run, ~Exists(n), Exists(n)', UNCHANGED <<starts, requeues>>,
         \A r \in Run \ {n} : Exists(r)' <=> Exists(r)
  PROVE  Cr' = [Cr EXCEPT ![n] = 1 + MaxReclaims]
<1>1. starts[n] = 0 /\ requeues[n] = 0
  BY DEF IInv, AbsentIsBlank
<1>2. MaxReclaims \in Nat
  BY ConstantsAssumption
<1>3. 1 + requeues'[n] + MaxReclaims - starts'[n] = 1 + MaxReclaims
  BY <1>1, <1>2
<1>4. QED BY <1>3 DEF Cr

(* An insert creates a run.                                                *)
LEMMA InsertCreates ==
  ASSUME IInv, NEW new \in Row, new.status = "queued", Insert(new),
         UNCHANGED <<starts, requeues>>
  PROVE  \E r \in Run : Lifecycle!Create(r)
<1>1. PICK n \in Run : ~Exists(n) /\ row' = [row EXCEPT ![n] = new]
  BY DEF Insert
<1>2. St' = [St EXCEPT ![n] = "queued"]
  BY <1>1, StatusPut DEF IInv, TypeOK
<1>3. /\ Exists(n)'
      /\ \A r \in Run \ {n} : Exists(r)' <=> Exists(r)
  BY <1>1 DEF Exists, IInv, TypeOK
<1>4. Cr' = [Cr EXCEPT ![n] = 1 + MaxReclaims]
  BY <1>1, <1>3, Created
<1>5. St[n] = "absent"
  BY <1>1 DEF St, Exists
<1>6. QED BY <1>2, <1>4, <1>5 DEF Lifecycle!Create, St, Cr

(* Report shapes and resumes put a paused run back with one more start.    *)
LEMMA RequeueRefines ==
  ASSUME IInv, NEW r \in Run, NEW spec \in BOOLEAN,
         NEW from \in {"needs_report_spec", "parked"},
         Requeue(r, from, spec), UNCHANGED starts
  PROVE  Lifecycle!Requeue(r) \/ UNCHANGED <<St, Cr>>
<1>1. CASE row[r].status # from
  BY <1>1, Silent DEF Requeue
<1>2. CASE row[r].status = from
  <2>1. /\ row' = [row EXCEPT ![r] = Requeued(row[r], spec)]
        /\ requeues' = [requeues EXCEPT ![r] = requeues[r] + 1]
    BY <1>2 DEF Requeue
  <2>2. row[r] \in Row /\ Requeued(row[r], spec) \in Row
        /\ Requeued(row[r], spec).status = "queued"
    <3>1. row[r] \in Row  BY DEF IInv, TypeOK
    <3>2. Requeued(row[r], spec) \in Row  BY <3>1, WritesTyped
    <3>3. Requeued(row[r], spec).status = "queued"  BY <3>1 DEF Requeued, Row
    <3>4. QED BY <3>1, <3>2, <3>3
  <2>3. St' = [St EXCEPT ![r] = "queued"]
    BY <2>1, <2>2, StatusPut DEF IInv, TypeOK
  <2>4. \A s \in Run : /\ Exists(s)' <=> Exists(s)
                       /\ requeues'[s] = IF s = r THEN requeues[s] + 1 ELSE requeues[s]
    BY <1>2, <2>1, <2>2 DEF Exists, IInv, TypeOK
  <2>5. /\ Exists(r)
        /\ requeues[r] \in Nat /\ starts[r] \in Nat /\ MaxReclaims \in Nat
    BY <1>2, ConstantsAssumption DEF Exists, IInv, TypeOK
  <2>6. Cr' = [Cr EXCEPT ![r] = Cr[r] + 1]
    <3>1. 1 + (requeues[r] + 1) + MaxReclaims - starts[r]
            = (1 + requeues[r] + MaxReclaims - starts[r]) + 1
      BY <2>5
    <3>2. \A s \in Run : Cr'[s] = IF s = r THEN Cr[s] + 1 ELSE Cr[s]
      BY <2>4, <2>5, <3>1 DEF Cr
    <3>3. QED BY <3>2 DEF Cr
  <2>7. St[r] \in {"needs_report_spec", "parked"}
    BY <1>2 DEF St
  <2>8. QED BY <2>3, <2>6, <2>7 DEF Lifecycle!Requeue, St, Cr
<1>3. QED BY <1>1, <1>2

(* Every verb of the API is a move of the life cycle or changes nothing    *)
(* that it can see.                                                        *)
LEMMA ApiRefines ==
  ASSUME IInv, NEW c \in Caller, Api(c)
  PROVE  Lifecycle!Next \/ UNCHANGED <<St, Cr>>
<1>. USE DEF Lifecycle!Next
<1>0. row \in [Run -> Row] /\ req \in [Caller -> Request]
  BY DEF IInv, TypeOK
<1>1. CASE \/ \E k \in Key : ReadCreate(c, k)
           \/ \E r \in Run : \/ ReadAnswer(c, r) \/ ReadReportSpec(c, r)
                             \/ ReadResume(c, r) \/ ReadRewrite(c, r)
                             \/ ReadCancel(c, r)
  <2>1. UNCHANGED <<row, starts, requeues>>
    BY <1>1 DEF ReadCreate, ReadAnswer, ReadReportSpec, ReadResume, ReadRewrite,
                ReadCancel, ReadFor, rowVars
  <2>2. QED BY <2>1, Silent
<1>2. CASE WriteCreate(c)
  <2>1. UNCHANGED <<starts, requeues>> /\ req[c].verb = "create"
    BY <1>2 DEF WriteCreate, Writes
  <2>2. req[c].key \in Key \cup {None}
    BY <1>0 DEF Request, Idle
  <2>3. CASE UNCHANGED row
    BY <2>1, <2>3, Silent
  <2>4. CASE Insert(QueuedRow(req[c].key, None, FALSE))
    <3>1. QueuedRow(req[c].key, None, FALSE) \in Row
      BY <2>2, RowsTyped
    <3>2. QueuedRow(req[c].key, None, FALSE).status = "queued"
      BY DEF QueuedRow, NoRow
    <3>3. QED BY <2>1, <2>4, <3>1, <3>2, InsertCreates
  <2>5. QED BY <1>2, <2>3, <2>4 DEF WriteCreate
<1>3. CASE WriteAnswer(c)
  <2>. DEFINE r == req[c].run
  <2>1. UNCHANGED <<starts, requeues>> /\ req[c].verb = "answer"
    BY <1>3 DEF WriteAnswer, Writes
  <2>2. r \in Run
    BY <1>0, <2>1, ConstantsAssumption DEF Request, Idle, AllVerbs
  <2>3. CASE ~Retirable(r)
    BY <1>3, <2>1, <2>3, Silent DEF WriteAnswer
  <2>4. CASE Retirable(r)
    <3>1. PICK n \in Run : /\ ~Exists(n)
                           /\ row' = [row EXCEPT ![r] = Cancelled(row[r]),
                                                 ![n] = QueuedRow(None, r, FALSE)]
      BY <1>3, <2>4 DEF WriteAnswer
    <3>2. row[r].status = "needs_input" /\ row[n].status = "absent" /\ n # r
      BY <2>4, <3>1 DEF Retirable, Exists
    <3>3. \A s \in Run : row'[s].status = IF s = n THEN "queued"
                                          ELSE IF s = r THEN "cancelled" ELSE row[s].status
      <4>1. row[r] \in Row  BY <1>0, <2>2
      <4>2. Cancelled(row[r]).status = "cancelled"  BY <4>1 DEF Cancelled, Row
      <4>3. QueuedRow(None, r, FALSE).status = "queued"  BY DEF QueuedRow, NoRow
      <4>. HIDE DEF r
      <4>4. QED BY <1>0, <2>2, <3>1, <3>2, <4>2, <4>3
    <3>. HIDE DEF r
    <3>4. St' = [St EXCEPT ![r] = "cancelled", ![n] = "queued"]
      BY <2>2, <3>2, <3>3 DEF St
    <3>5. Exists(n)' /\ \A s \in Run \ {n} : Exists(s)' <=> Exists(s)
      BY <2>2, <3>2, <3>3 DEF Exists
    <3>6. Cr' = [Cr EXCEPT ![n] = 1 + MaxReclaims]
      BY <2>1, <3>1, <3>5, Created
    <3>7. St[r] = "needs_input" /\ St[n] = "absent"
      BY <2>2, <3>2 DEF St
    <3>8. Lifecycle!Answer(r, n)
      BY <3>4, <3>6, <3>7 DEF Lifecycle!Answer, St, Cr
    <3>9. QED BY <2>2, <3>8
  <2>5. QED BY <2>3, <2>4
<1>4. CASE WriteReportSpec(c) \/ WriteResume(c)
  <2>0. req[c].verb \in {"report_spec", "resume"} /\ UNCHANGED starts
    BY <1>4 DEF WriteReportSpec, WriteResume, Writes
  <2>1. req[c].run \in Run
    BY <1>0, <2>0, ConstantsAssumption DEF Request, Idle, AllVerbs
  <2>2. \/ Requeue(req[c].run, "needs_report_spec", TRUE)
        \/ Requeue(req[c].run, "parked", FALSE)
    BY <1>4 DEF WriteReportSpec, WriteResume
  <2>3. QED BY <2>0, <2>1, <2>2, RequeueRefines
<1>5. CASE WriteRewrite(c)
  <2>1. UNCHANGED <<starts, requeues>> /\ Insert(QueuedRow(None, None, TRUE))
    BY <1>5 DEF WriteRewrite, Writes
  <2>2. QueuedRow(None, None, TRUE) \in Row
    BY RowsTyped
  <2>3. QueuedRow(None, None, TRUE).status = "queued"
    BY DEF QueuedRow, NoRow
  <2>4. QED BY <2>1, <2>2, <2>3, InsertCreates
<1>6. CASE WriteCancel(c)
  <2>1. UNCHANGED <<starts, requeues>> /\ req[c].verb = "cancel"
    BY <1>6 DEF WriteCancel, Writes
  <2>2. PICK r \in Run : r = req[c].run
    BY <1>0, <2>1, ConstantsAssumption DEF Request, Idle, AllVerbs
  <2>3. row' = [row EXCEPT ![r] = Cancelled(row[r])]
    BY <1>6, <2>2 DEF WriteCancel
  <2>4. Exists(r)
    BY <2>1, <2>2, ConstantsAssumption DEF IInv, RequestsNameRuns, AllVerbs
  <2>5. row[r] \in Row /\ Cancelled(row[r]) \in Row /\ Cancelled(row[r]).status = "cancelled"
    BY <1>0, WritesTyped DEF Cancelled, Row
  <2>6. St' = [St EXCEPT ![r] = "cancelled"]
    BY <1>0, <2>3, <2>5, StatusPut
  <2>7. Cr' = Cr
    BY <1>0, <2>1, <2>3, <2>4, <2>5, CreditKept DEF Exists
  <2>8. St[r] # "absent"
    BY <2>4 DEF St, Exists
  <2>9. Lifecycle!Cancel(r)
    BY <2>6, <2>7, <2>8 DEF Lifecycle!Cancel, St, Cr
  <2>10. QED BY <2>9
<1>7. QED BY <1>1, <1>2, <1>3, <1>4, <1>5, <1>6 DEF Api

(* Every step of a task is a move of the life cycle or a stutter; a start  *)
(* finds credit because the ledger still counts the live claim.            *)
LEMMA TaskRefines ==
  ASSUME IInv, NEW p \in Proc, NEW t \in inflight[p], TaskStep(p, t)
  PROVE  Lifecycle!Next \/ UNCHANGED <<St, Cr>>
<1>. USE DEF Lifecycle!Next
<1>0. row \in [Run -> Row] /\ t \in Task /\ t.run \in Run
  BY DEF IInv, TypeOK, Task
<1>1. PICK r \in Run : r = t.run
  BY <1>0
<1>2. CASE Consume(p, t)
  <2>1. CASE ~(Owns(p, r) /\ row[r].tok = t.tok)
    BY <1>1, <1>2, <2>1, Silent DEF Consume
  <2>2. CASE Owns(p, r) /\ row[r].tok = t.tok
    <3>1. /\ row' = [row EXCEPT ![r] = Consumed(row[r])]
          /\ starts' = [starts EXCEPT ![r] = starts[r] + 1]
          /\ requeues' = requeues
      BY <1>1, <1>2, <2>2 DEF Consume
    <3>2. row[r] \in Row /\ Consumed(row[r]).status = row[r].status
      BY <1>0 DEF Consumed, Row
    <3>3. \A s \in Run : row'[s].status = row[s].status
      BY <1>0, <3>1, <3>2
    <3>4. St' = St /\ St[r] = "running"
      BY <2>2, <3>3 DEF St, Owns
    <3>5. Live(r)
      BY <1>1, <1>2, <2>2 DEF Live, Consume
    <3>6. /\ starts[r] \in Nat /\ requeues[r] \in Nat /\ row[r].reclaims \in Nat
          /\ MaxReclaims \in Nat /\ starts \in [Run -> Nat]
      BY <3>2, ConstantsAssumption DEF IInv, TypeOK, Row
    <3>7. starts[r] + 1 <= requeues[r] + MaxReclaims + 1
      <4>1. /\ starts[r] + 1 <= requeues[r] + row[r].reclaims + 1
            /\ row[r].reclaims <= MaxReclaims
        BY <2>2, <3>5 DEF IInv, Ledger, Owns
      <4>2. QED BY <3>6, <4>1
    <3>8. Exists(r) /\ \A s \in Run : Exists(s)' <=> Exists(s)
      BY <2>2, <3>3 DEF Exists, Owns
    <3>9. Cr[r] = 1 + requeues[r] + MaxReclaims - starts[r] /\ Cr[r] > 0
      BY <3>6, <3>7, <3>8 DEF Cr
    <3>10. Cr' = [Cr EXCEPT ![r] = Cr[r] - 1]
      <4>1. 1 + requeues[r] + MaxReclaims - (starts[r] + 1)
              = (1 + requeues[r] + MaxReclaims - starts[r]) - 1
        BY <3>6
      <4>2. \A s \in Run : starts'[s] = IF s = r THEN starts[s] + 1 ELSE starts[s]
        BY <3>1, <3>6
      <4>3. \A s \in Run : Cr'[s] = IF s = r THEN Cr[s] - 1 ELSE Cr[s]
        BY <3>1, <3>6, <3>8, <4>1, <4>2 DEF Cr
      <4>4. QED BY <4>3 DEF Cr
    <3>11. Lifecycle!Dispatch(r)
      BY <3>4, <3>9, <3>10 DEF Lifecycle!Dispatch, St, Cr
    <3>12. QED BY <3>11
  <2>3. QED BY <2>1, <2>2
<1>3. CASE Heartbeat(p, t) \/ EngineReturns(p, t)
  <2>1. UNCHANGED <<starts, requeues>>
    BY <1>3 DEF Heartbeat, EngineReturns
  <2>2. \/ row' = [row EXCEPT ![r] = Aged(row[r], FALSE)]
        \/ \E c \in BOOLEAN : row' = [row EXCEPT ![r] = Cached(row[r], c)]
    BY <1>1, <1>3 DEF Heartbeat, EngineReturns
  <2>3. /\ Aged(row[r], FALSE).status = row[r].status
        /\ \A c \in BOOLEAN : Cached(row[r], c).status = row[r].status
    <3>1. row[r] \in Row  BY <1>0
    <3>2. QED BY <3>1 DEF Aged, Cached, Row
  <2>4. \A s \in Run : row'[s].status = row[s].status
    BY <1>0, <2>2, <2>3
  <2>5. QED BY <2>1, <2>4, Silent
<1>4. CASE EngineAborts(p, t) \/ WriteFault(p, t) \/ ConsumeFault(p, t)
  BY <1>4, Silent DEF EngineAborts, WriteFault, ConsumeFault, rowVars
<1>5. CASE TerminalWrite(p, t)
  <2>1. UNCHANGED <<starts, requeues>>
    BY <1>5 DEF TerminalWrite
  <2>2. CASE ~Owns(p, r)
    BY <1>1, <1>5, <2>1, <2>2, Silent DEF TerminalWrite
  <2>3. CASE Owns(p, r)
    <3>1. row' = [row EXCEPT ![r] = Landed(row[r], t.out)] /\ t.out \in Outcomes
      BY <1>0, <1>1, <1>5, <2>3 DEF TerminalWrite, Task
    <3>2. PICK end \in [{r} -> Lifecycle!Settled] : end = [s \in {r} |-> t.out.status]
      BY <3>1, OutcomesTyped DEF Lifecycle!Settled, Lifecycle!Paused, Paused
    <3>3. Landed(row[r], t.out) \in Row /\ Landed(row[r], t.out).status = t.out.status
      <4>1. row[r] \in Row  BY <1>0
      <4>2. Landed(row[r], t.out) \in Row  BY <3>1, <4>1, WritesTyped
      <4>3. Landed(row[r], t.out).status = t.out.status  BY <4>1 DEF Landed, Row
      <4>4. QED BY <4>2, <4>3
    <3>4. St' = [s \in Run |-> IF s \in {r} THEN end[s] ELSE St[s]]
      BY <1>0, <3>1, <3>2, <3>3 DEF St
    <3>5. \A s \in {r} : St[s] = "running"
      BY <2>3 DEF St, Owns
    <3>6. Cr' = Cr
      <4>1. t.out.status # "absent"  BY <3>1, OutcomesTyped DEF Paused
      <4>2. \A s \in Run : Exists(s)' <=> Exists(s)
        BY <1>0, <2>3, <3>1, <3>3, <4>1 DEF Exists, Owns
      <4>3. QED BY <2>1, <4>2, CreditKept
    <3>7. Lifecycle!Settle({r}, end)
      BY <3>4, <3>5, <3>6 DEF Lifecycle!Settle, St, Cr
    <3>8. QED BY <3>7
  <2>4. QED BY <2>2, <2>3
<1>6. QED BY <1>2, <1>3, <1>4, <1>5 DEF TaskStep

(* So is every step of a worker: a claim moves a queued run and is not     *)
(* seen on a reclaimed one, a reap settles every run it fails.             *)
LEMMA WorkerRefines ==
  ASSUME IInv, NEW p \in Proc, Worker(p)
  PROVE  Lifecycle!Next \/ UNCHANGED <<St, Cr>>
<1>. USE DEF Lifecycle!Next
<1>0. row \in [Run -> Row]
  BY DEF IInv, TypeOK
<1>1. CASE Start(p) \/ Acquire(p) \/ ClaimNone(p) \/ ReapFault(p) \/ Crash(p)
  BY <1>1, Silent DEF Start, Acquire, ClaimNone, ReapFault, Crash, rowVars
<1>2. CASE Claim(p)
  <2>1. PICK r \in Run : Claimable(r) /\ row' = [row EXCEPT ![r] = Claimed(row[r], p)]
    BY <1>2 DEF Claim
  <2>2. UNCHANGED <<starts, requeues>>
    BY <1>2 DEF Claim
  <2>3. Claimed(row[r], p) \in Row /\ Claimed(row[r], p).status = "running"
    <3>1. row[r] \in Row  BY <1>0
    <3>2. Claimed(row[r], p) \in Row  BY <3>1, WritesTyped
    <3>3. Claimed(row[r], p).status = "running"
      <4>. DEFINE New(n, m) == [row[r] EXCEPT !.status = "running", !.worker = p, !.tok = n,
                                             !.stale = FALSE, !.reclaims = m]
      <4>1. \A n, m : New(n, m).status = "running"  BY <3>1 DEF Row
      <4>2. Claimed(row[r], p) =
              New(row[r].tok + 1, IF row[r].status = "running"
                                  THEN row[r].reclaims + 1 ELSE row[r].reclaims)
        BY DEF Claimed
      <4>. HIDE DEF New
      <4>3. QED BY <4>1, <4>2
    <3>4. QED BY <3>2, <3>3
  <2>4. CASE row[r].status = "queued"
    <3>1. St' = [St EXCEPT ![r] = "running"]
      BY <1>0, <2>1, <2>3, StatusPut
    <3>2. Cr' = Cr
      BY <1>0, <2>1, <2>2, <2>3, <2>4, CreditKept DEF Exists
    <3>3. St[r] = "queued"
      BY <2>4 DEF St
    <3>4. Lifecycle!Claim(r)
      BY <3>1, <3>2, <3>3 DEF Lifecycle!Claim, St, Cr
    <3>5. QED BY <3>4
  <2>5. CASE row[r].status = "running"
    <3>1. \A s \in Run : row'[s].status = row[s].status
      BY <1>0, <2>1, <2>3, <2>5
    <3>2. QED BY <2>2, <3>1, Silent
  <2>6. QED BY <2>1, <2>4, <2>5 DEF Claimable
<1>3. CASE Reap(p)
  <2>1. /\ row' = [r \in Run |-> IF Reapable(r) THEN Reaped(row[r]) ELSE row[r]]
        /\ UNCHANGED <<starts, requeues>>
    BY <1>3 DEF Reap
  <2>2. PICK S \in SUBSET Run : S = {r \in Run : Reapable(r)}
    OBVIOUS
  <2>3. PICK end \in [S -> Lifecycle!Settled] : end = [r \in S |-> "failed"]
    BY DEF Lifecycle!Settled
  <2>4. \A r \in Run : Reaped(row[r]).status = "failed"
    BY <1>0 DEF Reaped, Row
  <2>5. St' = [r \in Run |-> IF r \in S THEN end[r] ELSE St[r]]
    BY <2>1, <2>2, <2>3, <2>4 DEF St
  <2>6. \A r \in S : St[r] = "running"
    BY <2>2 DEF St, Reapable
  <2>7. Cr' = Cr
    BY <2>1, <2>4, CreditKept DEF Exists, Reapable
  <2>8. Lifecycle!Settle(S, end)
    BY <2>5, <2>6, <2>7 DEF Lifecycle!Settle, St, Cr
  <2>9. QED BY <2>8
<1>4. CASE \E t \in inflight[p] : TaskStep(p, t)
  BY <1>4, TaskRefines
<1>5. QED BY <1>1, <1>2, <1>3, <1>4 DEF Worker

(* The run queue implements the life cycle: whatever workers, callers,     *)
(* crashes and faults do, a run makes only the moves of RunLifecycle, and  *)
(* an engine is started for it only on credit.                             *)
THEOREM ImplementsLifecycle == Spec => LifecycleSpec
<1>1. Init => Lifecycle!Init
  BY DEF Init, Lifecycle!Init, Exists, NoRow
<1>2. IInv /\ [Next]_vars => [Lifecycle!Next]_(Lifecycle!vars)
  <2>1. SUFFICES ASSUME IInv, [Next]_vars
                 PROVE  Lifecycle!Next \/ UNCHANGED <<St, Cr>>
    BY DEF Lifecycle!vars, St, Cr
  <2>2. CASE UNCHANGED vars
    BY <2>2, Silent DEF vars
  <2>3. CASE \E r \in Run : GoStale(r)
    <3>1. PICK r \in Run : row' = [row EXCEPT ![r] = Aged(row[r], TRUE)]
      BY <2>3 DEF GoStale
    <3>2. UNCHANGED <<starts, requeues>>
      BY <2>3 DEF GoStale
    <3>3. row \in [Run -> Row]
      BY <2>1 DEF IInv, TypeOK
    <3>4. row[r] \in Row /\ Aged(row[r], TRUE).status = row[r].status
      BY <3>3 DEF Aged, Row
    <3>5. \A s \in Run : row'[s].status = row[s].status
      BY <3>1, <3>3, <3>4
    <3>6. QED BY <3>2, <3>5, Silent
  <2>4. QED BY <2>1, <2>2, <2>3, ApiRefines, WorkerRefines DEF Next
<1>3. QED
  BY Invariance, <1>1, <1>2, PTL DEF Spec, LifecycleSpec, Lifecycle!Spec
=============================================================================
