------------------------ MODULE ResearchMirrorProofs ------------------------
(***************************************************************************)
(* Theorems about ResearchMirror, for every number of rows, drivers,       *)
(* sweeps and requests, and every bound on resumes and mishaps.            *)
(***************************************************************************)
EXTENDS ResearchMirror, TLAPS

-----------------------------------------------------------------------------
(* Typing.                                                                 *)

(* The statuses, the first row, and whether an operator has an email.      *)
LEMMA Known ==
  /\ "none" \in Status /\ "queued" \in Status /\ "running" \in Status
  /\ "completed" \in Status /\ "failed" \in Status
  /\ "cancelled" \in Status /\ "parked" \in Status
  /\ 1 \in Row
  /\ "decomposed" \in Startable
  /\ \A a \in Emails : a \in BOOLEAN
BY MirrorAssumption DEF Status, InFlight, Terminal, Row, Startable

(* What every writer leaves is a row.                                      *)
LEMMA RowMoves ==
  ASSUME NEW rw \in RowType, NEW x \in Status, NEW b \in BOOLEAN
  PROVE  /\ [rw EXCEPT !.status = x] \in RowType
         /\ [rw EXCEPT !.beat = b] \in RowType
         /\ [rw EXCEPT !.lease = b] \in RowType
         /\ Requested(rw, b) \in RowType
         /\ Mirrored(rw, x) \in RowType
         /\ [Finalised(rw, x) EXCEPT !.lease = b] \in RowType
BY Known DEF RowType, Requested, Mirrored, Finalised

(* A driver's program points ...                                           *)
LEMMA DriverMoves ==
  ASSUME NEW dr \in DriverState, NEW r \in Row, NEW x \in Status,
         NEW p \in {"start", "poll", "tick", "write", "mail", "error"}
  PROVE  /\ Off \in DriverState
         /\ [Off EXCEPT !.pc = "start", !.row = r] \in DriverState
         /\ [dr EXCEPT !.pc = p] \in DriverState
         /\ [dr EXCEPT !.pc = p, !.seen = x] \in DriverState
BY Known DEF DriverState, Off

(* ... a sweep's ...                                                       *)
LEMMA SweepMoves ==
  ASSUME NEW sw \in SweepState, NEW r \in Row, NEW x \in Status,
         NEW p \in {"ask", "mirror", "clear", "swap", "mail"}
  PROVE  /\ NoJob \in SweepState
         /\ [NoJob EXCEPT !.pc = "ask", !.row = r, !.was = x] \in SweepState
         /\ [NoJob EXCEPT !.pc = "clear", !.row = r] \in SweepState
         /\ [sw EXCEPT !.pc = p] \in SweepState
         /\ [sw EXCEPT !.seen = x, !.pc = p] \in SweepState
BY Known DEF SweepState, NoJob

(* ... and a request's.                                                    *)
LEMMA RequestMoves ==
  ASSUME NEW rq \in RequestState, NEW r \in Row, NEW x \in Status,
         NEW y \in Startable
  PROVE  /\ NoReq \in RequestState
         /\ [NoReq EXCEPT !.pc = "trigger", !.prior = y] \in RequestState
         /\ [NoReq EXCEPT !.pc = "schedule", !.row = r] \in RequestState
         /\ [NoReq EXCEPT !.pc = "resume", !.row = r] \in RequestState
         /\ [NoReq EXCEPT !.pc = "cancel", !.row = r, !.prior = x] \in RequestState
         /\ [rq EXCEPT !.pc = "requeue"] \in RequestState
         /\ [rq EXCEPT !.pc = "stamp", !.seen = x] \in RequestState
BY Known DEF RequestState, NoReq

(* The types of the fields the actions read.                               *)
LEMMA Fields ==
  ASSUME TypeOK
  PROVE  /\ \A r \in Row : /\ row[r] \in RowType /\ row[r].status \in Status
                           /\ row[r].lease \in BOOLEAN
         /\ \A r \in Row : eng[r] \in Status
         /\ \A d \in Driver : /\ drv[d] \in DriverState /\ drv[d].row \in Row
                              /\ drv[d].seen \in Status
         /\ \A s \in Sweeper : /\ swp[s] \in SweepState /\ swp[s].row \in Row
                               /\ swp[s].seen \in Status /\ swp[s].was \in Status
         /\ \A c \in Caller : /\ req[c] \in RequestState /\ req[c].row \in Row
                              /\ req[c].seen \in Status
<1>1. \A r \in Row : /\ row[r] \in RowType /\ row[r].status \in Status
                     /\ row[r].lease \in BOOLEAN
  BY DEF TypeOK, RowType
<1>2. \A r \in Row : eng[r] \in Status
  BY DEF TypeOK
<1>3. \A d \in Driver : /\ drv[d] \in DriverState /\ drv[d].row \in Row
                        /\ drv[d].seen \in Status
  BY DEF TypeOK, DriverState
<1>4. \A s \in Sweeper : /\ swp[s] \in SweepState /\ swp[s].row \in Row
                         /\ swp[s].seen \in Status /\ swp[s].was \in Status
  BY DEF TypeOK, SweepState
<1>5. \A c \in Caller : /\ req[c] \in RequestState /\ req[c].row \in Row
                        /\ req[c].seen \in Status
  BY DEF TypeOK, RequestState
<1>6. QED BY <1>1, <1>2, <1>3, <1>4, <1>5

(* Every step keeps the types.                                             *)
LEMMA TypeStep == TypeOK /\ [Next]_vars => TypeOK'
<1>. SUFFICES ASSUME TypeOK, [Next]_vars PROVE TypeOK'
  OBVIOUS
<1>1. ASSUME NEW c \in Caller, TriggerReads(c) PROVE TypeOK'
  <2>1. req' \in [Caller -> RequestState]
    <3>1. req' = [req EXCEPT ![c] = [NoReq EXCEPT !.pc = "trigger", !.prior = intake]]
      BY <1>1 DEF TriggerReads
    <3>2. [NoReq EXCEPT !.pc = "trigger", !.prior = intake] \in RequestState
      BY <1>1, Fields, Known, RequestMoves DEF TypeOK
    <3>3. QED BY <3>1, <3>2 DEF TypeOK
  <2>2. UNCHANGED <<row, intake, eng, drv, swp, mishaps, resumes, finals, told>>
    BY <1>1 DEF TriggerReads, actors, history
  <2>3. QED BY <2>1, <2>2 DEF TypeOK
<1>2. ASSUME NEW c \in Caller, TriggerWrites(c) PROVE TypeOK'
  <2>1. row' \in [Row -> RowType]
    <3>1. \/ row' = row
          \/ \E r \in Row, a \in Emails : row' = [row EXCEPT ![r] = Requested(row[r], a)]
      BY <1>2 DEF TriggerWrites
    <3>2. ASSUME NEW r \in Row, NEW a \in Emails
          PROVE  Requested(row[r], a) \in RowType
      BY Fields, Known, RowMoves, MirrorAssumption
    <3>3. QED BY <3>1, <3>2 DEF TypeOK
  <2>2. intake' \in Startable
    BY <1>2 DEF TriggerWrites, TypeOK, Startable
  <2>3. req' \in [Caller -> RequestState]
    <3>1. \/ req' = [req EXCEPT ![c] = NoReq]
          \/ \E r \in Row : req' = [req EXCEPT ![c] = [NoReq EXCEPT !.pc = "schedule", !.row = r]]
      BY <1>2 DEF TriggerWrites
    <3>2. NoReq \in RequestState
      BY Fields, Known, RequestMoves
    <3>3. ASSUME NEW r \in Row
          PROVE  [NoReq EXCEPT !.pc = "schedule", !.row = r] \in RequestState
      BY Fields, Known, RequestMoves
    <3>4. QED BY <3>1, <3>2, <3>3 DEF TypeOK
  <2>4. UNCHANGED <<eng, drv, swp, mishaps, resumes, finals, told>>
    BY <1>2 DEF TriggerWrites, actors, history
  <2>5. QED BY <2>1, <2>2, <2>3, <2>4 DEF TypeOK
<1>3. ASSUME NEW c \in Caller, Schedule(c) PROVE TypeOK'
  <2>1. drv' \in [Driver -> DriverState]
    <3>1. \E d \in Driver : drv' = [drv EXCEPT ![d] = [Off EXCEPT !.pc = "start", !.row = req[c].row]]
      BY <1>3 DEF Schedule
    <3>2. ASSUME NEW d \in Driver
          PROVE  [Off EXCEPT !.pc = "start", !.row = req[c].row] \in DriverState
      BY Fields, Known, DriverMoves
    <3>3. QED BY <3>1, <3>2 DEF TypeOK
  <2>2. req' \in [Caller -> RequestState]
    <3>1. req' = [req EXCEPT ![c] = NoReq]
      BY <1>3 DEF Schedule
    <3>2. NoReq \in RequestState
      BY Fields, Known, RequestMoves
    <3>3. QED BY <3>1, <3>2 DEF TypeOK
  <2>3. UNCHANGED <<row, intake, eng, swp, mishaps, resumes, finals, told>>
    BY <1>3 DEF Schedule, actors, history
  <2>4. QED BY <2>1, <2>2, <2>3 DEF TypeOK
<1>4. ASSUME NEW c \in Caller, ResumeReads(c) PROVE TypeOK'
  <2>1. req' \in [Caller -> RequestState]
    <3>1. \E r \in Row : req' = [req EXCEPT ![c] = [NoReq EXCEPT !.pc = "resume", !.row = r]]
      BY <1>4 DEF ResumeReads
    <3>2. ASSUME NEW r \in Row
          PROVE  [NoReq EXCEPT !.pc = "resume", !.row = r] \in RequestState
      BY Fields, Known, RequestMoves
    <3>3. QED BY <3>1, <3>2 DEF TypeOK
  <2>2. UNCHANGED <<row, intake, eng, drv, swp, mishaps, resumes, finals, told>>
    BY <1>4 DEF ResumeReads, actors, history
  <2>3. QED BY <2>1, <2>2 DEF TypeOK
<1>5. ASSUME NEW c \in Caller, ResumeCalls(c) PROVE TypeOK'
  <2>1. eng' \in [Row -> Status]
    BY <1>5, Fields, Known DEF ResumeCalls, TypeOK
  <2>2. resumes' \in [Row -> Nat]
    BY <1>5, Fields, Known DEF ResumeCalls, TypeOK
  <2>3. req' \in [Caller -> RequestState]
    <3>1. \/ req' = [req EXCEPT ![c] = NoReq]
          \/ req' = [req EXCEPT ![c] = [req[c] EXCEPT !.pc = "requeue"]]
      BY <1>5 DEF ResumeCalls
    <3>2. NoReq \in RequestState
      BY Fields, Known, RequestMoves
    <3>3. [req[c] EXCEPT !.pc = "requeue"] \in RequestState
      BY Fields, Known, RequestMoves
    <3>4. QED BY <3>1, <3>2, <3>3 DEF TypeOK
  <2>4. UNCHANGED <<row, intake, drv, swp, mishaps, finals, told>>
    BY <1>5 DEF ResumeCalls, actors, history
  <2>5. QED BY <2>1, <2>2, <2>3, <2>4 DEF TypeOK
<1>6. ASSUME NEW c \in Caller, ResumePatches(c) PROVE TypeOK'
  <2>1. row' \in [Row -> RowType]
    <3>1. \/ row' = row
          \/ \E a \in Emails : row' = [row EXCEPT ![req[c].row] = Requested(row[req[c].row], a)]
      BY <1>6 DEF ResumePatches
    <3>2. ASSUME NEW a \in Emails
          PROVE  Requested(row[req[c].row], a) \in RowType
      BY Fields, Known, RowMoves, MirrorAssumption
    <3>3. QED BY <3>1, <3>2 DEF TypeOK
  <2>2. req' \in [Caller -> RequestState]
    <3>1. \/ req' = [req EXCEPT ![c] = NoReq]
          \/ req' = [req EXCEPT ![c] = [NoReq EXCEPT !.pc = "schedule", !.row = req[c].row]]
      BY <1>6 DEF ResumePatches
    <3>2. NoReq \in RequestState
      BY Fields, Known, RequestMoves
    <3>3. [NoReq EXCEPT !.pc = "schedule", !.row = req[c].row] \in RequestState
      BY Fields, Known, RequestMoves
    <3>4. QED BY <3>1, <3>2, <3>3 DEF TypeOK
  <2>3. UNCHANGED <<intake, eng, drv, swp, mishaps, resumes, finals, told>>
    BY <1>6 DEF ResumePatches, actors, history
  <2>4. QED BY <2>1, <2>2, <2>3 DEF TypeOK
<1>7. ASSUME NEW c \in Caller, CancelReads(c) PROVE TypeOK'
  <2>1. req' \in [Caller -> RequestState]
    <3>1. \E r \in Row : req' = [req EXCEPT ![c] = [NoReq EXCEPT !.pc = "cancel", !.row = r, !.prior = row[r].status]]
      BY <1>7 DEF CancelReads
    <3>2. ASSUME NEW r \in Row
          PROVE  [NoReq EXCEPT !.pc = "cancel", !.row = r, !.prior = row[r].status] \in RequestState
      BY Fields, Known, RequestMoves
    <3>3. QED BY <3>1, <3>2 DEF TypeOK
  <2>2. UNCHANGED <<row, intake, eng, drv, swp, mishaps, resumes, finals, told>>
    BY <1>7 DEF CancelReads, actors, history
  <2>3. QED BY <2>1, <2>2 DEF TypeOK
<1>8. ASSUME NEW c \in Caller, CancelCalls(c) PROVE TypeOK'
  <2>1. eng' \in [Row -> Status]
    BY <1>8, Fields, Known DEF CancelCalls, TypeOK
  <2>2. req' \in [Caller -> RequestState]
    <3>. DEFINE now == IF eng[req[c].row] \in InFlight \cup {"parked"}
                      THEN "cancelled" ELSE eng[req[c].row]
    <3>0. now \in Status
      BY Fields, Known
    <3>1. req' = [req EXCEPT ![c] = [req[c] EXCEPT !.pc = "stamp", !.seen = now]]
      BY <1>8 DEF CancelCalls
    <3>2. ASSUME NEW x \in Status
          PROVE  [req[c] EXCEPT !.pc = "stamp", !.seen = x] \in RequestState
      BY Fields, Known, RequestMoves
    <3>3. QED BY <3>0, <3>1, <3>2 DEF TypeOK
  <2>3. UNCHANGED <<row, intake, drv, swp, mishaps, resumes, finals, told>>
    BY <1>8 DEF CancelCalls, actors, history
  <2>4. QED BY <2>1, <2>2, <2>3 DEF TypeOK
<1>9. ASSUME NEW c \in Caller, CancelPatches(c) PROVE TypeOK'
  <2>1. row' \in [Row -> RowType]
    <3>1. \E x \in Status : row' = [row EXCEPT ![req[c].row] = [row[req[c].row] EXCEPT !.status = x]]
      BY <1>9, Fields, Known DEF CancelPatches
    <3>2. ASSUME NEW x \in Status
          PROVE  [row[req[c].row] EXCEPT !.status = x] \in RowType
      BY Fields, Known, RowMoves
    <3>3. QED BY <3>1, <3>2 DEF TypeOK
  <2>2. req' \in [Caller -> RequestState]
    <3>1. req' = [req EXCEPT ![c] = NoReq]
      BY <1>9, Fields, Known DEF CancelPatches
    <3>2. NoReq \in RequestState
      BY Fields, Known, RequestMoves
    <3>3. QED BY <3>1, <3>2 DEF TypeOK
  <2>3. UNCHANGED <<intake, eng, drv, swp, mishaps, resumes, finals, told>>
    BY <1>9 DEF CancelPatches, actors, history
  <2>4. QED BY <2>1, <2>2, <2>3 DEF TypeOK
<1>10. ASSUME NEW c \in Caller, RequestDies(c) PROVE TypeOK'
  <2>1. req' \in [Caller -> RequestState]
    <3>1. req' = [req EXCEPT ![c] = NoReq]
      BY <1>10 DEF RequestDies
    <3>2. NoReq \in RequestState
      BY Fields, Known, RequestMoves
    <3>3. QED BY <3>1, <3>2 DEF TypeOK
  <2>2. mishaps' \in 0 .. MaxMishaps
    BY <1>10, MirrorAssumption DEF RequestDies, TypeOK, Mishap
  <2>3. UNCHANGED <<row, intake, eng, drv, swp, resumes, finals, told>>
    BY <1>10 DEF RequestDies, actors, history
  <2>4. QED BY <2>1, <2>2, <2>3 DEF TypeOK
<1>11. ASSUME NEW d \in Driver, DriverOpens(d) PROVE TypeOK'
  <2>1. eng' \in [Row -> Status]
    BY <1>11, Fields, Known DEF DriverOpens, TypeOK
  <2>2. drv' \in [Driver -> DriverState]
    <3>1. \/ drv' = [drv EXCEPT ![d] = [drv[d] EXCEPT !.pc = "poll"]]
          \/ drv' = [drv EXCEPT ![d] = [drv[d] EXCEPT !.pc = "error"]]
      BY <1>11 DEF DriverOpens, Goes
    <3>2. [drv[d] EXCEPT !.pc = "poll"] \in DriverState
      BY Fields, Known, DriverMoves
    <3>3. [drv[d] EXCEPT !.pc = "error"] \in DriverState
      BY Fields, Known, DriverMoves
    <3>4. QED BY <3>1, <3>2, <3>3 DEF TypeOK
  <2>3. UNCHANGED <<row, intake, swp, req, mishaps, resumes, finals, told>>
    BY <1>11 DEF DriverOpens, actors, history
  <2>4. QED BY <2>1, <2>2, <2>3 DEF TypeOK
<1>12. ASSUME NEW d \in Driver, DriverReads(d) PROVE TypeOK'
  <2>1. drv' \in [Driver -> DriverState]
    <3>1. drv' = [drv EXCEPT ![d] = [drv[d] EXCEPT !.pc = "tick", !.seen = eng[drv[d].row]]]
      BY <1>12 DEF DriverReads
    <3>2. [drv[d] EXCEPT !.pc = "tick", !.seen = eng[drv[d].row]] \in DriverState
      BY Fields, Known, DriverMoves
    <3>3. QED BY <3>1, <3>2 DEF TypeOK
  <2>2. UNCHANGED <<row, intake, eng, swp, req, mishaps, resumes, finals, told>>
    BY <1>12 DEF DriverReads, actors, history
  <2>3. QED BY <2>1, <2>2 DEF TypeOK
<1>13. ASSUME NEW d \in Driver, DriverGivesUp(d) PROVE TypeOK'
  <2>1. drv' \in [Driver -> DriverState]
    <3>1. drv' = [drv EXCEPT ![d] = [drv[d] EXCEPT !.pc = "write", !.seen = "failed"]]
      BY <1>13 DEF DriverGivesUp
    <3>2. [drv[d] EXCEPT !.pc = "write", !.seen = "failed"] \in DriverState
      BY Fields, Known, DriverMoves
    <3>3. QED BY <3>1, <3>2 DEF TypeOK
  <2>2. mishaps' \in 0 .. MaxMishaps
    BY <1>13, MirrorAssumption DEF DriverGivesUp, TypeOK, Mishap
  <2>3. UNCHANGED <<row, intake, eng, swp, req, resumes, finals, told>>
    BY <1>13 DEF DriverGivesUp, actors, history
  <2>4. QED BY <2>1, <2>2, <2>3 DEF TypeOK
<1>14. ASSUME NEW d \in Driver, DriverTicks(d) PROVE TypeOK'
  <2>1. row' \in [Row -> RowType]
    <3>1. \/ row' = row
          \/ row' = [row EXCEPT ![drv[d].row] = Mirrored(row[drv[d].row], drv[d].seen)]
      BY <1>14 DEF DriverTicks
    <3>2. Mirrored(row[drv[d].row], drv[d].seen) \in RowType
      BY Fields, Known, RowMoves
    <3>3. QED BY <3>1, <3>2 DEF TypeOK
  <2>2. drv' \in [Driver -> DriverState]
    <3>1. \/ drv' = [drv EXCEPT ![d] = [drv[d] EXCEPT !.pc = "write"]]
          \/ drv' = [drv EXCEPT ![d] = [drv[d] EXCEPT !.pc = "poll", !.seen = "none"]]
          \/ drv' = [drv EXCEPT ![d] = [drv[d] EXCEPT !.pc = "error"]]
      BY <1>14 DEF DriverTicks, Goes
    <3>2. [drv[d] EXCEPT !.pc = "write"] \in DriverState
      BY Fields, Known, DriverMoves
    <3>3. [drv[d] EXCEPT !.pc = "poll", !.seen = "none"] \in DriverState
      BY Fields, Known, DriverMoves
    <3>4. [drv[d] EXCEPT !.pc = "error"] \in DriverState
      BY Fields, Known, DriverMoves
    <3>5. QED BY <3>1, <3>2, <3>3, <3>4 DEF TypeOK
  <2>3. UNCHANGED <<intake, eng, swp, req, mishaps, resumes, finals, told>>
    BY <1>14 DEF DriverTicks, actors, history
  <2>4. QED BY <2>1, <2>2, <2>3 DEF TypeOK
<1>15. ASSUME NEW d \in Driver, DriverWrites(d) PROVE TypeOK'
  <2>1. row' \in [Row -> RowType]
    <3>1. row' = [row EXCEPT ![drv[d].row] = [Finalised(row[drv[d].row], drv[d].seen) EXCEPT !.lease = row[drv[d].row].lease]]
      BY <1>15 DEF DriverWrites, Finalise
    <3>2. [Finalised(row[drv[d].row], drv[d].seen) EXCEPT !.lease = row[drv[d].row].lease] \in RowType
      BY Fields, Known, RowMoves
    <3>3. QED BY <3>1, <3>2 DEF TypeOK
  <2>2. finals' \in [Row -> Nat]
    BY <1>15, Fields, Known DEF DriverWrites, TypeOK, Finalise
  <2>3. drv' \in [Driver -> DriverState]
    <3>1. drv' = [drv EXCEPT ![d] = [drv[d] EXCEPT !.pc = "mail"]]
      BY <1>15 DEF DriverWrites, Goes
    <3>2. [drv[d] EXCEPT !.pc = "mail"] \in DriverState
      BY Fields, Known, DriverMoves
    <3>3. QED BY <3>1, <3>2 DEF TypeOK
  <2>4. UNCHANGED <<intake, eng, swp, req, mishaps, resumes, told>>
    BY <1>15 DEF DriverWrites, actors, history
  <2>5. QED BY <2>1, <2>2, <2>3, <2>4 DEF TypeOK
<1>16. ASSUME NEW d \in Driver, DriverMails(d) PROVE TypeOK'
  <2>1. told' \in [Row -> BOOLEAN]
    BY <1>16, Fields, Known DEF DriverMails, TypeOK, Mail, Mishap
  <2>2. mishaps' \in 0 .. MaxMishaps
    BY <1>16, MirrorAssumption DEF DriverMails, TypeOK, Mail, Mishap
  <2>3. drv' \in [Driver -> DriverState]
    <3>1. drv' = [drv EXCEPT ![d] = Off]
      BY <1>16 DEF DriverMails, Leaves
    <3>2. Off \in DriverState
      BY Fields, Known, DriverMoves
    <3>3. QED BY <3>1, <3>2 DEF TypeOK
  <2>4. UNCHANGED <<row, intake, eng, swp, req, resumes, finals>>
    BY <1>16 DEF DriverMails, actors, history
  <2>5. QED BY <2>1, <2>2, <2>3, <2>4 DEF TypeOK
<1>17. ASSUME NEW d \in Driver, DriverFaults(d) PROVE TypeOK'
  <2>1. drv' \in [Driver -> DriverState]
    <3>1. drv' = [drv EXCEPT ![d] = [drv[d] EXCEPT !.pc = "error"]]
      BY <1>17 DEF DriverFaults, Goes
    <3>2. [drv[d] EXCEPT !.pc = "error"] \in DriverState
      BY Fields, Known, DriverMoves
    <3>3. QED BY <3>1, <3>2 DEF TypeOK
  <2>2. mishaps' \in 0 .. MaxMishaps
    BY <1>17, MirrorAssumption DEF DriverFaults, TypeOK, Mishap
  <2>3. UNCHANGED <<row, intake, eng, swp, req, resumes, finals, told>>
    BY <1>17 DEF DriverFaults, actors, history
  <2>4. QED BY <2>1, <2>2, <2>3 DEF TypeOK
<1>18. ASSUME NEW d \in Driver, DriverRelabels(d) PROVE TypeOK'
  <2>1. row' \in [Row -> RowType]
    <3>1. \/ row' = row
          \/ row' = [row EXCEPT ![drv[d].row] = [Finalised(row[drv[d].row], "failed") EXCEPT !.lease = row[drv[d].row].lease]]
      BY <1>18 DEF DriverRelabels, Finalise
    <3>2. [Finalised(row[drv[d].row], "failed") EXCEPT !.lease = row[drv[d].row].lease] \in RowType
      BY Fields, Known, RowMoves
    <3>3. QED BY <3>1, <3>2 DEF TypeOK
  <2>2. finals' \in [Row -> Nat]
    BY <1>18, Fields, Known DEF DriverRelabels, TypeOK, Mishap, Finalise
  <2>3. mishaps' \in 0 .. MaxMishaps
    BY <1>18, MirrorAssumption DEF DriverRelabels, TypeOK, Mishap, Finalise
  <2>4. drv' \in [Driver -> DriverState]
    <3>1. drv' = [drv EXCEPT ![d] = Off]
      BY <1>18 DEF DriverRelabels, Leaves
    <3>2. Off \in DriverState
      BY Fields, Known, DriverMoves
    <3>3. QED BY <3>1, <3>2 DEF TypeOK
  <2>5. UNCHANGED <<intake, eng, swp, req, resumes, told>>
    BY <1>18 DEF DriverRelabels, actors, history
  <2>6. QED BY <2>1, <2>2, <2>3, <2>4, <2>5 DEF TypeOK
<1>19. ASSUME NEW d \in Driver, DriverDies(d) PROVE TypeOK'
  <2>1. drv' \in [Driver -> DriverState]
    <3>1. drv' = [drv EXCEPT ![d] = Off]
      BY <1>19 DEF DriverDies, Leaves
    <3>2. Off \in DriverState
      BY Fields, Known, DriverMoves
    <3>3. QED BY <3>1, <3>2 DEF TypeOK
  <2>2. mishaps' \in 0 .. MaxMishaps
    BY <1>19, MirrorAssumption DEF DriverDies, TypeOK, Mishap
  <2>3. UNCHANGED <<row, intake, eng, swp, req, resumes, finals, told>>
    BY <1>19 DEF DriverDies, actors, history
  <2>4. QED BY <2>1, <2>2, <2>3 DEF TypeOK
<1>20. ASSUME NEW s \in Sweeper, SweepClaims(s) PROVE TypeOK'
  <2>1. row' \in [Row -> RowType]
    <3>1. \E r \in Row : row' = [row EXCEPT ![r] = [row[r] EXCEPT !.lease = TRUE]]
      BY <1>20 DEF SweepClaims
    <3>2. ASSUME NEW r \in Row
          PROVE  [row[r] EXCEPT !.lease = TRUE] \in RowType
      BY Fields, Known, RowMoves
    <3>3. QED BY <3>1, <3>2 DEF TypeOK
  <2>2. swp' \in [Sweeper -> SweepState]
    <3>1. \/ swp' = swp
          \/ \E r \in Row : swp' = [swp EXCEPT ![s] = [NoJob EXCEPT !.pc = "ask", !.row = r, !.was = row[r].status]]
      BY <1>20 DEF SweepClaims
    <3>2. ASSUME NEW r \in Row
          PROVE  [NoJob EXCEPT !.pc = "ask", !.row = r, !.was = row[r].status] \in SweepState
      BY Fields, Known, SweepMoves
    <3>3. QED BY <3>1, <3>2 DEF TypeOK
  <2>3. UNCHANGED <<intake, eng, drv, req, mishaps, resumes, finals, told>>
    BY <1>20 DEF SweepClaims, actors, history
  <2>4. QED BY <2>1, <2>2, <2>3 DEF TypeOK
<1>21. ASSUME NEW s \in Sweeper, SweepAsks(s) PROVE TypeOK'
  <2>1. swp' \in [Sweeper -> SweepState]
    <3>1. \E p \in {"swap", "mirror"} : swp' = [swp EXCEPT ![s] = [swp[s] EXCEPT !.seen = eng[swp[s].row], !.pc = p]]
      BY <1>21 DEF SweepAsks
    <3>2. ASSUME NEW p \in {"swap", "mirror"}
          PROVE  [swp[s] EXCEPT !.seen = eng[swp[s].row], !.pc = p] \in SweepState
      BY Fields, Known, SweepMoves
    <3>3. QED BY <3>1, <3>2 DEF TypeOK
  <2>2. UNCHANGED <<row, intake, eng, drv, req, mishaps, resumes, finals, told>>
    BY <1>21 DEF SweepAsks, actors, history
  <2>3. QED BY <2>1, <2>2 DEF TypeOK
<1>22. ASSUME NEW s \in Sweeper, SweepMirrors(s) PROVE TypeOK'
  <2>1. row' \in [Row -> RowType]
    <3>1. \/ row' = row
          \/ row' = [row EXCEPT ![swp[s].row] = Mirrored(row[swp[s].row], swp[s].seen)]
      BY <1>22 DEF SweepMirrors
    <3>2. Mirrored(row[swp[s].row], swp[s].seen) \in RowType
      BY Fields, Known, RowMoves
    <3>3. QED BY <3>1, <3>2 DEF TypeOK
  <2>2. swp' \in [Sweeper -> SweepState]
    <3>1. \/ swp' = [swp EXCEPT ![s] = NoJob]
          \/ swp' = [swp EXCEPT ![s] = [NoJob EXCEPT !.pc = "clear", !.row = swp[s].row]]
      BY <1>22 DEF SweepMirrors
    <3>2. NoJob \in SweepState
      BY Fields, Known, SweepMoves
    <3>3. [NoJob EXCEPT !.pc = "clear", !.row = swp[s].row] \in SweepState
      BY Fields, Known, SweepMoves
    <3>4. QED BY <3>1, <3>2, <3>3 DEF TypeOK
  <2>3. UNCHANGED <<intake, eng, drv, req, mishaps, resumes, finals, told>>
    BY <1>22 DEF SweepMirrors, actors, history
  <2>4. QED BY <2>1, <2>2, <2>3 DEF TypeOK
<1>23. ASSUME NEW s \in Sweeper, SweepClears(s) PROVE TypeOK'
  <2>1. row' \in [Row -> RowType]
    <3>1. \/ row' = row
          \/ row' = [row EXCEPT ![swp[s].row] = [row[swp[s].row] EXCEPT !.lease = FALSE]]
      BY <1>23 DEF SweepClears
    <3>2. [row[swp[s].row] EXCEPT !.lease = FALSE] \in RowType
      BY Fields, Known, RowMoves
    <3>3. QED BY <3>1, <3>2 DEF TypeOK
  <2>2. mishaps' \in 0 .. MaxMishaps
    BY <1>23, MirrorAssumption DEF SweepClears, TypeOK, Mishap
  <2>3. swp' \in [Sweeper -> SweepState]
    <3>1. swp' = [swp EXCEPT ![s] = NoJob]
      BY <1>23 DEF SweepClears
    <3>2. NoJob \in SweepState
      BY Fields, Known, SweepMoves
    <3>3. QED BY <3>1, <3>2 DEF TypeOK
  <2>4. UNCHANGED <<intake, eng, drv, req, resumes, finals, told>>
    BY <1>23 DEF SweepClears, actors, history
  <2>5. QED BY <2>1, <2>2, <2>3, <2>4 DEF TypeOK
<1>24. ASSUME NEW s \in Sweeper, SweepSwaps(s) PROVE TypeOK'
  <2>1. row' \in [Row -> RowType]
    <3>1. \/ row' = row
          \/ row' = [row EXCEPT ![swp[s].row] = [Finalised(row[swp[s].row], swp[s].seen) EXCEPT !.lease = FALSE]]
      BY <1>24 DEF SweepSwaps, Finalise
    <3>2. [Finalised(row[swp[s].row], swp[s].seen) EXCEPT !.lease = FALSE] \in RowType
      BY Fields, Known, RowMoves
    <3>3. QED BY <3>1, <3>2 DEF TypeOK
  <2>2. finals' \in [Row -> Nat]
    BY <1>24, Fields, Known DEF SweepSwaps, TypeOK, Finalise
  <2>3. swp' \in [Sweeper -> SweepState]
    <3>1. \/ swp' = [swp EXCEPT ![s] = NoJob]
          \/ swp' = [swp EXCEPT ![s] = [swp[s] EXCEPT !.pc = "mail"]]
      BY <1>24 DEF SweepSwaps
    <3>2. NoJob \in SweepState
      BY Fields, Known, SweepMoves
    <3>3. [swp[s] EXCEPT !.pc = "mail"] \in SweepState
      BY Fields, Known, SweepMoves
    <3>4. QED BY <3>1, <3>2, <3>3 DEF TypeOK
  <2>4. UNCHANGED <<intake, eng, drv, req, mishaps, resumes, told>>
    BY <1>24 DEF SweepSwaps, actors, history
  <2>5. QED BY <2>1, <2>2, <2>3, <2>4 DEF TypeOK
<1>25. ASSUME NEW s \in Sweeper, SweepMails(s) PROVE TypeOK'
  <2>1. told' \in [Row -> BOOLEAN]
    BY <1>25, Fields, Known DEF SweepMails, TypeOK, Mail, Mishap
  <2>2. mishaps' \in 0 .. MaxMishaps
    BY <1>25, MirrorAssumption DEF SweepMails, TypeOK, Mail, Mishap
  <2>3. swp' \in [Sweeper -> SweepState]
    <3>1. swp' = [swp EXCEPT ![s] = NoJob]
      BY <1>25 DEF SweepMails
    <3>2. NoJob \in SweepState
      BY Fields, Known, SweepMoves
    <3>3. QED BY <3>1, <3>2 DEF TypeOK
  <2>4. UNCHANGED <<row, intake, eng, drv, req, resumes, finals>>
    BY <1>25 DEF SweepMails, actors, history
  <2>5. QED BY <2>1, <2>2, <2>3, <2>4 DEF TypeOK
<1>26. ASSUME NEW s \in Sweeper, SweepFaults(s) PROVE TypeOK'
  <2>1. swp' \in [Sweeper -> SweepState]
    <3>1. \/ swp' = [swp EXCEPT ![s] = NoJob]
          \/ swp' = [swp EXCEPT ![s] = [NoJob EXCEPT !.pc = "clear", !.row = swp[s].row]]
      BY <1>26 DEF SweepFaults
    <3>2. NoJob \in SweepState
      BY Fields, Known, SweepMoves
    <3>3. [NoJob EXCEPT !.pc = "clear", !.row = swp[s].row] \in SweepState
      BY Fields, Known, SweepMoves
    <3>4. QED BY <3>1, <3>2, <3>3 DEF TypeOK
  <2>2. mishaps' \in 0 .. MaxMishaps
    BY <1>26, MirrorAssumption DEF SweepFaults, TypeOK, Mishap
  <2>3. UNCHANGED <<row, intake, eng, drv, req, resumes, finals, told>>
    BY <1>26 DEF SweepFaults, actors, history
  <2>4. QED BY <2>1, <2>2, <2>3 DEF TypeOK
<1>27. ASSUME NEW s \in Sweeper, SweepDies(s) PROVE TypeOK'
  <2>1. swp' \in [Sweeper -> SweepState]
    <3>1. swp' = [swp EXCEPT ![s] = NoJob]
      BY <1>27 DEF SweepDies
    <3>2. NoJob \in SweepState
      BY Fields, Known, SweepMoves
    <3>3. QED BY <3>1, <3>2 DEF TypeOK
  <2>2. mishaps' \in 0 .. MaxMishaps
    BY <1>27, MirrorAssumption DEF SweepDies, TypeOK, Mishap
  <2>3. UNCHANGED <<row, intake, eng, drv, req, resumes, finals, told>>
    BY <1>27 DEF SweepDies, actors, history
  <2>4. QED BY <2>1, <2>2, <2>3 DEF TypeOK
<1>28. ASSUME NEW r \in Row, LeaseEnds(r) PROVE TypeOK'
  <2>1. row' \in [Row -> RowType]
    <3>1. row' = [row EXCEPT ![r] = [row[r] EXCEPT !.lease = FALSE]]
      BY <1>28 DEF LeaseEnds
    <3>2. [row[r] EXCEPT !.lease = FALSE] \in RowType
      BY Fields, Known, RowMoves
    <3>3. QED BY <3>1, <3>2 DEF TypeOK
  <2>2. UNCHANGED <<intake, eng, drv, swp, req, mishaps, resumes, finals, told>>
    BY <1>28 DEF LeaseEnds, actors, history
  <2>3. QED BY <2>1, <2>2 DEF TypeOK
<1>29. ASSUME NEW r \in Row, GoesStale(r) PROVE TypeOK'
  <2>1. row' \in [Row -> RowType]
    <3>1. row' = [row EXCEPT ![r] = [row[r] EXCEPT !.beat = FALSE]]
      BY <1>29 DEF GoesStale
    <3>2. [row[r] EXCEPT !.beat = FALSE] \in RowType
      BY Fields, Known, RowMoves
    <3>3. QED BY <3>1, <3>2 DEF TypeOK
  <2>2. UNCHANGED <<intake, eng, drv, swp, req, mishaps, resumes, finals, told>>
    BY <1>29 DEF GoesStale, actors, history
  <2>3. QED BY <2>1, <2>2 DEF TypeOK
<1>30. ASSUME NEW r \in Row, EngineStarts(r) PROVE TypeOK'
  <2>1. eng' \in [Row -> Status]
    BY <1>30, Fields, Known DEF EngineStarts, TypeOK
  <2>2. UNCHANGED <<row, intake, drv, swp, req, mishaps, resumes, finals, told>>
    BY <1>30 DEF EngineStarts, actors, history
  <2>3. QED BY <2>1, <2>2 DEF TypeOK
<1>31. ASSUME NEW r \in Row, EngineEnds(r) PROVE TypeOK'
  <2>1. eng' \in [Row -> Status]
    BY <1>31, Fields, Known DEF EngineEnds, TypeOK
  <2>2. UNCHANGED <<row, intake, drv, swp, req, mishaps, resumes, finals, told>>
    BY <1>31 DEF EngineEnds, actors, history
  <2>3. QED BY <2>1, <2>2 DEF TypeOK
<1>32. CASE IntakeMoves
  BY <1>32, MirrorAssumption DEF IntakeMoves, TypeOK, Startable, actors,
     history
<1>33. CASE UNCHANGED vars
  BY <1>33 DEF TypeOK, vars
<1>34. QED
  BY <1>1, <1>2, <1>3, <1>4, <1>5, <1>6, <1>7, <1>8, <1>9, <1>10, <1>11,
     <1>12, <1>13, <1>14, <1>15, <1>16, <1>17, <1>18, <1>19, <1>20, <1>21,
     <1>22, <1>23, <1>24, <1>25, <1>26, <1>27, <1>28, <1>29, <1>30, <1>31,
     <1>32, <1>33 DEF Next, Request, Serve, Drive, Sweep

(* The initial state has them.                                             *)
LEMMA TypeInit == Init => TypeOK
<1>. SUFFICES ASSUME Init PROVE TypeOK
  OBVIOUS
<1>1. row \in [Row -> RowType]
  BY Known DEF Init, RowType
<1>2. drv \in [Driver -> DriverState]
  BY Known DEF Init, DriverState, Off
<1>3. swp \in [Sweeper -> SweepState]
  BY Known DEF Init, SweepState, NoJob
<1>4. req \in [Caller -> RequestState]
  BY Known DEF Init, RequestState, NoReq
<1>5. mishaps \in 0 .. MaxMishaps
  BY MirrorAssumption DEF Init
<1>6. /\ eng \in [Row -> Status]
      /\ resumes \in [Row -> Nat] /\ finals \in [Row -> Nat]
      /\ told \in [Row -> BOOLEAN]
      /\ intake \in Startable
  BY Known DEF Init, Startable
<1>7. QED BY <1>1, <1>2, <1>3, <1>4, <1>5, <1>6 DEF TypeOK

(* The typing of the mirror's state holds in every reachable state.        *)
THEOREM TypeCorrect == Spec => []TypeOK
<1>1. QED BY TypeInit, TypeStep, PTL DEF Spec

-----------------------------------------------------------------------------
(* What a driver, a sweep and a request hold between two steps.            *)

(* A status about to be written is not an in-flight one, and a completion  *)
(* about to be mailed was delivered.                                       *)
DriverHolds(d) ==
  /\ drv[d].pc = "write" => drv[d].seen \notin InFlight
  /\ drv[d].pc = "mail" /\ drv[d].seen = "completed"
       => row[drv[d].row].delivered

SweepHolds(s) ==
  /\ swp[s].pc = "swap" => swp[s].seen \notin InFlight
  /\ swp[s].pc = "mail" /\ swp[s].seen = "completed"
       => row[swp[s].row].delivered

(* What the engine answered to a cancel is not an in-flight status.        *)
RequestHolds(c) == req[c].pc = "stamp" => req[c].seen \notin InFlight

HoldInv ==
  /\ TypeOK
  /\ OneInFlight
  /\ CompletionMailTrue
  /\ \A d \in Driver : DriverHolds(d)
  /\ \A s \in Sweeper : SweepHolds(s)
  /\ \A c \in Caller : RequestHolds(c)

(* What any writer may do to a row: never take its delivery back, and put  *)
(* it in flight only when it is already, or when no other row is.          *)
Lawful(r, x) ==
  /\ row[r].delivered => x.delivered
  /\ x.status \in InFlight => row[r].status \in InFlight \/ Admits(r, x.status)

RowStep ==
  \/ row' = row
  \/ \E r \in Row, x \in RowType : row' = [row EXCEPT ![r] = x] /\ Lawful(r, x)

(* What the writes leave in a row.                                         *)
LEMMA RequestedFields ==
  ASSUME NEW rw \in RowType, NEW a \in BOOLEAN
  PROVE  /\ Requested(rw, a).status = "queued" /\ Requested(rw, a).eid = rw.eid
         /\ Requested(rw, a).beat = rw.beat
         /\ Requested(rw, a).delivered = rw.delivered
BY DEF RowType, Requested

(* mirror_tick's row.                                                      *)
LEMMA MirroredFields ==
  ASSUME NEW rw \in RowType, NEW x \in Status
  PROVE  /\ Mirrored(rw, x).status = x /\ Mirrored(rw, x).eid
         /\ Mirrored(rw, x).beat /\ Mirrored(rw, x).delivered = rw.delivered
BY DEF RowType, Mirrored

(* Finalise's new row.                                                     *)
Written(rw, x, b) == [Finalised(rw, x) EXCEPT !.lease = b]

(* A terminal write's row.                                                 *)
LEMMA WrittenFields ==
  ASSUME NEW rw \in RowType, NEW x \in Status, NEW b \in BOOLEAN
  PROVE  /\ Written(rw, x, b).status = x /\ Written(rw, x, b).eid = rw.eid
         /\ Written(rw, x, b).beat = rw.beat
         /\ rw.delivered => Written(rw, x, b).delivered
         /\ x = "completed" => Written(rw, x, b).delivered
BY DEF RowType, Written, Finalised

(* A cancel's echo, a lease and a heartbeat.                               *)
LEMMA MarkedFields ==
  ASSUME NEW rw \in RowType, NEW x \in Status, NEW b \in BOOLEAN
  PROVE  /\ [rw EXCEPT !.status = x].status = x
         /\ [rw EXCEPT !.status = x].delivered = rw.delivered
         /\ [rw EXCEPT !.lease = b].status = rw.status
         /\ [rw EXCEPT !.lease = b].delivered = rw.delivered
         /\ [rw EXCEPT !.beat = b].status = rw.status
         /\ [rw EXCEPT !.beat = b].delivered = rw.delivered
BY DEF RowType

(* Every step is lawful to the row it writes.                              *)
LEMMA Writers ==
  ASSUME HoldInv, [Next]_vars
  PROVE  RowStep
<1>. USE DEF HoldInv
<1>1. ASSUME NEW c \in Caller, TriggerWrites(c) PROVE RowStep
  <2>1. \/ row' = row
        \/ \E r \in Row, a \in Emails :
             row' = [row EXCEPT ![r] = Requested(row[r], a)] /\ Admits(r, "queued")
    <3>1. CASE \E r \in Row, a \in Emails :
                 Admits(r, "queued") /\ row' = [row EXCEPT ![r] = Requested(@, a)]
      BY <3>1, Zenon
    <3>2. CASE UNCHANGED <<row, intake>>
      BY <3>2
    <3>3. QED BY <1>1, <3>1, <3>2, Zenon DEF TriggerWrites
  <2>2. ASSUME NEW r \in Row, NEW a \in Emails, Admits(r, "queued")
       PROVE  Requested(row[r], a) \in RowType /\ r \in Row
              /\ Lawful(r, Requested(row[r], a))
    BY <2>2, Fields, Known, RowMoves, RequestedFields
       DEF Lawful
  <2>3. QED BY <2>1, <2>2 DEF RowStep
<1>2. ASSUME NEW c \in Caller, ResumePatches(c) PROVE RowStep
  <2>1. \/ row' = row
        \/ \E a \in Emails :
             row' = [row EXCEPT ![req[c].row] = Requested(row[req[c].row], a)]
             /\ Admits(req[c].row, "queued")
    BY <1>2 DEF ResumePatches
  <2>2. ASSUME NEW a \in Emails, Admits(req[c].row, "queued")
       PROVE  Requested(row[req[c].row], a) \in RowType /\ req[c].row \in Row
              /\ Lawful(req[c].row, Requested(row[req[c].row], a))
    BY <2>2, Fields, Known, RowMoves, RequestedFields
       DEF Lawful
  <2>3. QED BY <2>1, <2>2 DEF RowStep
<1>3. ASSUME NEW c \in Caller, CancelPatches(c) PROVE RowStep
  <2>1. \E x \in Status :
          /\ row' = [row EXCEPT ![req[c].row] = [row[req[c].row] EXCEPT !.status = x]]
          /\ x \in InFlight => x = row[req[c].row].status
    BY <1>3, Fields DEF CancelPatches, RequestHolds
  <2>2. ASSUME NEW x \in Status, x \in InFlight => x = row[req[c].row].status
        PROVE  /\ [row[req[c].row] EXCEPT !.status = x] \in RowType /\ req[c].row \in Row
               /\ Lawful(req[c].row, [row[req[c].row] EXCEPT !.status = x])
    BY ZenonT(40), <2>2, Fields, Known, RowMoves, MarkedFields DEF Lawful
  <2>3. QED BY <2>1, <2>2 DEF RowStep
<1>4. ASSUME NEW d \in Driver, DriverTicks(d) PROVE RowStep
  <2>1. \/ row' = row
        \/ row' = [row EXCEPT ![drv[d].row] = Mirrored(row[drv[d].row], drv[d].seen)]
             /\ Admits(drv[d].row, drv[d].seen)
    BY <1>4 DEF DriverTicks
  <2>2. ASSUME Admits(drv[d].row, drv[d].seen)
       PROVE  Mirrored(row[drv[d].row], drv[d].seen) \in RowType /\ drv[d].row \in Row
              /\ Lawful(drv[d].row, Mirrored(row[drv[d].row], drv[d].seen))
    BY <2>2, Fields, Known, RowMoves, MirroredFields DEF Lawful
  <2>3. QED BY <2>1, <2>2 DEF RowStep
<1>5. ASSUME NEW d \in Driver, DriverWrites(d) PROVE RowStep
  <2>1. row' = [row EXCEPT ![drv[d].row] = Written(row[drv[d].row], drv[d].seen, row[drv[d].row].lease)]
             /\ drv[d].seen \notin InFlight
    BY <1>5 DEF DriverWrites, Finalise, Written, DriverHolds
  <2>2. ASSUME drv[d].seen \notin InFlight
       PROVE  Written(row[drv[d].row], drv[d].seen, row[drv[d].row].lease) \in RowType /\ drv[d].row \in Row
              /\ Lawful(drv[d].row, Written(row[drv[d].row], drv[d].seen, row[drv[d].row].lease))
    <3>1. Written(row[drv[d].row], drv[d].seen, row[drv[d].row].lease) \in RowType
      BY Fields, Known, RowMoves DEF Written
    <3>2. /\ Written(row[drv[d].row], drv[d].seen, row[drv[d].row].lease).status = drv[d].seen
          /\ row[drv[d].row].delivered => Written(row[drv[d].row], drv[d].seen, row[drv[d].row].lease).delivered
      BY Fields, Known, WrittenFields
    <3>3. QED BY <2>2, <3>1, <3>2, Fields, Known DEF Lawful
  <2>3. QED BY <2>1, <2>2 DEF RowStep
<1>6. ASSUME NEW d \in Driver, DriverRelabels(d) PROVE RowStep
  <2>1. \/ row' = row
        \/ row' = [row EXCEPT ![drv[d].row] = Written(row[drv[d].row], "failed", row[drv[d].row].lease)]
    BY <1>6 DEF DriverRelabels, Finalise, Written
  <2>2. Written(row[drv[d].row], "failed", row[drv[d].row].lease) \in RowType /\ drv[d].row \in Row
       /\ Lawful(drv[d].row, Written(row[drv[d].row], "failed", row[drv[d].row].lease))
    <3>1. Written(row[drv[d].row], "failed", row[drv[d].row].lease) \in RowType
      BY Fields, Known, RowMoves DEF Written
    <3>2. /\ Written(row[drv[d].row], "failed", row[drv[d].row].lease).status = "failed"
          /\ row[drv[d].row].delivered => Written(row[drv[d].row], "failed", row[drv[d].row].lease).delivered
      BY Fields, Known, WrittenFields
    <3>3. QED BY <3>1, <3>2, Fields, Known DEF Lawful, InFlight
  <2>3. QED BY <2>1, <2>2 DEF RowStep
<1>7. ASSUME NEW s \in Sweeper, SweepClaims(s) PROVE RowStep
  <2>1. \E r \in Row :
             row' = [row EXCEPT ![r] = [row[r] EXCEPT !.lease = TRUE]]
    BY <1>7, Fields DEF SweepClaims, RowType
  <2>2. ASSUME NEW r \in Row
       PROVE  [row[r] EXCEPT !.lease = TRUE] \in RowType /\ r \in Row
              /\ Lawful(r, [row[r] EXCEPT !.lease = TRUE])
    BY <2>2, Fields, Known, RowMoves, MarkedFields DEF Lawful
  <2>3. QED BY <2>1, <2>2 DEF RowStep
<1>8. ASSUME NEW s \in Sweeper, SweepMirrors(s) PROVE RowStep
  <2>1. \/ row' = row
        \/ row' = [row EXCEPT ![swp[s].row] = Mirrored(row[swp[s].row], swp[s].seen)]
             /\ Admits(swp[s].row, swp[s].seen)
    BY <1>8 DEF SweepMirrors
  <2>2. ASSUME Admits(swp[s].row, swp[s].seen)
       PROVE  Mirrored(row[swp[s].row], swp[s].seen) \in RowType /\ swp[s].row \in Row
              /\ Lawful(swp[s].row, Mirrored(row[swp[s].row], swp[s].seen))
    BY <2>2, Fields, Known, RowMoves, MirroredFields DEF Lawful
  <2>3. QED BY <2>1, <2>2 DEF RowStep
<1>9. ASSUME NEW s \in Sweeper, SweepClears(s) PROVE RowStep
  <2>1. \/ row' = row
        \/ row' = [row EXCEPT ![swp[s].row] = [row[swp[s].row] EXCEPT !.lease = FALSE]]
    BY <1>9, Fields DEF SweepClears, RowType
  <2>2. [row[swp[s].row] EXCEPT !.lease = FALSE] \in RowType /\ swp[s].row \in Row
       /\ Lawful(swp[s].row, [row[swp[s].row] EXCEPT !.lease = FALSE])
    BY Fields, Known, RowMoves, MarkedFields DEF Lawful
  <2>3. QED BY <2>1, <2>2 DEF RowStep
<1>10. ASSUME NEW s \in Sweeper, SweepSwaps(s) PROVE RowStep
  <2>1. \/ row' = row
        \/ row' = [row EXCEPT ![swp[s].row] = Written(row[swp[s].row], swp[s].seen, FALSE)]
             /\ swp[s].seen \notin InFlight
    BY <1>10 DEF SweepSwaps, Finalise, Written, SweepHolds
  <2>2. ASSUME swp[s].seen \notin InFlight
       PROVE  Written(row[swp[s].row], swp[s].seen, FALSE) \in RowType /\ swp[s].row \in Row
              /\ Lawful(swp[s].row, Written(row[swp[s].row], swp[s].seen, FALSE))
    <3>1. Written(row[swp[s].row], swp[s].seen, FALSE) \in RowType
      BY Fields, Known, RowMoves DEF Written
    <3>2. /\ Written(row[swp[s].row], swp[s].seen, FALSE).status = swp[s].seen
          /\ row[swp[s].row].delivered => Written(row[swp[s].row], swp[s].seen, FALSE).delivered
      BY Fields DEF Written, Finalised, RowType
    <3>3. QED BY <2>2, <3>1, <3>2, Fields, Known DEF Lawful
  <2>3. QED BY <2>1, <2>2 DEF RowStep
<1>11. ASSUME NEW r \in Row, LeaseEnds(r) PROVE RowStep
  <2>1. row' = [row EXCEPT ![r] = [row[r] EXCEPT !.lease = FALSE]]
    BY <1>11, Fields DEF LeaseEnds, RowType
  <2>2. [row[r] EXCEPT !.lease = FALSE] \in RowType /\ r \in Row
       /\ Lawful(r, [row[r] EXCEPT !.lease = FALSE])
    BY Fields, Known, RowMoves, MarkedFields DEF Lawful
  <2>3. QED BY <2>1, <2>2 DEF RowStep
<1>12. ASSUME NEW r \in Row, GoesStale(r) PROVE RowStep
  <2>1. row' = [row EXCEPT ![r] = [row[r] EXCEPT !.beat = FALSE]]
    BY <1>12, Fields DEF GoesStale, RowType
  <2>2. [row[r] EXCEPT !.beat = FALSE] \in RowType /\ r \in Row
       /\ Lawful(r, [row[r] EXCEPT !.beat = FALSE])
    BY Fields, Known, RowMoves, MarkedFields DEF Lawful
  <2>3. QED BY <2>1, <2>2 DEF RowStep
<1>13. ASSUME NEW c \in Caller,
            TriggerReads(c) \/ Schedule(c) \/ ResumeReads(c)
            \/ ResumeCalls(c) \/ CancelReads(c) \/ CancelCalls(c)
            \/ RequestDies(c)
     PROVE  row' = row
  <2>1. CASE TriggerReads(c)
    BY <2>1 DEF TriggerReads, actors, history
  <2>2. CASE Schedule(c)
    BY <2>2 DEF Schedule, actors, history
  <2>3. CASE ResumeReads(c)
    BY <2>3 DEF ResumeReads, actors, history
  <2>4. CASE ResumeCalls(c)
    BY <2>4 DEF ResumeCalls, actors, history
  <2>5. CASE CancelReads(c)
    BY <2>5 DEF CancelReads, actors, history
  <2>6. CASE CancelCalls(c)
    BY <2>6 DEF CancelCalls, actors, history
  <2>7. CASE RequestDies(c)
    BY <2>7 DEF RequestDies, actors, history
  <2>8. QED BY <1>13, <2>1, <2>2, <2>3, <2>4, <2>5, <2>6, <2>7
<1>14. ASSUME NEW d \in Driver,
            DriverOpens(d) \/ DriverReads(d) \/ DriverGivesUp(d)
            \/ DriverMails(d) \/ DriverFaults(d) \/ DriverDies(d)
     PROVE  row' = row
  <2>1. CASE DriverOpens(d)
    BY <2>1 DEF DriverOpens, actors, history
  <2>2. CASE DriverReads(d)
    BY <2>2 DEF DriverReads, actors, history
  <2>3. CASE DriverGivesUp(d)
    BY <2>3 DEF DriverGivesUp, actors, history
  <2>4. CASE DriverMails(d)
    BY <2>4 DEF DriverMails, actors, history
  <2>5. CASE DriverFaults(d)
    BY <2>5 DEF DriverFaults, actors, history
  <2>6. CASE DriverDies(d)
    BY <2>6 DEF DriverDies, actors, history
  <2>7. QED BY <1>14, <2>1, <2>2, <2>3, <2>4, <2>5, <2>6
<1>15. ASSUME NEW s \in Sweeper,
            SweepAsks(s) \/ SweepMails(s) \/ SweepFaults(s)
            \/ SweepDies(s)
     PROVE  row' = row
  <2>1. CASE SweepAsks(s)
    BY <2>1 DEF SweepAsks, actors, history
  <2>2. CASE SweepMails(s)
    BY <2>2 DEF SweepMails, actors, history
  <2>3. CASE SweepFaults(s)
    BY <2>3 DEF SweepFaults, actors, history
  <2>4. CASE SweepDies(s)
    BY <2>4 DEF SweepDies, actors, history
  <2>5. QED BY <1>15, <2>1, <2>2, <2>3, <2>4
<1>16. ASSUME NEW r \in Row,
            EngineStarts(r) \/ EngineEnds(r)
     PROVE  row' = row
  <2>1. CASE EngineStarts(r)
    BY <2>1 DEF EngineStarts, actors, history
  <2>2. CASE EngineEnds(r)
    BY <2>2 DEF EngineEnds, actors, history
  <2>3. QED BY <1>16, <2>1, <2>2
<1>17. CASE IntakeMoves \/ UNCHANGED vars
  BY <1>17 DEF IntakeMoves, vars, actors, history, RowStep
<1>18. ASSUME NEW c \in Caller,
            Request(c) \/ Serve(c) \/ RequestDies(c)
     PROVE  RowStep
  BY <1>18, <1>13, <1>1, <1>2, <1>3 DEF RowStep, Request, Serve
<1>19. ASSUME NEW d \in Driver,
            Drive(d) \/ DriverGivesUp(d) \/ DriverFaults(d) \/ DriverDies(d)
     PROVE  RowStep
  BY <1>19, <1>14, <1>4, <1>5, <1>6 DEF RowStep, Drive
<1>20. ASSUME NEW s \in Sweeper,
            Sweep(s) \/ SweepFaults(s) \/ SweepDies(s)
     PROVE  RowStep
  BY <1>20, <1>7, <1>15, <1>8, <1>9, <1>10 DEF RowStep, Sweep
<1>21. ASSUME NEW r \in Row,
            LeaseEnds(r) \/ GoesStale(r) \/ EngineStarts(r) \/ EngineEnds(r)
     PROVE  RowStep
  BY <1>21, <1>11, <1>12, <1>16 DEF RowStep
<1>22. QED BY <1>17, <1>18, <1>19, <1>20, <1>21 DEF Next

(* So a delivery lasts, and the runs of an intake stay one at a time.      *)
LEMMA RowsKept ==
  ASSUME HoldInv, [Next]_vars
  PROVE  /\ OneInFlight'
         /\ \A q \in Row : row[q].delivered => row'[q].delivered
<1>1. CASE row' = row
  BY <1>1 DEF OneInFlight, HoldInv
<1>2. ASSUME NEW r \in Row, NEW x \in RowType,
             row' = [row EXCEPT ![r] = x], Lawful(r, x)
      PROVE  /\ OneInFlight'
             /\ \A q \in Row : row[q].delivered => row'[q].delivered
  <2>1. row'[r] = x /\ \A q \in Row \ {r} : row'[q] = row[q]
    BY <1>2 DEF HoldInv, TypeOK
  <2>2. \A q \in Row : row[q].delivered => row'[q].delivered
    BY <1>2, <2>1 DEF Lawful
  <2>3. x.status \in InFlight => \A q \in Row \ {r} : row[q].status \notin InFlight
    BY <1>2 DEF Lawful, Admits, HoldInv, OneInFlight
  <2>4. OneInFlight'
    BY <2>1, <2>3 DEF HoldInv, OneInFlight
  <2>5. QED BY <2>2, <2>4
<1>3. QED BY <1>1, <1>2, Writers DEF RowStep

(* Drivers keep what they hold.                                            *)
LEMMA DriversHold ==
  ASSUME HoldInv, [Next]_vars, NEW e \in Driver
  PROVE  DriverHolds(e)'
<1>. DEFINE Goal == DriverHolds(e)'
<1>0. drv'[e] = drv[e] => Goal
  BY RowsKept, Fields DEF HoldInv, DriverHolds
<1>1. ASSUME NEW c \in Caller, Schedule(c) PROVE Goal
  <2>1. PICK d \in Driver :
          drv' = [drv EXCEPT ![d] = [Off EXCEPT !.pc = "start", !.row = req[c].row]]
    BY <1>1 DEF Schedule
  <2>2. CASE d = e
    BY <2>1, <2>2 DEF DriverHolds, Off, HoldInv, TypeOK
  <2>3. CASE d # e
    BY <1>0, <2>1, <2>3 DEF HoldInv, TypeOK
  <2>4. QED BY <2>2, <2>3
<1>2. ASSUME NEW d \in Driver, DriverOpens(d) PROVE Goal
  <2>1. CASE d # e
    BY <1>0, <1>2, <2>1 DEF DriverOpens, Goes, Leaves, HoldInv, TypeOK
  <2>2. CASE d = e
    <3>1. \/ drv'[e] = [drv[d] EXCEPT !.pc = "poll"]
          \/ drv'[e] = [drv[d] EXCEPT !.pc = "error"]
      BY <1>2, <2>2 DEF DriverOpens, Goes, HoldInv, TypeOK
    <3>2. QED BY <2>2, <3>1, Fields DEF DriverHolds, DriverState, HoldInv
  <2>3. QED BY <2>1, <2>2
<1>3. ASSUME NEW d \in Driver, DriverReads(d) PROVE Goal
  <2>1. CASE d # e
    BY <1>0, <1>3, <2>1 DEF DriverReads, Goes, Leaves, HoldInv, TypeOK
  <2>2. CASE d = e
    <3>1. drv'[e] = [drv[d] EXCEPT !.pc = "tick", !.seen = eng[drv[d].row]]
      BY <1>3, <2>2 DEF DriverReads, Goes, HoldInv, TypeOK
    <3>2. QED BY <2>2, <3>1, Fields DEF DriverHolds, DriverState, HoldInv
  <2>3. QED BY <2>1, <2>2
<1>4. ASSUME NEW d \in Driver, DriverGivesUp(d) PROVE Goal
  <2>1. CASE d # e
    BY <1>0, <1>4, <2>1 DEF DriverGivesUp, Goes, Leaves, HoldInv, TypeOK
  <2>2. CASE d = e
    <3>1. drv'[e] = [drv[d] EXCEPT !.pc = "write", !.seen = "failed"]
      BY <1>4, <2>2 DEF DriverGivesUp, Goes, HoldInv, TypeOK
    <3>2. QED BY <2>2, <3>1, Fields DEF DriverHolds, DriverState, HoldInv, InFlight
  <2>3. QED BY <2>1, <2>2
<1>5. ASSUME NEW d \in Driver, DriverTicks(d) PROVE Goal
  <2>1. CASE d # e
    BY <1>0, <1>5, <2>1 DEF DriverTicks, Goes, Leaves, HoldInv, TypeOK
  <2>2. CASE d = e
    <3>1. \/ drv'[e] = [drv[d] EXCEPT !.pc = "write"] /\ drv[d].seen \in Terminal
          \/ drv'[e] = [drv[d] EXCEPT !.pc = "poll", !.seen = "none"]
          \/ drv'[e] = [drv[d] EXCEPT !.pc = "error"]
      BY <1>5, <2>2 DEF DriverTicks, Goes, HoldInv, TypeOK
    <3>2. QED BY <2>2, <3>1, Fields DEF DriverHolds, DriverState, HoldInv, InFlight, Terminal
  <2>3. QED BY <2>1, <2>2
<1>6. ASSUME NEW d \in Driver, DriverWrites(d) PROVE Goal
  <2>1. CASE d # e
    BY <1>0, <1>6, <2>1 DEF DriverWrites, Goes, Leaves, HoldInv, TypeOK
  <2>2. CASE d = e
    <3>1. row' = [row EXCEPT ![drv[d].row] =
                   Written(row[drv[d].row], drv[d].seen, row[drv[d].row].lease)]
      BY <1>6 DEF DriverWrites, Finalise, Written
    <3>2. drv' = [drv EXCEPT ![d].pc = "mail"]
      BY <1>6 DEF DriverWrites, Goes
    <3>3. drv[d].row \in Row /\ drv'[e] = [drv[e] EXCEPT !.pc = "mail"]
      BY <2>2, <3>2, Fields DEF HoldInv, TypeOK
    <3>4. drv'[e].row = drv[d].row /\ drv'[e].seen = drv[d].seen /\ drv'[e].pc = "mail"
      BY <2>2, <3>3, Fields DEF HoldInv, DriverState
    <3>5. row'[drv[d].row] = Written(row[drv[d].row], drv[d].seen, row[drv[d].row].lease)
      BY <3>1, <3>3 DEF HoldInv, TypeOK
    <3>6. drv[d].seen = "completed" => row'[drv[d].row].delivered
      BY <3>5, Fields, WrittenFields DEF HoldInv
    <3>7. QED BY <3>4, <3>6 DEF DriverHolds
  <2>3. QED BY <2>1, <2>2
<1>7. ASSUME NEW d \in Driver, DriverMails(d) PROVE Goal
  <2>1. CASE d # e
    BY <1>0, <1>7, <2>1 DEF DriverMails, Goes, Leaves, HoldInv, TypeOK
  <2>2. CASE d = e
    <3>1. drv'[e] = Off
      BY <1>7, <2>2 DEF DriverMails, Leaves, HoldInv, TypeOK
    <3>2. QED BY <3>1 DEF DriverHolds, Off
  <2>3. QED BY <2>1, <2>2
<1>8. ASSUME NEW d \in Driver, DriverFaults(d) PROVE Goal
  <2>1. CASE d # e
    BY <1>0, <1>8, <2>1 DEF DriverFaults, Goes, Leaves, HoldInv, TypeOK
  <2>2. CASE d = e
    <3>1. drv'[e] = [drv[d] EXCEPT !.pc = "error"]
      BY <1>8, <2>2 DEF DriverFaults, Goes, HoldInv, TypeOK
    <3>2. QED BY <2>2, <3>1, Fields DEF DriverHolds, DriverState, HoldInv
  <2>3. QED BY <2>1, <2>2
<1>9. ASSUME NEW d \in Driver, DriverRelabels(d) PROVE Goal
  <2>1. CASE d # e
    BY <1>0, <1>9, <2>1 DEF DriverRelabels, Goes, Leaves, HoldInv, TypeOK
  <2>2. CASE d = e
    <3>1. drv'[e] = Off
      BY <1>9, <2>2 DEF DriverRelabels, Leaves, HoldInv, TypeOK
    <3>2. QED BY <3>1 DEF DriverHolds, Off
  <2>3. QED BY <2>1, <2>2
<1>10. ASSUME NEW d \in Driver, DriverDies(d) PROVE Goal
  <2>1. CASE d # e
    BY <1>0, <1>10, <2>1 DEF DriverDies, Goes, Leaves, HoldInv, TypeOK
  <2>2. CASE d = e
    <3>1. drv'[e] = Off
      BY <1>10, <2>2 DEF DriverDies, Leaves, HoldInv, TypeOK
    <3>2. QED BY <3>1 DEF DriverHolds, Off
  <2>3. QED BY <2>1, <2>2
<1>11. ASSUME NEW c \in Caller,
            TriggerReads(c) \/ TriggerWrites(c) \/ ResumeReads(c)
            \/ ResumeCalls(c) \/ ResumePatches(c) \/ CancelReads(c)
            \/ CancelCalls(c) \/ CancelPatches(c) \/ RequestDies(c)
     PROVE  drv' = drv
  <2>1. CASE TriggerReads(c)
    BY <2>1 DEF TriggerReads, actors, history
  <2>2. CASE TriggerWrites(c)
    BY <2>2, Zenon DEF TriggerWrites, actors, history
  <2>3. CASE ResumeReads(c)
    BY <2>3 DEF ResumeReads, actors, history
  <2>4. CASE ResumeCalls(c)
    BY <2>4 DEF ResumeCalls, actors, history
  <2>5. CASE ResumePatches(c)
    BY <2>5 DEF ResumePatches, actors, history
  <2>6. CASE CancelReads(c)
    BY <2>6 DEF CancelReads, actors, history
  <2>7. CASE CancelCalls(c)
    BY <2>7 DEF CancelCalls, actors, history
  <2>8. CASE CancelPatches(c)
    BY <2>8 DEF CancelPatches, actors, history
  <2>9. CASE RequestDies(c)
    BY <2>9 DEF RequestDies, actors, history
  <2>10. QED BY <1>11, <2>1, <2>2, <2>3, <2>4, <2>5, <2>6, <2>7, <2>8, <2>9
<1>12. ASSUME NEW s \in Sweeper,
            SweepClaims(s) \/ SweepAsks(s) \/ SweepMirrors(s)
            \/ SweepClears(s) \/ SweepSwaps(s) \/ SweepMails(s)
            \/ SweepFaults(s) \/ SweepDies(s)
     PROVE  drv' = drv
  <2>1. CASE SweepClaims(s)
    BY <2>1 DEF SweepClaims, actors, history
  <2>2. CASE SweepAsks(s)
    BY <2>2 DEF SweepAsks, actors, history
  <2>3. CASE SweepMirrors(s)
    BY <2>3 DEF SweepMirrors, actors, history
  <2>4. CASE SweepClears(s)
    BY <2>4 DEF SweepClears, actors, history
  <2>5. CASE SweepSwaps(s)
    BY <2>5 DEF SweepSwaps, actors, history
  <2>6. CASE SweepMails(s)
    BY <2>6 DEF SweepMails, actors, history
  <2>7. CASE SweepFaults(s)
    BY <2>7 DEF SweepFaults, actors, history
  <2>8. CASE SweepDies(s)
    BY <2>8 DEF SweepDies, actors, history
  <2>9. QED BY <1>12, <2>1, <2>2, <2>3, <2>4, <2>5, <2>6, <2>7, <2>8
<1>13. ASSUME NEW r \in Row,
            LeaseEnds(r) \/ GoesStale(r) \/ EngineStarts(r)
            \/ EngineEnds(r)
     PROVE  drv' = drv
  <2>1. CASE LeaseEnds(r)
    BY <2>1 DEF LeaseEnds, actors, history
  <2>2. CASE GoesStale(r)
    BY <2>2 DEF GoesStale, actors, history
  <2>3. CASE EngineStarts(r)
    BY <2>3 DEF EngineStarts, actors, history
  <2>4. CASE EngineEnds(r)
    BY <2>4 DEF EngineEnds, actors, history
  <2>5. QED BY <1>13, <2>1, <2>2, <2>3, <2>4
<1>14. CASE IntakeMoves \/ UNCHANGED vars
  BY <1>0, <1>14 DEF IntakeMoves, vars, actors, history
<1>. HIDE DEF Goal
<1>15. ASSUME NEW c \in Caller,
            Request(c) \/ Serve(c) \/ RequestDies(c)
     PROVE  Goal
  BY <1>15, <1>0, <1>11, <1>1 DEF Request, Serve
<1>16. ASSUME NEW d \in Driver,
            Drive(d) \/ DriverGivesUp(d) \/ DriverFaults(d) \/ DriverDies(d)
     PROVE  Goal
  BY <1>16, <1>0, <1>2, <1>3, <1>4, <1>5, <1>6, <1>7, <1>8, <1>9, <1>10 DEF
     Drive
<1>17. ASSUME NEW s \in Sweeper,
            Sweep(s) \/ SweepFaults(s) \/ SweepDies(s)
     PROVE  Goal
  BY <1>17, <1>0, <1>12 DEF Sweep
<1>18. ASSUME NEW r \in Row,
            LeaseEnds(r) \/ GoesStale(r) \/ EngineStarts(r) \/ EngineEnds(r)
     PROVE  Goal
  BY <1>18, <1>0, <1>13
<1>19. QED BY <1>14, <1>15, <1>16, <1>17, <1>18 DEF Next, Goal

(* A sweep's or a request's first steps hold nothing.                      *)
LEMMA FreshJobs ==
  ASSUME NEW r, NEW x
  PROVE  /\ NoJob.pc = "idle"
         /\ [NoJob EXCEPT !.pc = "ask", !.row = r, !.was = x].pc = "ask"
         /\ [NoJob EXCEPT !.pc = "clear", !.row = r].pc = "clear"
BY DEF NoJob

(* Nor do a request's.                                                     *)
LEMMA FreshRequests ==
  ASSUME NEW r, NEW x
  PROVE  /\ NoReq.pc = "idle"
         /\ [NoReq EXCEPT !.pc = "trigger", !.prior = x].pc = "trigger"
         /\ [NoReq EXCEPT !.pc = "schedule", !.row = r].pc = "schedule"
         /\ [NoReq EXCEPT !.pc = "resume", !.row = r].pc = "resume"
         /\ [NoReq EXCEPT !.pc = "cancel", !.row = r, !.prior = x].pc = "cancel"
BY DEF NoReq

(* So do sweeps ...                                                        *)
LEMMA SweepsHold ==
  ASSUME HoldInv, [Next]_vars, NEW e \in Sweeper
  PROVE  SweepHolds(e)'
<1>. DEFINE Goal == SweepHolds(e)'
<1>0. swp'[e] = swp[e] => Goal
  BY RowsKept, Fields DEF HoldInv, SweepHolds
<1>1. ASSUME NEW s \in Sweeper, SweepClaims(s) PROVE Goal
  <2>1. CASE s # e
    BY <1>0, <1>1, <2>1 DEF SweepClaims, HoldInv, TypeOK
  <2>2. CASE s = e
    <3>1. PICK r \in Row :
            swp' = IF row[r].actor /\ row[r].eid
                   THEN [swp EXCEPT ![s] = [NoJob EXCEPT !.pc = "ask", !.row = r,
                                                         !.was = row[r].status]]
                   ELSE swp
      BY <1>1, Zenon DEF SweepClaims
    <3>2. CASE row[r].actor /\ row[r].eid
      <4>1. swp'[e] = [NoJob EXCEPT !.pc = "ask", !.row = r, !.was = row[r].status]
        BY <2>2, <3>1, <3>2 DEF HoldInv, TypeOK
      <4>2. QED BY <4>1, FreshJobs DEF SweepHolds
    <3>3. CASE ~(row[r].actor /\ row[r].eid)
      BY <1>0, <3>1, <3>3
    <3>4. QED BY <3>2, <3>3
  <2>3. QED BY <2>1, <2>2
<1>2. ASSUME NEW s \in Sweeper, SweepAsks(s) PROVE Goal
  <2>1. CASE s # e
    BY <1>0, <1>2, <2>1 DEF SweepAsks, HoldInv, TypeOK
  <2>2. CASE s = e
    <3>1. \/ swp'[e] = [swp[s] EXCEPT !.seen = eng[swp[s].row], !.pc = "mirror"]
          \/ /\ swp'[e] = [swp[s] EXCEPT !.seen = eng[swp[s].row], !.pc = "swap"]
             /\ eng[swp[s].row] \in Terminal
      BY <1>2, <2>2 DEF SweepAsks, HoldInv, TypeOK
    <3>2. QED BY <2>2, <3>1, Fields DEF SweepHolds, SweepState, HoldInv, InFlight, Terminal
  <2>3. QED BY <2>1, <2>2
<1>3. ASSUME NEW s \in Sweeper, SweepMirrors(s) PROVE Goal
  <2>1. CASE s # e
    BY <1>0, <1>3, <2>1 DEF SweepMirrors, HoldInv, TypeOK
  <2>2. CASE s = e
    <3>1. \/ swp'[e] = NoJob
          \/ swp'[e] = [NoJob EXCEPT !.pc = "clear", !.row = swp[s].row]
      BY <1>3, <2>2 DEF SweepMirrors, HoldInv, TypeOK
    <3>2. QED BY <3>1, FreshJobs DEF SweepHolds
  <2>3. QED BY <2>1, <2>2
<1>4. ASSUME NEW s \in Sweeper, SweepClears(s) PROVE Goal
  <2>1. CASE s # e
    BY <1>0, <1>4, <2>1 DEF SweepClears, HoldInv, TypeOK
  <2>2. CASE s = e
    <3>1. swp'[e] = NoJob
      BY <1>4, <2>2 DEF SweepClears, HoldInv, TypeOK
    <3>2. QED BY <3>1 DEF SweepHolds, NoJob
  <2>3. QED BY <2>1, <2>2
<1>5. ASSUME NEW s \in Sweeper, SweepSwaps(s) PROVE Goal
  <2>1. CASE s # e
    BY <1>0, <1>5, <2>1 DEF SweepSwaps, HoldInv, TypeOK
  <2>2. CASE s = e
    <3>1. CASE swp' = [swp EXCEPT ![s] = NoJob]
      BY <2>2, <3>1 DEF SweepHolds, NoJob, HoldInv, TypeOK
    <3>2. CASE /\ row' = [row EXCEPT ![swp[s].row] =
                           Written(row[swp[s].row], swp[s].seen, FALSE)]
               /\ swp' = [swp EXCEPT ![s].pc = "mail"]
      <4>1. swp[s].row \in Row /\ swp'[e] = [swp[e] EXCEPT !.pc = "mail"]
        BY <2>2, <3>2, Fields DEF HoldInv, TypeOK
      <4>2. swp'[e].row = swp[s].row /\ swp'[e].seen = swp[s].seen /\ swp'[e].pc = "mail"
        BY <2>2, <4>1, Fields DEF HoldInv, SweepState
      <4>3. row'[swp[s].row] = Written(row[swp[s].row], swp[s].seen, FALSE)
        BY <3>2, <4>1 DEF HoldInv, TypeOK
      <4>4. swp[s].seen = "completed" => row'[swp[s].row].delivered
        BY <4>3, Fields DEF HoldInv, Written, Finalised, RowType
      <4>5. QED BY <4>2, <4>4 DEF SweepHolds
    <3>3. QED BY <1>5, <3>1, <3>2 DEF SweepSwaps, Finalise, Written
  <2>3. QED BY <2>1, <2>2
<1>6. ASSUME NEW s \in Sweeper, SweepMails(s) PROVE Goal
  <2>1. CASE s # e
    BY <1>0, <1>6, <2>1 DEF SweepMails, HoldInv, TypeOK
  <2>2. CASE s = e
    <3>1. swp'[e] = NoJob
      BY <1>6, <2>2 DEF SweepMails, HoldInv, TypeOK
    <3>2. QED BY <3>1 DEF SweepHolds, NoJob
  <2>3. QED BY <2>1, <2>2
<1>7. ASSUME NEW s \in Sweeper, SweepFaults(s) PROVE Goal
  <2>1. CASE s # e
    BY <1>0, <1>7, <2>1 DEF SweepFaults, HoldInv, TypeOK
  <2>2. CASE s = e
    <3>1. \/ swp'[e] = NoJob
          \/ swp'[e] = [NoJob EXCEPT !.pc = "clear", !.row = swp[s].row]
      BY <1>7, <2>2 DEF SweepFaults, HoldInv, TypeOK
    <3>2. QED BY <3>1, FreshJobs DEF SweepHolds
  <2>3. QED BY <2>1, <2>2
<1>8. ASSUME NEW s \in Sweeper, SweepDies(s) PROVE Goal
  <2>1. CASE s # e
    BY <1>0, <1>8, <2>1 DEF SweepDies, HoldInv, TypeOK
  <2>2. CASE s = e
    <3>1. swp'[e] = NoJob
      BY <1>8, <2>2 DEF SweepDies, HoldInv, TypeOK
    <3>2. QED BY <3>1 DEF SweepHolds, NoJob
  <2>3. QED BY <2>1, <2>2
<1>9. ASSUME NEW c \in Caller,
            TriggerReads(c) \/ TriggerWrites(c) \/ Schedule(c)
            \/ ResumeReads(c) \/ ResumeCalls(c) \/ ResumePatches(c)
            \/ CancelReads(c) \/ CancelCalls(c) \/ CancelPatches(c)
            \/ RequestDies(c)
     PROVE  swp' = swp
  <2>1. CASE TriggerReads(c)
    BY <2>1 DEF TriggerReads, actors, history
  <2>2. CASE TriggerWrites(c)
    BY <2>2, Zenon DEF TriggerWrites, actors, history
  <2>3. CASE Schedule(c)
    BY <2>3 DEF Schedule, actors, history
  <2>4. CASE ResumeReads(c)
    BY <2>4 DEF ResumeReads, actors, history
  <2>5. CASE ResumeCalls(c)
    BY <2>5 DEF ResumeCalls, actors, history
  <2>6. CASE ResumePatches(c)
    BY <2>6 DEF ResumePatches, actors, history
  <2>7. CASE CancelReads(c)
    BY <2>7 DEF CancelReads, actors, history
  <2>8. CASE CancelCalls(c)
    BY <2>8 DEF CancelCalls, actors, history
  <2>9. CASE CancelPatches(c)
    BY <2>9 DEF CancelPatches, actors, history
  <2>10. CASE RequestDies(c)
    BY <2>10 DEF RequestDies, actors, history
  <2>11. QED BY <1>9, <2>1, <2>2, <2>3, <2>4, <2>5, <2>6, <2>7, <2>8, <2>9, <2>10
<1>10. ASSUME NEW d \in Driver,
            DriverOpens(d) \/ DriverReads(d) \/ DriverGivesUp(d)
            \/ DriverTicks(d) \/ DriverWrites(d) \/ DriverMails(d)
            \/ DriverFaults(d) \/ DriverRelabels(d) \/ DriverDies(d)
     PROVE  swp' = swp
  <2>1. CASE DriverOpens(d)
    BY <2>1 DEF DriverOpens, actors, history
  <2>2. CASE DriverReads(d)
    BY <2>2 DEF DriverReads, actors, history
  <2>3. CASE DriverGivesUp(d)
    BY <2>3 DEF DriverGivesUp, actors, history
  <2>4. CASE DriverTicks(d)
    BY <2>4 DEF DriverTicks, actors, history
  <2>5. CASE DriverWrites(d)
    BY <2>5 DEF DriverWrites, actors, history
  <2>6. CASE DriverMails(d)
    BY <2>6 DEF DriverMails, actors, history
  <2>7. CASE DriverFaults(d)
    BY <2>7 DEF DriverFaults, actors, history
  <2>8. CASE DriverRelabels(d)
    BY <2>8 DEF DriverRelabels, actors, history
  <2>9. CASE DriverDies(d)
    BY <2>9 DEF DriverDies, actors, history
  <2>10. QED BY <1>10, <2>1, <2>2, <2>3, <2>4, <2>5, <2>6, <2>7, <2>8, <2>9
<1>11. ASSUME NEW r \in Row,
            LeaseEnds(r) \/ GoesStale(r) \/ EngineStarts(r)
            \/ EngineEnds(r)
     PROVE  swp' = swp
  <2>1. CASE LeaseEnds(r)
    BY <2>1 DEF LeaseEnds, actors, history
  <2>2. CASE GoesStale(r)
    BY <2>2 DEF GoesStale, actors, history
  <2>3. CASE EngineStarts(r)
    BY <2>3 DEF EngineStarts, actors, history
  <2>4. CASE EngineEnds(r)
    BY <2>4 DEF EngineEnds, actors, history
  <2>5. QED BY <1>11, <2>1, <2>2, <2>3, <2>4
<1>12. CASE IntakeMoves \/ UNCHANGED vars
  BY <1>0, <1>12 DEF IntakeMoves, vars, actors, history
<1>. HIDE DEF Goal
<1>13. ASSUME NEW c \in Caller,
            Request(c) \/ Serve(c) \/ RequestDies(c)
     PROVE  Goal
  BY <1>13, <1>0, <1>9 DEF Request, Serve
<1>14. ASSUME NEW d \in Driver,
            Drive(d) \/ DriverGivesUp(d) \/ DriverFaults(d) \/ DriverDies(d)
     PROVE  Goal
  BY <1>14, <1>0, <1>10 DEF Drive
<1>15. ASSUME NEW s \in Sweeper,
            Sweep(s) \/ SweepFaults(s) \/ SweepDies(s)
     PROVE  Goal
  BY <1>15, <1>0, <1>1, <1>2, <1>3, <1>4, <1>5, <1>6, <1>7, <1>8 DEF Sweep
<1>16. ASSUME NEW r \in Row,
            LeaseEnds(r) \/ GoesStale(r) \/ EngineStarts(r) \/ EngineEnds(r)
     PROVE  Goal
  BY <1>16, <1>0, <1>11
<1>17. QED BY <1>12, <1>13, <1>14, <1>15, <1>16 DEF Next, Goal

(* ... and requests.                                                       *)
LEMMA RequestsHold ==
  ASSUME HoldInv, [Next]_vars, NEW e \in Caller
  PROVE  RequestHolds(e)'
<1>. DEFINE Goal == RequestHolds(e)'
<1>0. req'[e] = req[e] => Goal
  BY RowsKept, Fields DEF HoldInv, RequestHolds
<1>1. ASSUME NEW c \in Caller, TriggerReads(c) PROVE Goal
  <2>1. CASE c # e
    BY <1>0, <1>1, <2>1 DEF TriggerReads, HoldInv, TypeOK
  <2>2. CASE c = e
    <3>1. req'[e] = [NoReq EXCEPT !.pc = "trigger", !.prior = intake]
      BY <1>1, <2>2 DEF TriggerReads, HoldInv, TypeOK
    <3>2. QED BY <3>1, FreshRequests DEF RequestHolds
  <2>3. QED BY <2>1, <2>2
<1>2. ASSUME NEW c \in Caller, TriggerWrites(c) PROVE Goal
  <2>0. req' = [req EXCEPT ![c] = NoReq] \/ \E r \in Row :
          req' = [req EXCEPT ![c] = [NoReq EXCEPT !.pc = "schedule", !.row = r]]
    BY <1>2, Zenon DEF TriggerWrites
  <2>1. CASE c # e
    <3>1. CASE req' = [req EXCEPT ![c] = NoReq]
      BY <1>0, <2>1, <3>1 DEF HoldInv, TypeOK
    <3>2. ASSUME NEW r \in Row,
                 req' = [req EXCEPT ![c] = [NoReq EXCEPT !.pc = "schedule", !.row = r]]
          PROVE  Goal
      BY <1>0, <2>1, <3>2 DEF HoldInv, TypeOK
    <3>3. QED BY <2>0, <3>1, <3>2, Zenon
  <2>2. CASE c = e
    <3>1. CASE req' = [req EXCEPT ![c] = NoReq]
      BY <2>2, <3>1 DEF RequestHolds, NoReq, HoldInv, TypeOK
    <3>2. ASSUME NEW r \in Row,
                 req' = [req EXCEPT ![c] = [NoReq EXCEPT !.pc = "schedule", !.row = r]]
          PROVE  Goal
      <4>1. req'[e] = [NoReq EXCEPT !.pc = "schedule", !.row = r]
        BY <2>2, <3>2 DEF HoldInv, TypeOK
      <4>2. QED BY <4>1, FreshRequests DEF RequestHolds
    <3>3. QED BY <2>0, <3>1, <3>2, Zenon
  <2>3. QED BY <2>1, <2>2
<1>3. ASSUME NEW c \in Caller, Schedule(c) PROVE Goal
  <2>1. CASE c # e
    BY <1>0, <1>3, <2>1 DEF Schedule, HoldInv, TypeOK
  <2>2. CASE c = e
    <3>1. req'[e] = NoReq
      BY <1>3, <2>2 DEF Schedule, HoldInv, TypeOK
    <3>2. QED BY <3>1, FreshRequests DEF RequestHolds
  <2>3. QED BY <2>1, <2>2
<1>4. ASSUME NEW c \in Caller, ResumeReads(c) PROVE Goal
  <2>1. CASE c # e
    BY <1>0, <1>4, <2>1 DEF ResumeReads, HoldInv, TypeOK
  <2>2. CASE c = e
    <3>1. PICK r \in Row : req' = [req EXCEPT ![c] = [NoReq EXCEPT !.pc = "resume", !.row = r]]
      BY <1>4, Zenon DEF ResumeReads
    <3>2. req'[e] = [NoReq EXCEPT !.pc = "resume", !.row = r]
      BY <2>2, <3>1 DEF HoldInv, TypeOK
    <3>3. QED BY <3>2, FreshRequests DEF RequestHolds
  <2>3. QED BY <2>1, <2>2
<1>5. ASSUME NEW c \in Caller, ResumeCalls(c) PROVE Goal
  <2>1. CASE c # e
    BY <1>0, <1>5, <2>1 DEF ResumeCalls, HoldInv, TypeOK
  <2>2. CASE c = e
    <3>1. req'[e] = NoReq \/ req'[e] = [req[c] EXCEPT !.pc = "requeue"]
      BY <1>5, <2>2 DEF ResumeCalls, HoldInv, TypeOK
    <3>2. QED BY <2>2, <3>1, Fields DEF RequestHolds, RequestState, NoReq, HoldInv
  <2>3. QED BY <2>1, <2>2
<1>6. ASSUME NEW c \in Caller, ResumePatches(c) PROVE Goal
  <2>1. CASE c # e
    BY <1>0, <1>6, <2>1 DEF ResumePatches, HoldInv, TypeOK
  <2>2. CASE c = e
    <3>1. CASE req' = [req EXCEPT ![c] = NoReq]
      BY <2>2, <3>1 DEF RequestHolds, NoReq, HoldInv, TypeOK
    <3>2. CASE req' = [req EXCEPT ![c] = [NoReq EXCEPT !.pc = "schedule", !.row = req[c].row]]
      <4>1. req'[e] = [NoReq EXCEPT !.pc = "schedule", !.row = req[c].row]
        BY <2>2, <3>2 DEF HoldInv, TypeOK
      <4>2. QED BY <4>1, FreshRequests DEF RequestHolds
    <3>3. QED BY <1>6, <3>1, <3>2 DEF ResumePatches
  <2>3. QED BY <2>1, <2>2
<1>7. ASSUME NEW c \in Caller, CancelReads(c) PROVE Goal
  <2>1. CASE c # e
    BY <1>0, <1>7, <2>1 DEF CancelReads, HoldInv, TypeOK
  <2>2. CASE c = e
    <3>1. PICK r \in Row : req' = [req EXCEPT ![c] = [NoReq EXCEPT !.pc = "cancel", !.row = r, !.prior = row[r].status]]
      BY <1>7, Zenon DEF CancelReads
    <3>2. req'[e] = [NoReq EXCEPT !.pc = "cancel", !.row = r, !.prior = row[r].status]
      BY <2>2, <3>1 DEF HoldInv, TypeOK
    <3>3. QED BY <3>2, FreshRequests DEF RequestHolds
  <2>3. QED BY <2>1, <2>2
<1>8. ASSUME NEW c \in Caller, CancelCalls(c) PROVE Goal
  <2>1. CASE c # e
    BY <1>0, <1>8, <2>1 DEF CancelCalls, HoldInv, TypeOK
  <2>2. CASE c = e
    <3>1. /\ eng[req[c].row] \in Status
          /\ req'[e] = [req[c] EXCEPT !.pc = "stamp",
                         !.seen = IF eng[req[c].row] \in InFlight \cup {"parked"}
                                  THEN "cancelled" ELSE eng[req[c].row]]
      BY <1>8, <2>2, Fields DEF CancelCalls, HoldInv, TypeOK
    <3>2. QED BY <2>2, <3>1, Fields DEF RequestHolds, RequestState, HoldInv, InFlight
  <2>3. QED BY <2>1, <2>2
<1>9. ASSUME NEW c \in Caller, CancelPatches(c) PROVE Goal
  <2>1. CASE c # e
    BY <1>0, <1>9, <2>1 DEF CancelPatches, HoldInv, TypeOK
  <2>2. CASE c = e
    <3>1. req'[e] = NoReq
      BY <1>9, <2>2 DEF CancelPatches, HoldInv, TypeOK
    <3>2. QED BY <3>1, FreshRequests DEF RequestHolds
  <2>3. QED BY <2>1, <2>2
<1>10. ASSUME NEW c \in Caller, RequestDies(c) PROVE Goal
  <2>1. CASE c # e
    BY <1>0, <1>10, <2>1 DEF RequestDies, HoldInv, TypeOK
  <2>2. CASE c = e
    <3>1. req'[e] = NoReq
      BY <1>10, <2>2 DEF RequestDies, HoldInv, TypeOK
    <3>2. QED BY <3>1, FreshRequests DEF RequestHolds
  <2>3. QED BY <2>1, <2>2
<1>11. ASSUME NEW d \in Driver,
            DriverOpens(d) \/ DriverReads(d) \/ DriverGivesUp(d)
            \/ DriverTicks(d) \/ DriverWrites(d) \/ DriverMails(d)
            \/ DriverFaults(d) \/ DriverRelabels(d) \/ DriverDies(d)
     PROVE  req' = req
  <2>1. CASE DriverOpens(d)
    BY <2>1 DEF DriverOpens, actors, history
  <2>2. CASE DriverReads(d)
    BY <2>2 DEF DriverReads, actors, history
  <2>3. CASE DriverGivesUp(d)
    BY <2>3 DEF DriverGivesUp, actors, history
  <2>4. CASE DriverTicks(d)
    BY <2>4 DEF DriverTicks, actors, history
  <2>5. CASE DriverWrites(d)
    BY <2>5 DEF DriverWrites, actors, history
  <2>6. CASE DriverMails(d)
    BY <2>6 DEF DriverMails, actors, history
  <2>7. CASE DriverFaults(d)
    BY <2>7 DEF DriverFaults, actors, history
  <2>8. CASE DriverRelabels(d)
    BY <2>8 DEF DriverRelabels, actors, history
  <2>9. CASE DriverDies(d)
    BY <2>9 DEF DriverDies, actors, history
  <2>10. QED BY <1>11, <2>1, <2>2, <2>3, <2>4, <2>5, <2>6, <2>7, <2>8, <2>9
<1>12. ASSUME NEW s \in Sweeper,
            SweepClaims(s) \/ SweepAsks(s) \/ SweepMirrors(s)
            \/ SweepClears(s) \/ SweepSwaps(s) \/ SweepMails(s)
            \/ SweepFaults(s) \/ SweepDies(s)
     PROVE  req' = req
  <2>1. CASE SweepClaims(s)
    BY <2>1 DEF SweepClaims, actors, history
  <2>2. CASE SweepAsks(s)
    BY <2>2 DEF SweepAsks, actors, history
  <2>3. CASE SweepMirrors(s)
    BY <2>3 DEF SweepMirrors, actors, history
  <2>4. CASE SweepClears(s)
    BY <2>4 DEF SweepClears, actors, history
  <2>5. CASE SweepSwaps(s)
    BY <2>5 DEF SweepSwaps, actors, history
  <2>6. CASE SweepMails(s)
    BY <2>6 DEF SweepMails, actors, history
  <2>7. CASE SweepFaults(s)
    BY <2>7 DEF SweepFaults, actors, history
  <2>8. CASE SweepDies(s)
    BY <2>8 DEF SweepDies, actors, history
  <2>9. QED BY <1>12, <2>1, <2>2, <2>3, <2>4, <2>5, <2>6, <2>7, <2>8
<1>13. ASSUME NEW r \in Row,
            LeaseEnds(r) \/ GoesStale(r) \/ EngineStarts(r)
            \/ EngineEnds(r)
     PROVE  req' = req
  <2>1. CASE LeaseEnds(r)
    BY <2>1 DEF LeaseEnds, actors, history
  <2>2. CASE GoesStale(r)
    BY <2>2 DEF GoesStale, actors, history
  <2>3. CASE EngineStarts(r)
    BY <2>3 DEF EngineStarts, actors, history
  <2>4. CASE EngineEnds(r)
    BY <2>4 DEF EngineEnds, actors, history
  <2>5. QED BY <1>13, <2>1, <2>2, <2>3, <2>4
<1>14. CASE IntakeMoves \/ UNCHANGED vars
  BY <1>0, <1>14 DEF IntakeMoves, vars, actors, history
<1>. HIDE DEF Goal
<1>15. ASSUME NEW c \in Caller,
            Request(c) \/ Serve(c) \/ RequestDies(c)
     PROVE  Goal
  BY <1>15, <1>0, <1>1, <1>2, <1>3, <1>4, <1>5, <1>6, <1>7, <1>8, <1>9, <1>10
     DEF Request, Serve
<1>16. ASSUME NEW d \in Driver,
            Drive(d) \/ DriverGivesUp(d) \/ DriverFaults(d) \/ DriverDies(d)
     PROVE  Goal
  BY <1>16, <1>0, <1>11 DEF Drive
<1>17. ASSUME NEW s \in Sweeper,
            Sweep(s) \/ SweepFaults(s) \/ SweepDies(s)
     PROVE  Goal
  BY <1>17, <1>0, <1>12 DEF Sweep
<1>18. ASSUME NEW r \in Row,
            LeaseEnds(r) \/ GoesStale(r) \/ EngineStarts(r) \/ EngineEnds(r)
     PROVE  Goal
  BY <1>18, <1>0, <1>13
<1>19. QED BY <1>14, <1>15, <1>16, <1>17, <1>18 DEF Next, Goal

(* A completion is mailed of a delivered row only.                         *)
LEMMA MailHolds ==
  ASSUME HoldInv, [Next]_vars
  PROVE  CompletionMailTrue'
<1>. DEFINE Goal == CompletionMailTrue'
<1>0. told' = told => Goal
  BY RowsKept DEF HoldInv, CompletionMailTrue
<1>1. ASSUME NEW q \in Row, NEW x \in Status, x = "completed" => row[q].delivered,
             told' = [told EXCEPT ![q] = @ \/ x = "completed"]
      PROVE  Goal
  <2>1. ASSUME NEW r \in Row, told'[r] PROVE row[r].delivered
    BY <1>1, <2>1 DEF HoldInv, TypeOK, CompletionMailTrue
  <2>2. QED BY <2>1, RowsKept DEF CompletionMailTrue
<1>2. ASSUME NEW d \in Driver, DriverMails(d) PROVE Goal
  <2>1. /\ drv[d].row \in Row /\ drv[d].seen \in Status
        /\ drv[d].seen = "completed" => row[drv[d].row].delivered
    BY <1>2, Fields DEF DriverMails, HoldInv, DriverHolds
  <2>2. \/ told' = told
        \/ told' = [told EXCEPT ![drv[d].row] = @ \/ drv[d].seen = "completed"]
    BY <1>2 DEF DriverMails, Mail
  <2>3. QED BY <1>0, <1>1, <2>1, <2>2
<1>3. ASSUME NEW s \in Sweeper, SweepMails(s) PROVE Goal
  <2>1. /\ swp[s].row \in Row /\ swp[s].seen \in Status
        /\ swp[s].seen = "completed" => row[swp[s].row].delivered
    BY <1>3, Fields DEF SweepMails, HoldInv, SweepHolds
  <2>2. \/ told' = told
        \/ told' = [told EXCEPT ![swp[s].row] = @ \/ swp[s].seen = "completed"]
    BY <1>3 DEF SweepMails, Mail
  <2>3. QED BY <1>0, <1>1, <2>1, <2>2
<1>4. ASSUME NEW c \in Caller,
            TriggerReads(c) \/ TriggerWrites(c) \/ Schedule(c)
            \/ ResumeReads(c) \/ ResumeCalls(c) \/ ResumePatches(c)
            \/ CancelReads(c) \/ CancelCalls(c) \/ CancelPatches(c)
            \/ RequestDies(c)
     PROVE  told' = told
  <2>1. CASE TriggerReads(c)
    BY <2>1 DEF TriggerReads, actors, history
  <2>2. CASE TriggerWrites(c)
    BY <2>2, Zenon DEF TriggerWrites, actors, history
  <2>3. CASE Schedule(c)
    BY <2>3 DEF Schedule, actors, history
  <2>4. CASE ResumeReads(c)
    BY <2>4 DEF ResumeReads, actors, history
  <2>5. CASE ResumeCalls(c)
    BY <2>5 DEF ResumeCalls, actors, history
  <2>6. CASE ResumePatches(c)
    BY <2>6 DEF ResumePatches, actors, history
  <2>7. CASE CancelReads(c)
    BY <2>7 DEF CancelReads, actors, history
  <2>8. CASE CancelCalls(c)
    BY <2>8 DEF CancelCalls, actors, history
  <2>9. CASE CancelPatches(c)
    BY <2>9 DEF CancelPatches, actors, history
  <2>10. CASE RequestDies(c)
    BY <2>10 DEF RequestDies, actors, history
  <2>11. QED BY <1>4, <2>1, <2>2, <2>3, <2>4, <2>5, <2>6, <2>7, <2>8, <2>9, <2>10
<1>5. ASSUME NEW d \in Driver,
            DriverOpens(d) \/ DriverReads(d) \/ DriverGivesUp(d)
            \/ DriverTicks(d) \/ DriverWrites(d) \/ DriverFaults(d)
            \/ DriverRelabels(d) \/ DriverDies(d)
     PROVE  told' = told
  <2>1. CASE DriverOpens(d)
    BY <2>1 DEF DriverOpens, actors, history
  <2>2. CASE DriverReads(d)
    BY <2>2 DEF DriverReads, actors, history
  <2>3. CASE DriverGivesUp(d)
    BY <2>3 DEF DriverGivesUp, actors, history
  <2>4. CASE DriverTicks(d)
    BY <2>4 DEF DriverTicks, actors, history
  <2>5. CASE DriverWrites(d)
    BY <2>5 DEF DriverWrites, actors, history
  <2>6. CASE DriverFaults(d)
    BY <2>6 DEF DriverFaults, actors, history
  <2>7. CASE DriverRelabels(d)
    BY <2>7 DEF DriverRelabels, actors, history
  <2>8. CASE DriverDies(d)
    BY <2>8 DEF DriverDies, actors, history
  <2>9. QED BY <1>5, <2>1, <2>2, <2>3, <2>4, <2>5, <2>6, <2>7, <2>8
<1>6. ASSUME NEW s \in Sweeper,
            SweepClaims(s) \/ SweepAsks(s) \/ SweepMirrors(s)
            \/ SweepClears(s) \/ SweepSwaps(s) \/ SweepFaults(s)
            \/ SweepDies(s)
     PROVE  told' = told
  <2>1. CASE SweepClaims(s)
    BY <2>1 DEF SweepClaims, actors, history
  <2>2. CASE SweepAsks(s)
    BY <2>2 DEF SweepAsks, actors, history
  <2>3. CASE SweepMirrors(s)
    BY <2>3 DEF SweepMirrors, actors, history
  <2>4. CASE SweepClears(s)
    BY <2>4 DEF SweepClears, actors, history
  <2>5. CASE SweepSwaps(s)
    BY <2>5 DEF SweepSwaps, actors, history
  <2>6. CASE SweepFaults(s)
    BY <2>6 DEF SweepFaults, actors, history
  <2>7. CASE SweepDies(s)
    BY <2>7 DEF SweepDies, actors, history
  <2>8. QED BY <1>6, <2>1, <2>2, <2>3, <2>4, <2>5, <2>6, <2>7
<1>7. ASSUME NEW r \in Row,
            LeaseEnds(r) \/ GoesStale(r) \/ EngineStarts(r)
            \/ EngineEnds(r)
     PROVE  told' = told
  <2>1. CASE LeaseEnds(r)
    BY <2>1 DEF LeaseEnds, actors, history
  <2>2. CASE GoesStale(r)
    BY <2>2 DEF GoesStale, actors, history
  <2>3. CASE EngineStarts(r)
    BY <2>3 DEF EngineStarts, actors, history
  <2>4. CASE EngineEnds(r)
    BY <2>4 DEF EngineEnds, actors, history
  <2>5. QED BY <1>7, <2>1, <2>2, <2>3, <2>4
<1>8. CASE IntakeMoves \/ UNCHANGED vars
  BY <1>0, <1>8 DEF IntakeMoves, vars, actors, history
<1>. HIDE DEF Goal
<1>9. ASSUME NEW c \in Caller,
            Request(c) \/ Serve(c) \/ RequestDies(c)
     PROVE  Goal
  BY <1>9, <1>0, <1>4 DEF Request, Serve
<1>10. ASSUME NEW d \in Driver,
            Drive(d) \/ DriverGivesUp(d) \/ DriverFaults(d) \/ DriverDies(d)
     PROVE  Goal
  BY <1>10, <1>0, <1>5, <1>2 DEF Drive
<1>11. ASSUME NEW s \in Sweeper,
            Sweep(s) \/ SweepFaults(s) \/ SweepDies(s)
     PROVE  Goal
  BY <1>11, <1>0, <1>6, <1>3 DEF Sweep
<1>12. ASSUME NEW r \in Row,
            LeaseEnds(r) \/ GoesStale(r) \/ EngineStarts(r) \/ EngineEnds(r)
     PROVE  Goal
  BY <1>12, <1>0, <1>7
<1>13. QED BY <1>8, <1>9, <1>10, <1>11, <1>12 DEF Next, Goal

(* Every step keeps what the actors hold.                                  *)
LEMMA HoldStep == HoldInv /\ [Next]_vars => HoldInv'
<1>. SUFFICES ASSUME HoldInv, [Next]_vars PROVE HoldInv'
  OBVIOUS
<1>1. TypeOK'
  BY TypeStep DEF HoldInv
<1>2. OneInFlight'
  BY RowsKept
<1>3. QED BY <1>1, <1>2, MailHolds, DriversHold, SweepsHold, RequestsHold DEF HoldInv

(* Nothing is held at the start.                                           *)
LEMMA HoldInit == Init => HoldInv
<1>. SUFFICES ASSUME Init PROVE HoldInv
  OBVIOUS
<1>1. OneInFlight /\ CompletionMailTrue
  BY Known DEF Init, OneInFlight, CompletionMailTrue, InFlight
<1>2. \A d \in Driver : DriverHolds(d)
  BY DEF Init, DriverHolds, Off
<1>3. \A s \in Sweeper : SweepHolds(s)
  BY DEF Init, SweepHolds, NoJob
<1>4. \A c \in Caller : RequestHolds(c)
  BY DEF Init, RequestHolds, NoReq
<1>5. QED BY <1>1, <1>2, <1>3, <1>4, TypeInit DEF HoldInv

(* The inductive invariant holds in every reachable state.                 *)
THEOREM HoldCorrect == Spec => []HoldInv
BY HoldInit, HoldStep, PTL DEF Spec

-----------------------------------------------------------------------------
(* However triggers, resumes, drivers and late sweeps interleave, no two   *)
(* rows of the intake are in flight together (the partial unique index).   *)
THEOREM OneInFlightHolds == Spec => []OneInFlight
<1>1. HoldInv => OneInFlight
  BY DEF HoldInv
<1>2. QED BY <1>1, HoldCorrect, PTL

(* A completion mail is never sent for a row without its report, its       *)
(* verdict and its bundle, whoever sends it and whatever died before.      *)
THEOREM CompletionMailTrueHolds == Spec => []CompletionMailTrue
<1>1. HoldInv => CompletionMailTrue
  BY DEF HoldInv
<1>2. QED BY <1>1, HoldCorrect, PTL

-----------------------------------------------------------------------------
(***************************************************************************)
(* A run nobody resumed ends once, and a delivered one is not relabelled   *)
(* failed, for every number of rows, drivers, sweeps and requests, when no *)
(* mirror UPDATE of a sweep is late.                                       *)
(*                                                                         *)
(* Four invariants, each resting on those before it: actors know what they *)
(* work on (KnowInv); one hand at a time on a row (HandInv); a row written *)
(* once is out of reach (FinalInv); what is written of a delivered row     *)
(* agrees with the engine (DeliveredInv).  Each is inductive by one case   *)
(* per action, argued from what the action leaves behind.                  *)
(***************************************************************************)

-----------------------------------------------------------------------------
(* What a step leaves behind, place by place: a driver, a sweep, a request *)
(* and a row after the step, the others as they were ...                   *)
DriverAt(d, pc, r, x) ==
  /\ \A e \in Driver : e # d => drv'[e] = drv[e]
  /\ drv'[d].pc = pc /\ drv'[d].row = r /\ drv'[d].seen = x
SweepAt(s, pc, r, was, x) ==
  /\ \A t \in Sweeper : t # s => swp'[t] = swp[t]
  /\ swp'[s].pc = pc /\ swp'[s].row = r /\ swp'[s].was = was
  /\ swp'[s].seen = x
RequestAt(c, pc, r, x) ==
  /\ \A k \in Caller : k # c => req'[k] = req[k]
  /\ req'[c].pc = pc /\ req'[c].row = r /\ req'[c].seen = x
EngineAt(r, x) ==
  /\ \A q \in Row : q # r => eng'[q] = eng[q]
  /\ eng'[r] = x
FinalAt(r) ==
  /\ \A q \in Row : q # r => finals'[q] = finals[q]
  /\ finals'[r] = finals[r] + 1
RowAt(r, status, eid, beat, delivered) ==
  /\ \A q \in Row : q # r => row'[q] = row[q]
  /\ row'[r].status = status /\ (row'[r].eid => eid)
  /\ (beat => row'[r].beat) /\ (row'[r].delivered => delivered)

(* ... a row with a new status, with a mirrored one, and ended.            *)
RowMarked(r, status) ==
  RowAt(r, status, row[r].eid, row[r].beat, row[r].delivered)
RowMirrored(r, status) == RowAt(r, status, TRUE, TRUE, row[r].delivered)
RowFinal(r, status) ==
  RowAt(r, status, row[r].eid, row[r].beat,
        row[r].delivered \/ status = "completed")

(* An actor that is free again.                                            *)
RequestIdle(c) == RequestAt(c, "idle", 1, "none")
SweepIdle(s)   == SweepAt(s, "idle", 1, "none", "none")
DriverOff(d)   == DriverAt(d, "off", 1, "none")

(* A trigger takes a request in hand ...                                   *)
LEMMA TriggerReadsLeaves ==
  ASSUME HoldInv, NEW c \in Caller, TriggerReads(c)
  PROVE  /\ RequestAt(c, "trigger", 1, "none")
         /\ UNCHANGED <<row, eng, drv, swp, resumes, finals>>
BY Fields, Known DEF TriggerReads, HoldInv, TypeOK, RequestAt, NoReq,
   RequestState, actors, history

(* ... makes a row of one that did not exist, or gives up ...              *)
LEMMA TriggerWritesLeaves ==
  ASSUME HoldInv, NEW c \in Caller, TriggerWrites(c)
  PROVE  /\ \/ \E r \in Row : /\ ~Exists(r) /\ RowMarked(r, "queued")
                               /\ RequestAt(c, "schedule", r, "none")
            \/ row' = row /\ RequestIdle(c)
         /\ UNCHANGED <<eng, drv, swp, resumes, finals>>
<1>. DEFINE Same == UNCHANGED <<eng, drv, swp, resumes, finals>>
<1>1. Same
  BY Zenon DEF TriggerWrites, history
<1>2. CASE req' = [req EXCEPT ![c] = NoReq] /\ row' = row
  BY <1>1, <1>2 DEF RequestIdle, RequestAt, NoReq, HoldInv, TypeOK
<1>3. ASSUME NEW r \in Row, NEW a \in Emails, ~Exists(r),
             row' = [row EXCEPT ![r] = Requested(@, a)],
             req' = [req EXCEPT ![c] = [NoReq EXCEPT !.pc = "schedule", !.row = r]]
      PROVE  RowMarked(r, "queued") /\ RequestAt(c, "schedule", r, "none")
  <2>1. RequestAt(c, "schedule", r, "none")
    BY <1>3 DEF RequestIdle, RequestAt, NoReq, HoldInv, TypeOK
  <2>2. RowMarked(r, "queued")
    BY <1>3, Fields, RequestedFields, MirrorAssumption DEF RowAt, RowMarked,
       HoldInv, TypeOK
  <2> QED BY <2>1, <2>2
<1>4. \/ req' = [req EXCEPT ![c] = NoReq] /\ row' = row
      \/ \E r \in Row, a \in Emails :
           /\ ~Exists(r) /\ row' = [row EXCEPT ![r] = Requested(@, a)]
           /\ req' = [req EXCEPT ![c] = [NoReq EXCEPT !.pc = "schedule", !.row = r]]
  BY Zenon DEF TriggerWrites
<1> QED BY <1>1, <1>2, <1>3, <1>4

(* ... and hands its row to a driver that was free.                        *)
LEMMA ScheduleLeaves ==
  ASSUME HoldInv, NEW c \in Caller, Schedule(c)
  PROVE  /\ req[c].pc = "schedule"
         /\ \E d \in Driver : drv[d].pc = "off" /\ DriverAt(d, "start", req[c].row, "none")
         /\ RequestIdle(c)
         /\ UNCHANGED <<row, eng, swp, resumes, finals>>
BY Fields, Known DEF Schedule, HoldInv, TypeOK, DriverAt, RequestIdle,
   RequestAt, NoReq, RequestState, Off, DriverState, actors, history

(* A resume takes a row that exists ...                                    *)
LEMMA ResumeReadsLeaves ==
  ASSUME HoldInv, NEW c \in Caller, ResumeReads(c)
  PROVE  /\ \E r \in Row : Exists(r) /\ RequestAt(c, "resume", r, "none")
         /\ UNCHANGED <<row, eng, drv, swp, resumes, finals>>
BY Fields, Known DEF ResumeReads, HoldInv, TypeOK, RequestAt, NoReq,
   RequestState, Latest, actors, history

(* ... requeues a parked run and counts it ...                             *)
LEMMA ResumeCallsLeaves ==
  ASSUME HoldInv, NEW c \in Caller, ResumeCalls(c)
  PROVE  /\ req[c].pc = "resume"
         /\ \/ /\ eng[req[c].row] = "parked" /\ EngineAt(req[c].row, "queued")
               /\ \A q \in Row : resumes'[q] = IF q = req[c].row THEN resumes[q] + 1 ELSE resumes[q]
               /\ RequestAt(c, "requeue", req[c].row, req[c].seen)
            \/ UNCHANGED <<eng, resumes>> /\ RequestIdle(c)
         /\ UNCHANGED <<row, drv, swp, finals>>
<1>1. req[c].pc = "resume" /\ UNCHANGED <<row, drv, swp, finals>>
  BY DEF ResumeCalls
<1>2. CASE req' = [req EXCEPT ![c] = NoReq] /\ UNCHANGED <<eng, resumes>>
  BY <1>1, <1>2 DEF RequestIdle, RequestAt, NoReq, HoldInv, TypeOK
<1>3. CASE /\ eng[req[c].row] = "parked"
           /\ eng' = [eng EXCEPT ![req[c].row] = "queued"]
           /\ resumes' = [resumes EXCEPT ![req[c].row] = @ + 1]
           /\ req' = [req EXCEPT ![c].pc = "requeue"]
  <2>1. RequestAt(c, "requeue", req[c].row, req[c].seen)
    BY <1>3, Fields DEF RequestIdle, RequestAt, RequestState, HoldInv, TypeOK
  <2>2. EngineAt(req[c].row, "queued")
    BY <1>3, Fields DEF EngineAt, HoldInv, TypeOK
  <2>3. \A q \in Row : resumes'[q] = IF q = req[c].row THEN resumes[q] + 1 ELSE resumes[q]
    BY <1>3, Fields DEF HoldInv, TypeOK
  <2> QED BY <1>1, <1>3, <2>1, <2>2, <2>3
<1> QED BY <1>1, <1>2, <1>3 DEF ResumeCalls

(* ... and requeues the row, on its way to a driver.                       *)
LEMMA ResumePatchesLeaves ==
  ASSUME HoldInv, NEW c \in Caller, ResumePatches(c)
  PROVE  /\ req[c].pc = "requeue"
         /\ \/ /\ RowMarked(req[c].row, "queued")
               /\ RequestAt(c, "schedule", req[c].row, "none")
            \/ row' = row /\ RequestIdle(c)
         /\ UNCHANGED <<eng, drv, swp, resumes, finals>>
<1>1. req[c].pc = "requeue" /\ UNCHANGED <<eng, drv, swp, resumes, finals>>
  BY DEF ResumePatches, history
<1>2. CASE req' = [req EXCEPT ![c] = NoReq] /\ row' = row
  BY <1>1, <1>2 DEF RequestIdle, RequestAt, NoReq, HoldInv, TypeOK
<1>3. CASE /\ \E a \in Emails : row' = [row EXCEPT ![req[c].row] = Requested(@, a)]
           /\ req' = [req EXCEPT ![c] = [NoReq EXCEPT !.pc = "schedule", !.row = req[c].row]]
  <2>1. RequestAt(c, "schedule", req[c].row, "none")
    BY <1>3 DEF RequestIdle, RequestAt, NoReq, HoldInv, TypeOK
  <2>2. RowMarked(req[c].row, "queued")
    BY <1>3, Fields, RequestedFields, MirrorAssumption DEF RowAt, RowMarked,
       HoldInv, TypeOK
  <2> QED BY <1>1, <2>1, <2>2
<1> QED BY <1>1, <1>2, <1>3 DEF ResumePatches

(* A cancel takes a row with a run ...                                     *)
LEMMA CancelReadsLeaves ==
  ASSUME HoldInv, NEW c \in Caller, CancelReads(c)
  PROVE  /\ \E r \in Row : Exists(r) /\ row[r].eid /\ RequestAt(c, "cancel", r, "none")
         /\ UNCHANGED <<row, eng, drv, swp, resumes, finals>>
BY Fields, Known DEF CancelReads, HoldInv, TypeOK, RequestAt, NoReq,
   RequestState, Latest, actors, history

(* ... ends what had not ended ...                                         *)
LEMMA CancelCallsLeaves ==
  ASSUME HoldInv, NEW c \in Caller, CancelCalls(c)
  PROVE  /\ req[c].pc = "cancel"
         /\ \E x \in Status :
               /\ \/ x = eng[req[c].row]
                  \/ eng[req[c].row] \in InFlight \cup {"parked"} /\ x = "cancelled"
               /\ EngineAt(req[c].row, x) /\ RequestAt(c, "stamp", req[c].row, x)
         /\ UNCHANGED <<row, drv, swp, resumes, finals>>
<1>. DEFINE now == IF eng[req[c].row] \in InFlight \cup {"parked"}
                   THEN "cancelled" ELSE eng[req[c].row]
<1>1. /\ req[c].pc = "cancel" /\ UNCHANGED <<row, drv, swp, resumes, finals>>
      /\ eng' = [eng EXCEPT ![req[c].row] = now]
      /\ req' = [req EXCEPT ![c].pc = "stamp", ![c].seen = now]
  BY DEF CancelCalls, history
<1>2. /\ now \in Status
      /\ \/ now = eng[req[c].row]
         \/ eng[req[c].row] \in InFlight \cup {"parked"} /\ now = "cancelled"
  <2>1. eng[req[c].row] \in Status
    BY Fields DEF HoldInv
  <2> QED BY <2>1, Known
<1>. HIDE DEF now
<1>3. EngineAt(req[c].row, now)
  BY <1>1, Fields DEF EngineAt, HoldInv, TypeOK
<1>4. RequestAt(c, "stamp", req[c].row, now)
  BY <1>1, <1>2, Fields DEF RequestAt, RequestState, HoldInv, TypeOK
<1> QED BY <1>1, <1>2, <1>3, <1>4

(* ... and echoes what it was told, or nothing.                            *)
LEMMA CancelPatchesLeaves ==
  ASSUME HoldInv, NEW c \in Caller, CancelPatches(c)
  PROVE  /\ req[c].pc = "stamp"
         /\ \E x \in {req[c].seen, row[req[c].row].status} :
               RowMarked(req[c].row, x)
         /\ RequestIdle(c)
         /\ UNCHANGED <<eng, drv, swp, resumes, finals>>
BY Fields, Known DEF CancelPatches, HoldInv, TypeOK, RequestIdle, RequestAt,
   RowAt, RowMarked, NoReq, RequestState, RowType, actors, history

(* A dead request leaves its row alone.                                    *)
LEMMA RequestDiesLeaves ==
  ASSUME HoldInv, NEW c \in Caller, RequestDies(c)
  PROVE  /\ RequestIdle(c)
         /\ UNCHANGED <<row, eng, drv, swp, resumes, finals>>
BY Fields, Known DEF RequestDies, HoldInv, TypeOK, RequestIdle, RequestAt,
   NoReq, RequestState, actors, history

(* A driver finds its run, or has it created ...                           *)
LEMMA DriverOpensLeaves ==
  ASSUME HoldInv, NEW d \in Driver, DriverOpens(d)
  PROVE  /\ drv[d].pc = "start"
         /\ \/ /\ EngineAt(drv[d].row, IF eng[drv[d].row] = "none" THEN "queued" ELSE eng[drv[d].row])
               /\ DriverAt(d, "poll", drv[d].row, drv[d].seen)
            \/ eng' = eng /\ DriverAt(d, "error", drv[d].row, drv[d].seen)
         /\ UNCHANGED <<row, swp, req, resumes, finals>>
<1>1. drv[d].pc = "start" /\ UNCHANGED <<row, swp, req, resumes, finals>>
  BY DEF DriverOpens, history
<1>2. CASE eng' = eng /\ Goes(d, "error")
  BY <1>1, <1>2, Fields DEF Goes, DriverAt, DriverState, HoldInv, TypeOK
<1>3. CASE /\ eng' = [eng EXCEPT ![drv[d].row] = IF @ = "none" THEN "queued" ELSE @]
           /\ Goes(d, "poll")
  <2>1. DriverAt(d, "poll", drv[d].row, drv[d].seen)
    BY <1>3, Fields DEF Goes, DriverAt, DriverState, HoldInv, TypeOK
  <2>2. EngineAt(drv[d].row, IF eng[drv[d].row] = "none" THEN "queued" ELSE eng[drv[d].row])
    BY <1>3, Fields DEF EngineAt, HoldInv, TypeOK
  <2> QED BY <1>1, <2>1, <2>2
<1> QED BY <1>1, <1>2, <1>3 DEF DriverOpens

(* ... carries away its status ...                                         *)
LEMMA DriverReadsLeaves ==
  ASSUME HoldInv, NEW d \in Driver, DriverReads(d)
  PROVE  /\ drv[d].pc = "poll"
         /\ DriverAt(d, "tick", drv[d].row, eng[drv[d].row])
         /\ UNCHANGED <<row, eng, swp, req, resumes, finals>>
BY Fields, Known DEF DriverReads, HoldInv, TypeOK, DriverAt, Off, DriverState,
   actors, history

(* ... or a failure of its own ...                                         *)
LEMMA DriverGivesUpLeaves ==
  ASSUME HoldInv, NEW d \in Driver, DriverGivesUp(d)
  PROVE  /\ drv[d].pc = "poll"
         /\ DriverAt(d, "write", drv[d].row, "failed")
         /\ UNCHANGED <<row, eng, swp, req, resumes, finals>>
BY Fields, Known DEF DriverGivesUp, HoldInv, TypeOK, DriverAt, Off,
   DriverState, actors, history

(* ... mirrors it, and goes on ...                                         *)
LEMMA DriverTicksLeaves ==
  ASSUME HoldInv, NEW d \in Driver, DriverTicks(d)
  PROVE  /\ drv[d].pc = "tick"
         /\ \/ /\ RowMirrored(drv[d].row, drv[d].seen)
               /\ \/ DriverAt(d, "write", drv[d].row, drv[d].seen)
                  \/ DriverAt(d, "poll", drv[d].row, "none")
            \/ row' = row /\ DriverAt(d, "error", drv[d].row, drv[d].seen)
         /\ UNCHANGED <<eng, swp, req, resumes, finals>>
<1>1. drv[d].pc = "tick" /\ UNCHANGED <<eng, swp, req, resumes, finals>>
  BY DEF DriverTicks, history
<1>2. Goes(d, "error") => DriverAt(d, "error", drv[d].row, drv[d].seen)
  BY Fields DEF Goes, DriverAt, DriverState, HoldInv, TypeOK
<1>3. Goes(d, "write") => DriverAt(d, "write", drv[d].row, drv[d].seen)
  BY Fields DEF Goes, DriverAt, DriverState, HoldInv, TypeOK
<1>4. drv' = [drv EXCEPT ![d].pc = "poll", ![d].seen = "none"] => DriverAt(d, "poll", drv[d].row, "none")
  BY Fields DEF DriverAt, DriverState, HoldInv, TypeOK
<1>5. row' = [row EXCEPT ![drv[d].row] = Mirrored(@, drv[d].seen)] => RowMirrored(drv[d].row, drv[d].seen)
  BY Fields, MirroredFields DEF RowAt, RowMirrored, HoldInv, TypeOK
<1> QED BY <1>1, <1>2, <1>3, <1>4, <1>5 DEF DriverTicks

(* ... ends the row ...                                                    *)
LEMMA DriverWritesLeaves ==
  ASSUME HoldInv, NEW d \in Driver, DriverWrites(d)
  PROVE  /\ drv[d].pc = "write"
         /\ RowFinal(drv[d].row, drv[d].seen)
         /\ FinalAt(drv[d].row)
         /\ DriverAt(d, "mail", drv[d].row, drv[d].seen)
         /\ UNCHANGED <<eng, swp, req, resumes>>
BY Fields, Known DEF DriverWrites, HoldInv, TypeOK, DriverAt, RowAt, RowFinal,
   FinalAt, Off, DriverState, RowType, Finalise, Finalised, Goes, actors,
   history

(* ... and is gone.                                                        *)
LEMMA DriverMailsLeaves ==
  ASSUME HoldInv, NEW d \in Driver, DriverMails(d)
  PROVE  /\ drv[d].pc = "mail"
         /\ DriverOff(d)
         /\ UNCHANGED <<row, eng, swp, req, resumes, finals>>
BY Fields, Known DEF DriverMails, HoldInv, TypeOK, DriverOff, DriverAt, Off,
   DriverState, Mail, Leaves, actors, history

(* An exception leaves the row to on_error ...                             *)
LEMMA DriverFaultsLeaves ==
  ASSUME HoldInv, NEW d \in Driver, DriverFaults(d)
  PROVE  /\ drv[d].pc \in {"start", "poll", "tick", "write"}
         /\ DriverAt(d, "error", drv[d].row, drv[d].seen)
         /\ UNCHANGED <<row, eng, swp, req, resumes, finals>>
BY Fields, Known DEF DriverFaults, HoldInv, TypeOK, DriverAt, Off,
   DriverState, Goes, actors, history

(* ... which fails it, if it can.                                          *)
LEMMA DriverRelabelsLeaves ==
  ASSUME HoldInv, NEW d \in Driver, DriverRelabels(d)
  PROVE  /\ drv[d].pc = "error"
         /\ DriverOff(d)
         /\ \/ RowMarked(drv[d].row, "failed") /\ FinalAt(drv[d].row)
            \/ UNCHANGED <<row, finals>>
         /\ UNCHANGED <<eng, swp, req, resumes>>
<1>1. drv[d].pc = "error" /\ UNCHANGED <<eng, swp, req, resumes>> /\ Leaves(d)
  BY DEF DriverRelabels
<1>2. DriverOff(d)
  BY <1>1, Fields DEF Leaves, Off, DriverOff, DriverAt, HoldInv, TypeOK
<1>3. ASSUME Finalise(drv[d].row, "failed", row[drv[d].row].lease)
      PROVE  RowMarked(drv[d].row, "failed") /\ FinalAt(drv[d].row)
  BY <1>3, Fields, Known DEF Finalise, Finalised, RowType, RowAt, RowMarked,
     FinalAt, HoldInv, TypeOK
<1> QED BY <1>1, <1>2, <1>3 DEF DriverRelabels

(* A dead driver leaves its row alone.                                     *)
LEMMA DriverDiesLeaves ==
  ASSUME HoldInv, NEW d \in Driver, DriverDies(d)
  PROVE  /\ DriverOff(d)
         /\ UNCHANGED <<row, eng, swp, req, resumes, finals>>
BY Fields, Known DEF DriverDies, HoldInv, TypeOK, DriverOff, DriverAt, Off,
   DriverState, Leaves, actors, history

(* A sweep claims a stale row in flight ...                                *)
LEMMA SweepClaimsLeaves ==
  ASSUME HoldInv, NEW s \in Sweeper, SweepClaims(s)
  PROVE  /\ \E r \in Row :
            /\ row[r].status \in InFlight /\ ~row[r].beat
            /\ RowMarked(r, row[r].status)
            /\ \/ swp' = swp
               \/ row[r].eid /\ SweepAt(s, "ask", r, row[r].status, "none")
         /\ UNCHANGED <<eng, drv, req, resumes, finals>>
BY Fields, Known DEF SweepClaims, HoldInv, TypeOK, SweepAt, RowAt, RowMarked,
   NoJob, SweepState, RowType, Orphaned, actors, history

(* ... carries away the status the engine gave ...                         *)
LEMMA SweepAsksLeaves ==
  ASSUME HoldInv, NEW s \in Sweeper, SweepAsks(s)
  PROVE  /\ swp[s].pc = "ask"
         /\ \/ eng[swp[s].row] \in Terminal /\ SweepAt(s, "swap", swp[s].row, swp[s].was, eng[swp[s].row])
            \/ eng[swp[s].row] \notin Terminal /\ SweepAt(s, "mirror", swp[s].row, swp[s].was, eng[swp[s].row])
         /\ UNCHANGED <<row, eng, drv, req, resumes, finals>>
BY Fields, Known DEF SweepAsks, HoldInv, TypeOK, SweepAt, NoJob, SweepState,
   actors, history

(* ... mirrors it, unless another row is in flight ...                     *)
LEMMA SweepMirrorsLeaves ==
  ASSUME HoldInv, NEW s \in Sweeper, SweepMirrors(s)
  PROVE  /\ swp[s].pc = "mirror"
         /\ \/ /\ RowMirrored(swp[s].row, swp[s].seen)
               /\ SweepAt(s, "clear", swp[s].row, "none", "none")
            \/ row' = row /\ SweepIdle(s)
         /\ UNCHANGED <<eng, drv, req, resumes, finals>>
<1>1. swp[s].pc = "mirror" /\ UNCHANGED <<eng, drv, req, resumes, finals>>
  BY DEF SweepMirrors, history
<1>2. swp' = [swp EXCEPT ![s] = NoJob] => SweepIdle(s)
  BY DEF NoJob, SweepIdle, SweepAt, HoldInv, TypeOK
<1>3. swp' = [swp EXCEPT ![s] = [NoJob EXCEPT !.pc = "clear", !.row = swp[s].row]]
        => SweepAt(s, "clear", swp[s].row, "none", "none")
  BY DEF NoJob, SweepIdle, SweepAt, HoldInv, TypeOK
<1>4. row' = [row EXCEPT ![swp[s].row] = Mirrored(@, swp[s].seen)] => RowMirrored(swp[s].row, swp[s].seen)
  BY Fields, MirroredFields DEF RowAt, RowMirrored, HoldInv, TypeOK
<1> QED BY <1>1, <1>2, <1>3, <1>4 DEF SweepMirrors

(* ... frees the lease ...                                                 *)
LEMMA SweepClearsLeaves ==
  ASSUME HoldInv, NEW s \in Sweeper, SweepClears(s)
  PROVE  /\ swp[s].pc = "clear"
         /\ RowMarked(swp[s].row, row[swp[s].row].status)
         /\ SweepIdle(s)
         /\ UNCHANGED <<eng, drv, req, resumes, finals>>
<1>1. /\ swp[s].pc = "clear" /\ UNCHANGED <<eng, drv, req, resumes, finals>>
      /\ swp' = [swp EXCEPT ![s] = NoJob]
  BY DEF SweepClears, history
<1>2. CASE row' = [row EXCEPT ![swp[s].row].lease = FALSE]
  <2>1. RowMarked(swp[s].row, row[swp[s].row].status)
    BY <1>2, Fields DEF RowAt, RowMarked, RowType, HoldInv, TypeOK
  <2> QED BY <1>1, <2>1 DEF SweepIdle, SweepAt, NoJob, HoldInv, TypeOK
<1>3. CASE row' = row
  BY <1>1, <1>3 DEF RowAt, RowMarked, SweepIdle, SweepAt, NoJob, HoldInv,
     TypeOK
<1> QED BY <1>2, <1>3 DEF SweepClears

(* ... or ends the row if it has not moved ...                             *)
LEMMA SweepSwapsLeaves ==
  ASSUME HoldInv, NEW s \in Sweeper, SweepSwaps(s)
  PROVE  /\ swp[s].pc = "swap"
         /\ \/ MirrorsLate
            \/ \A t \in Sweeper : swp[t].pc # "mirror" \/ swp[t].row # swp[s].row
         /\ \/ /\ row[swp[s].row].status = swp[s].was
               /\ RowFinal(swp[s].row, swp[s].seen)
               /\ FinalAt(swp[s].row)
               /\ SweepAt(s, "mail", swp[s].row, swp[s].was, swp[s].seen)
            \/ UNCHANGED <<row, finals>> /\ SweepIdle(s)
         /\ UNCHANGED <<eng, drv, req, resumes>>
<1>1. /\ swp[s].pc = "swap" /\ UNCHANGED <<eng, drv, req, resumes>>
      /\ \/ MirrorsLate
         \/ \A t \in Sweeper : swp[t].pc # "mirror" \/ swp[t].row # swp[s].row
  BY DEF SweepSwaps
<1>2. swp' = [swp EXCEPT ![s] = NoJob] => SweepIdle(s)
  BY DEF NoJob, SweepIdle, SweepAt, HoldInv, TypeOK
<1>3. swp' = [swp EXCEPT ![s].pc = "mail"] => SweepAt(s, "mail", swp[s].row, swp[s].was, swp[s].seen)
  BY Fields DEF SweepIdle, SweepAt, SweepState, HoldInv, TypeOK
<1>4. ASSUME Finalise(swp[s].row, swp[s].seen, FALSE)
      PROVE  RowFinal(swp[s].row, swp[s].seen) /\ FinalAt(swp[s].row)
  BY <1>4, Fields, Known DEF Finalise, Finalised, RowType, RowAt, RowFinal,
     FinalAt, HoldInv, TypeOK
<1> QED BY <1>1, <1>2, <1>3, <1>4 DEF SweepSwaps, Unmoved

(* ... and is done.                                                        *)
LEMMA SweepMailsLeaves ==
  ASSUME HoldInv, NEW s \in Sweeper, SweepMails(s)
  PROVE  /\ SweepIdle(s)
         /\ UNCHANGED <<row, eng, drv, req, resumes, finals>>
BY Fields, Known DEF SweepMails, HoldInv, TypeOK, SweepIdle, SweepAt, NoJob,
   SweepState, Mail, actors, history

(* A sweep that fails, or dies, leaves its row alone.                      *)
LEMMA SweepFaultsLeaves ==
  ASSUME HoldInv, NEW s \in Sweeper, SweepFaults(s)
  PROVE  /\ swp[s].pc # "idle"
         /\ SweepIdle(s) \/ SweepAt(s, "clear", swp[s].row, "none", "none")
         /\ UNCHANGED <<row, eng, drv, req, resumes, finals>>
<1>1. /\ swp[s].pc # "idle" /\ UNCHANGED <<row, eng, drv, req, resumes, finals>>
      /\ \/ swp' = [swp EXCEPT ![s] = NoJob]
         \/ swp' = [swp EXCEPT ![s] = [NoJob EXCEPT !.pc = "clear",
                                                    !.row = swp[s].row]]
  BY DEF SweepFaults, history
<1>2. swp' = [swp EXCEPT ![s] = NoJob] => SweepIdle(s)
  BY DEF NoJob, SweepIdle, SweepAt, HoldInv, TypeOK
<1>3. swp' = [swp EXCEPT ![s] = [NoJob EXCEPT !.pc = "clear", !.row = swp[s].row]]
        => SweepAt(s, "clear", swp[s].row, "none", "none")
  BY DEF NoJob, SweepAt, HoldInv, TypeOK
<1> QED BY <1>1, <1>2, <1>3

(* The same for a death.                                                   *)
LEMMA SweepDiesLeaves ==
  ASSUME HoldInv, NEW s \in Sweeper, SweepDies(s)
  PROVE  /\ SweepIdle(s)
         /\ UNCHANGED <<row, eng, drv, req, resumes, finals>>
BY Fields, Known DEF SweepDies, HoldInv, TypeOK, SweepIdle, SweepAt, NoJob,
   SweepState, actors, history

(* A lease's end changes nothing the invariants read.                      *)
LEMMA LeaseEndsLeaves ==
  ASSUME HoldInv, NEW r \in Row, LeaseEnds(r)
  PROVE  /\ RowMarked(r, row[r].status)
         /\ UNCHANGED <<eng, drv, swp, req, resumes, finals>>
BY Fields, Known DEF LeaseEnds, HoldInv, TypeOK, RowAt, RowMarked, RowType,
   actors, history

(* Only a row nobody is at work on goes stale.                             *)
LEMMA GoesStaleLeaves ==
  ASSUME HoldInv, NEW r \in Row, GoesStale(r)
  PROVE  /\ Exists(r)
         /\ ~Alive(r)
         /\ ~Coming(r)
         /\ RowAt(r, row[r].status, row[r].eid, FALSE, row[r].delivered)
         /\ UNCHANGED <<eng, drv, swp, req, resumes, finals>>
BY Fields, Known DEF GoesStale, HoldInv, TypeOK, RowAt, RowType, actors,
   history

(* The engine starts what is queued ...                                    *)
LEMMA EngineStartsLeaves ==
  ASSUME HoldInv, NEW r \in Row, EngineStarts(r)
  PROVE  /\ eng[r] = "queued"
         /\ EngineAt(r, "running")
         /\ UNCHANGED <<row, drv, swp, req, resumes, finals>>
BY Fields, Known DEF EngineStarts, HoldInv, TypeOK, EngineAt, actors, history

(* ... and ends what is running.                                           *)
LEMMA EngineEndsLeaves ==
  ASSUME HoldInv, NEW r \in Row, EngineEnds(r)
  PROVE  /\ eng[r] = "running"
         /\ \E x \in {"completed", "failed", "parked"} : EngineAt(r, x)
         /\ UNCHANGED <<row, drv, swp, req, resumes, finals>>
BY Fields, Known DEF EngineEnds, HoldInv, TypeOK, EngineAt, actors, history

-----------------------------------------------------------------------------
(* The types the cases below need.                                         *)
LEMMA Places ==
  ASSUME HoldInv
  PROVE  /\ \A r \in Row : /\ row[r].status \in Status /\ eng[r] \in Status
                           /\ resumes[r] \in Nat /\ finals[r] \in Nat
         /\ \A d \in Driver : drv[d].row \in Row /\ drv[d].seen \in Status
         /\ \A s \in Sweeper : swp[s].row \in Row /\ swp[s].seen \in Status
         /\ \A c \in Caller : req[c].row \in Row /\ req[c].seen \in Status
<1>1. /\ \A r \in Row : row[r].status \in Status /\ eng[r] \in Status
      /\ \A d \in Driver : drv[d].row \in Row /\ drv[d].seen \in Status
      /\ \A s \in Sweeper : swp[s].row \in Row /\ swp[s].seen \in Status
      /\ \A c \in Caller : req[c].row \in Row /\ req[c].seen \in Status
  BY Fields DEF HoldInv
<1>2. \A r \in Row : resumes[r] \in Nat /\ finals[r] \in Nat
  BY DEF HoldInv, TypeOK
<1> QED BY <1>1, <1>2

-----------------------------------------------------------------------------
(* Who is at work is at work on a row that exists, and where it counts     *)
(* knows of a run of the engine's.                                         *)
DriversKnow ==
  \A d \in Driver : drv[d].pc # "off" =>
    /\ Exists(drv[d].row)
    /\ drv[d].pc \in {"poll", "tick", "write"} => eng[drv[d].row] # "none"
    /\ drv[d].pc \in {"tick", "write", "mail"} => drv[d].seen # "none"
SweepsKnow ==
  \A s \in Sweeper : swp[s].pc # "idle" =>
    /\ Exists(swp[s].row)
    /\ swp[s].pc \in {"ask", "mirror"} => eng[swp[s].row] # "none"
    /\ swp[s].pc \in {"mirror", "swap"} => swp[s].seen # "none"
RequestsKnow ==
  \A c \in Caller : req[c].pc \notin {"idle", "trigger"} =>
    /\ Exists(req[c].row)
    /\ req[c].pc = "cancel" => eng[req[c].row] # "none"
    /\ req[c].pc = "stamp" => req[c].seen # "none"
    /\ req[c].pc = "requeue" => resumes[req[c].row] > 0
RowsKnow ==
  \A r \in Row :
    /\ row[r].eid => eng[r] # "none"
    /\ ~Exists(r) => row[r].beat /\ finals[r] = 0 /\ ~row[r].delivered
KnowInv == DriversKnow /\ SweepsKnow /\ RequestsKnow /\ RowsKnow

(* One hand: on a row nobody resumed there is one driver, or one request   *)
(* about to schedule it, and neither once the row went stale or a sweep    *)
(* has it.                                                                 *)
Scheduling(c, r) == req[c].pc = "schedule" /\ req[c].row = r
Swept(r) == \E s \in Sweeper : swp[s].pc # "idle" /\ swp[s].row = r
Left(r)  == ~Alive(r) /\ ~Coming(r)
OneHand(r) ==
  /\ \A d, e \in Driver : Driving(d, r) /\ Driving(e, r) => d = e
  /\ \A c, k \in Caller : Scheduling(c, r) /\ Scheduling(k, r) => c = k
  /\ ~(Alive(r) /\ Coming(r))
HandInv ==
  \A r \in Row : resumes[r] = 0 =>
    OneHand(r) /\ (~row[r].beat \/ Swept(r) => Left(r))

(* Out of reach: a row written once is not in flight, so the swap of a     *)
(* second sweep fails; no mirror is on its way to it, no driver before its *)
(* write and no request before its driver.                                 *)
Ended(r) ==
  /\ finals[r] = 1 /\ row[r].status \notin InFlight
  /\ \A s \in Sweeper : swp[s].row = r =>
       /\ swp[s].pc # "mirror"
       /\ swp[s].pc = "ask" => eng[r] \in Terminal
FinalInv ==
  \A r \in Row : resumes[r] = 0 =>
    /\ finals[r] > 0 => Ended(r)
    /\ \A d \in Driver : Driving(d, r) /\ drv[d].pc # "mail" => finals[r] = 0
    /\ Coming(r) => finals[r] = 0
    /\ \A s \in Sweeper :
         swp[s].row = r /\ swp[s].pc \in {"ask", "mirror", "swap"} =>
           /\ swp[s].was \in InFlight
           /\ swp[s].pc = "swap" => eng[r] \in Terminal

(* A completion or a failure that is about to be written is the engine's,  *)
(* and the engine never takes a completion or a failure back.              *)
Tells(r, x) == x = "completed" => eng[r] = "completed"
DeliveredInv ==
  /\ \A r \in Row : resumes[r] = 0 /\ row[r].delivered =>
       finals[r] > 0 /\ eng[r] = "completed" /\ row[r].status # "failed"
  /\ \A d \in Driver :
       drv[d].pc \in {"tick", "write"} => Tells(drv[d].row, drv[d].seen)
  /\ \A s \in Sweeper : swp[s].pc = "swap" => Tells(swp[s].row, swp[s].seen)
  /\ \A c \in Caller :
       req[c].pc = "stamp" /\ req[c].seen = "failed" => eng[req[c].row] = "failed"

-----------------------------------------------------------------------------
(* Rows, runs and resumes never go back to not existing.                   *)
LEMMA KnowStep ==
  ASSUME HoldInv, KnowInv, [Next]_vars
  PROVE  KnowInv'
<1> USE DEF KnowInv, DriversKnow, SweepsKnow, RequestsKnow, RowsKnow, Exists
<1>1. ASSUME NEW c \in Caller, TriggerReads(c) PROVE KnowInv'
  BY <1>1, TriggerReadsLeaves, Places, Known DEF RequestAt
<1>2. ASSUME NEW c \in Caller, TriggerWrites(c) PROVE KnowInv'
  BY <1>2, TriggerWritesLeaves, Places, Known DEF RequestIdle, RequestAt,
     RowMarked, RowAt
<1>3. ASSUME NEW c \in Caller, Schedule(c) PROVE KnowInv'
  BY <1>3, ScheduleLeaves, Places, Known DEF RequestIdle, RequestAt, DriverAt
<1>4. ASSUME NEW c \in Caller, ResumeReads(c) PROVE KnowInv'
  BY <1>4, ResumeReadsLeaves, Places, Known DEF RequestAt
<1>5. ASSUME NEW c \in Caller, ResumeCalls(c) PROVE KnowInv'
  BY <1>5, ResumeCallsLeaves, Places, Known DEF RequestIdle, RequestAt,
     EngineAt
<1>6. ASSUME NEW c \in Caller, ResumePatches(c) PROVE KnowInv'
  BY <1>6, ResumePatchesLeaves, Places, Known DEF RequestIdle, RequestAt,
     RowMarked, RowAt
<1>7. ASSUME NEW c \in Caller, CancelReads(c) PROVE KnowInv'
  BY <1>7, CancelReadsLeaves, Places, Known DEF RequestAt
<1>8. ASSUME NEW c \in Caller, CancelCalls(c) PROVE KnowInv'
  BY <1>8, CancelCallsLeaves, Places, Known DEF RequestAt, EngineAt
<1>9. ASSUME NEW c \in Caller, CancelPatches(c) PROVE KnowInv'
  BY <1>9, CancelPatchesLeaves, Places, Known DEF RequestIdle, RequestAt,
     RowMarked, RowAt
<1>10. ASSUME NEW c \in Caller, RequestDies(c) PROVE KnowInv'
  BY <1>10, RequestDiesLeaves, Places, Known DEF RequestIdle, RequestAt
<1>11. ASSUME NEW d \in Driver, DriverOpens(d) PROVE KnowInv'
  BY <1>11, DriverOpensLeaves, Places, Known DEF DriverAt, EngineAt
<1>12. ASSUME NEW d \in Driver, DriverReads(d) PROVE KnowInv'
  BY <1>12, DriverReadsLeaves, Places, Known DEF DriverAt
<1>13. ASSUME NEW d \in Driver, DriverGivesUp(d) PROVE KnowInv'
  BY <1>13, DriverGivesUpLeaves, Places, Known DEF DriverAt
<1>14. ASSUME NEW d \in Driver, DriverTicks(d) PROVE KnowInv'
  BY <1>14, DriverTicksLeaves, Places, Known DEF DriverAt, RowMirrored, RowAt
<1>15. ASSUME NEW d \in Driver, DriverWrites(d) PROVE KnowInv'
  BY <1>15, DriverWritesLeaves, Places, Known DEF DriverAt, FinalAt, RowFinal,
     RowAt
<1>16. ASSUME NEW d \in Driver, DriverMails(d) PROVE KnowInv'
  BY <1>16, DriverMailsLeaves, Places, Known DEF DriverOff, DriverAt
<1>17. ASSUME NEW d \in Driver, DriverFaults(d) PROVE KnowInv'
  BY <1>17, DriverFaultsLeaves, Places, Known DEF DriverAt
<1>18. ASSUME NEW d \in Driver, DriverRelabels(d) PROVE KnowInv'
  BY <1>18, DriverRelabelsLeaves, Places, Known DEF DriverOff, DriverAt,
     FinalAt, RowMarked, RowAt
<1>19. ASSUME NEW d \in Driver, DriverDies(d) PROVE KnowInv'
  BY <1>19, DriverDiesLeaves, Places, Known DEF DriverOff, DriverAt
<1>20. ASSUME NEW s \in Sweeper, SweepClaims(s) PROVE KnowInv'
  BY <1>20, SweepClaimsLeaves, Places, Known DEF SweepAt, RowMarked, RowAt
<1>21. ASSUME NEW s \in Sweeper, SweepAsks(s) PROVE KnowInv'
  BY <1>21, SweepAsksLeaves, Places, Known DEF SweepAt
<1>22. ASSUME NEW s \in Sweeper, SweepMirrors(s) PROVE KnowInv'
  BY <1>22, SweepMirrorsLeaves, Places, Known DEF SweepIdle, SweepAt,
     RowMirrored, RowAt
<1>23. ASSUME NEW s \in Sweeper, SweepClears(s) PROVE KnowInv'
  BY <1>23, SweepClearsLeaves, Places, Known DEF SweepIdle, SweepAt,
     RowMarked, RowAt
<1>24. ASSUME NEW s \in Sweeper, SweepSwaps(s) PROVE KnowInv'
  BY <1>24, SweepSwapsLeaves, Places, Known DEF SweepIdle, SweepAt, FinalAt,
     RowFinal, RowAt
<1>25. ASSUME NEW s \in Sweeper, SweepMails(s) PROVE KnowInv'
  BY <1>25, SweepMailsLeaves, Places, Known DEF SweepIdle, SweepAt
<1>26. ASSUME NEW s \in Sweeper, SweepFaults(s) PROVE KnowInv'
  BY <1>26, SweepFaultsLeaves, Places, Known DEF SweepIdle, SweepAt
<1>27. ASSUME NEW s \in Sweeper, SweepDies(s) PROVE KnowInv'
  BY <1>27, SweepDiesLeaves, Places, Known DEF SweepIdle, SweepAt
<1>28. ASSUME NEW r \in Row, LeaseEnds(r) PROVE KnowInv'
  BY <1>28, LeaseEndsLeaves, Places, Known DEF RowMarked, RowAt
<1>29. ASSUME NEW r \in Row, GoesStale(r) PROVE KnowInv'
  BY <1>29, GoesStaleLeaves, Places, Known DEF RowAt
<1>30. ASSUME NEW r \in Row, EngineStarts(r) PROVE KnowInv'
  BY <1>30, EngineStartsLeaves, Places, Known DEF EngineAt
<1>31. ASSUME NEW r \in Row, EngineEnds(r) PROVE KnowInv'
  BY <1>31, EngineEndsLeaves, Places, Known DEF EngineAt
<1>32. CASE IntakeMoves \/ UNCHANGED vars
  BY <1>32 DEF IntakeMoves, vars, actors, history
<1> HIDE DEF KnowInv, DriversKnow, SweepsKnow, RequestsKnow, RowsKnow, Exists
<1>33. ASSUME NEW c \in Caller,
             Request(c) \/ Serve(c) \/ RequestDies(c)
      PROVE  KnowInv'
  BY <1>33, <1>1, <1>2, <1>3, <1>4, <1>5, <1>6, <1>7, <1>8, <1>9, <1>10 DEF
     Request, Serve
<1>34. ASSUME NEW d \in Driver,
             Drive(d) \/ DriverGivesUp(d) \/ DriverFaults(d) \/ DriverDies(d)
      PROVE  KnowInv'
  BY <1>34, <1>11, <1>12, <1>13, <1>14, <1>15, <1>16, <1>17, <1>18, <1>19 DEF
     Drive
<1>35. ASSUME NEW s \in Sweeper,
             Sweep(s) \/ SweepFaults(s) \/ SweepDies(s)
      PROVE  KnowInv'
  BY <1>35, <1>20, <1>21, <1>22, <1>23, <1>24, <1>25, <1>26, <1>27 DEF Sweep
<1>36. ASSUME NEW r \in Row,
             LeaseEnds(r) \/ GoesStale(r) \/ EngineStarts(r) \/ EngineEnds(r)
      PROVE  KnowInv'
  BY <1>36, <1>28, <1>29, <1>30, <1>31
<1> QED BY <1>32, <1>33, <1>34, <1>35, <1>36 DEF Next

(* A row is born with its request, and the request becomes its driver; only *)
(* a row nobody is at work on goes stale, and only a stale one is claimed. *)
LEMMA HandStep ==
  ASSUME HoldInv, KnowInv, HandInv, [Next]_vars
  PROVE  HandInv'
<1> USE DEF HandInv, OneHand, Left, Scheduling, Swept, Driving, Alive, Coming,
    KnowInv, DriversKnow, SweepsKnow, RequestsKnow, RowsKnow, Exists
<1>1. ASSUME NEW c \in Caller, TriggerReads(c) PROVE HandInv'
  BY <1>1, TriggerReadsLeaves, Places, Known DEF RequestAt
<1>2. ASSUME NEW c \in Caller, TriggerWrites(c) PROVE HandInv'
  BY <1>2, TriggerWritesLeaves, Places, Known DEF RequestIdle, RequestAt,
     RowMarked, RowAt
<1>3. ASSUME NEW c \in Caller, Schedule(c) PROVE HandInv'
  BY <1>3, ScheduleLeaves, Places, Known DEF RequestIdle, RequestAt, DriverAt
<1>4. ASSUME NEW c \in Caller, ResumeReads(c) PROVE HandInv'
  BY <1>4, ResumeReadsLeaves, Places, Known DEF RequestAt
<1>5. ASSUME NEW c \in Caller, ResumeCalls(c) PROVE HandInv'
  BY <1>5, ResumeCallsLeaves, Places, Known DEF RequestIdle, RequestAt,
     EngineAt
<1>6. ASSUME NEW c \in Caller, ResumePatches(c) PROVE HandInv'
  BY <1>6, ResumePatchesLeaves, Places, Known DEF RequestIdle, RequestAt,
     RowMarked, RowAt
<1>7. ASSUME NEW c \in Caller, CancelReads(c) PROVE HandInv'
  BY <1>7, CancelReadsLeaves, Places, Known DEF RequestAt
<1>8. ASSUME NEW c \in Caller, CancelCalls(c) PROVE HandInv'
  BY <1>8, CancelCallsLeaves, Places, Known DEF RequestAt, EngineAt
<1>9. ASSUME NEW c \in Caller, CancelPatches(c) PROVE HandInv'
  BY <1>9, CancelPatchesLeaves, Places, Known DEF RequestIdle, RequestAt,
     RowMarked, RowAt
<1>10. ASSUME NEW c \in Caller, RequestDies(c) PROVE HandInv'
  BY <1>10, RequestDiesLeaves, Places, Known DEF RequestIdle, RequestAt
<1>11. ASSUME NEW d \in Driver, DriverOpens(d) PROVE HandInv'
  BY <1>11, DriverOpensLeaves, Places, Known DEF DriverAt, EngineAt
<1>12. ASSUME NEW d \in Driver, DriverReads(d) PROVE HandInv'
  BY <1>12, DriverReadsLeaves, Places, Known DEF DriverAt
<1>13. ASSUME NEW d \in Driver, DriverGivesUp(d) PROVE HandInv'
  BY <1>13, DriverGivesUpLeaves, Places, Known DEF DriverAt
<1>14. ASSUME NEW d \in Driver, DriverTicks(d) PROVE HandInv'
  BY <1>14, DriverTicksLeaves, Places, Known DEF DriverAt, RowMirrored, RowAt
<1>15. ASSUME NEW d \in Driver, DriverWrites(d) PROVE HandInv'
  BY <1>15, DriverWritesLeaves, Places, Known DEF DriverAt, FinalAt, RowFinal,
     RowAt
<1>16. ASSUME NEW d \in Driver, DriverMails(d) PROVE HandInv'
  BY <1>16, DriverMailsLeaves, Places, Known DEF DriverOff, DriverAt
<1>17. ASSUME NEW d \in Driver, DriverFaults(d) PROVE HandInv'
  BY <1>17, DriverFaultsLeaves, Places, Known DEF DriverAt
<1>18. ASSUME NEW d \in Driver, DriverRelabels(d) PROVE HandInv'
  BY <1>18, DriverRelabelsLeaves, Places, Known DEF DriverOff, DriverAt,
     FinalAt, RowMarked, RowAt
<1>19. ASSUME NEW d \in Driver, DriverDies(d) PROVE HandInv'
  BY <1>19, DriverDiesLeaves, Places, Known DEF DriverOff, DriverAt
<1>20. ASSUME NEW s \in Sweeper, SweepClaims(s) PROVE HandInv'
  BY <1>20, SweepClaimsLeaves, Places, Known DEF SweepAt, RowMarked, RowAt
<1>21. ASSUME NEW s \in Sweeper, SweepAsks(s) PROVE HandInv'
  BY <1>21, SweepAsksLeaves, Places, Known DEF SweepAt
<1>22. ASSUME NEW s \in Sweeper, SweepMirrors(s) PROVE HandInv'
  BY <1>22, SweepMirrorsLeaves, Places, Known DEF SweepIdle, SweepAt,
     RowMirrored, RowAt
<1>23. ASSUME NEW s \in Sweeper, SweepClears(s) PROVE HandInv'
  BY <1>23, SweepClearsLeaves, Places, Known DEF SweepIdle, SweepAt,
     RowMarked, RowAt
<1>24. ASSUME NEW s \in Sweeper, SweepSwaps(s) PROVE HandInv'
  BY <1>24, SweepSwapsLeaves, Places, Known DEF SweepIdle, SweepAt, FinalAt,
     RowFinal, RowAt
<1>25. ASSUME NEW s \in Sweeper, SweepMails(s) PROVE HandInv'
  BY <1>25, SweepMailsLeaves, Places, Known DEF SweepIdle, SweepAt
<1>26. ASSUME NEW s \in Sweeper, SweepFaults(s) PROVE HandInv'
  BY <1>26, SweepFaultsLeaves, Places, Known DEF SweepIdle, SweepAt
<1>27. ASSUME NEW s \in Sweeper, SweepDies(s) PROVE HandInv'
  BY <1>27, SweepDiesLeaves, Places, Known DEF SweepIdle, SweepAt
<1>28. ASSUME NEW r \in Row, LeaseEnds(r) PROVE HandInv'
  BY <1>28, LeaseEndsLeaves, Places, Known DEF RowMarked, RowAt
<1>29. ASSUME NEW r \in Row, GoesStale(r) PROVE HandInv'
  BY <1>29, GoesStaleLeaves, Places, Known DEF RowAt
<1>30. ASSUME NEW r \in Row, EngineStarts(r) PROVE HandInv'
  BY <1>30, EngineStartsLeaves, Places, Known DEF EngineAt
<1>31. ASSUME NEW r \in Row, EngineEnds(r) PROVE HandInv'
  BY <1>31, EngineEndsLeaves, Places, Known DEF EngineAt
<1>32. CASE IntakeMoves \/ UNCHANGED vars
  BY <1>32 DEF IntakeMoves, vars, actors, history
<1> HIDE DEF HandInv, OneHand, Left, Scheduling, Swept, Driving, Alive,
    Coming, KnowInv, DriversKnow, SweepsKnow, RequestsKnow, RowsKnow, Exists
<1>33. ASSUME NEW c \in Caller,
             Request(c) \/ Serve(c) \/ RequestDies(c)
      PROVE  HandInv'
  BY <1>33, <1>1, <1>2, <1>3, <1>4, <1>5, <1>6, <1>7, <1>8, <1>9, <1>10 DEF
     Request, Serve
<1>34. ASSUME NEW d \in Driver,
             Drive(d) \/ DriverGivesUp(d) \/ DriverFaults(d) \/ DriverDies(d)
      PROVE  HandInv'
  BY <1>34, <1>11, <1>12, <1>13, <1>14, <1>15, <1>16, <1>17, <1>18, <1>19 DEF
     Drive
<1>35. ASSUME NEW s \in Sweeper,
             Sweep(s) \/ SweepFaults(s) \/ SweepDies(s)
      PROVE  HandInv'
  BY <1>35, <1>20, <1>21, <1>22, <1>23, <1>24, <1>25, <1>26, <1>27 DEF Sweep
<1>36. ASSUME NEW r \in Row,
             LeaseEnds(r) \/ GoesStale(r) \/ EngineStarts(r) \/ EngineEnds(r)
      PROVE  HandInv'
  BY <1>36, <1>28, <1>29, <1>30, <1>31
<1> QED BY <1>32, <1>33, <1>34, <1>35, <1>36 DEF Next

(* A driver that writes is the only hand; a sweep that swaps found the row *)
(* in flight, so nobody had written it, and no mirror is on its way.       *)
LEMMA FinalStep ==
  ASSUME HoldInv, ~MirrorsLate, KnowInv, HandInv, FinalInv, [Next]_vars
  PROVE  FinalInv'
<1> USE DEF FinalInv, Ended, InFlight, Terminal, HoldInv, DriverHolds,
    SweepHolds, RequestHolds, HandInv, OneHand, Left, Scheduling, Swept,
    Driving, Alive, Coming, KnowInv, DriversKnow, SweepsKnow, RequestsKnow,
    RowsKnow, Exists
<1>1. ASSUME NEW c \in Caller, TriggerReads(c) PROVE FinalInv'
  BY <1>1, TriggerReadsLeaves, Places, Known DEF RequestAt
<1>2. ASSUME NEW c \in Caller, TriggerWrites(c) PROVE FinalInv'
  BY <1>2, TriggerWritesLeaves, Places, Known DEF RequestIdle, RequestAt,
     RowMarked, RowAt
<1>3. ASSUME NEW c \in Caller, Schedule(c) PROVE FinalInv'
  BY <1>3, ScheduleLeaves, Places, Known DEF RequestIdle, RequestAt, DriverAt
<1>4. ASSUME NEW c \in Caller, ResumeReads(c) PROVE FinalInv'
  BY <1>4, ResumeReadsLeaves, Places, Known DEF RequestAt
<1>5. ASSUME NEW c \in Caller, ResumeCalls(c) PROVE FinalInv'
  BY <1>5, ResumeCallsLeaves, Places, Known DEF RequestIdle, RequestAt,
     EngineAt
<1>6. ASSUME NEW c \in Caller, ResumePatches(c) PROVE FinalInv'
  BY <1>6, ResumePatchesLeaves, Places, Known DEF RequestIdle, RequestAt,
     RowMarked, RowAt
<1>7. ASSUME NEW c \in Caller, CancelReads(c) PROVE FinalInv'
  BY <1>7, CancelReadsLeaves, Places, Known DEF RequestAt
<1>8. ASSUME NEW c \in Caller, CancelCalls(c) PROVE FinalInv'
  BY <1>8, CancelCallsLeaves, Places, Known DEF RequestAt, EngineAt
<1>9. ASSUME NEW c \in Caller, CancelPatches(c) PROVE FinalInv'
  BY <1>9, CancelPatchesLeaves, Places, Known DEF RequestIdle, RequestAt,
     RowMarked, RowAt
<1>10. ASSUME NEW c \in Caller, RequestDies(c) PROVE FinalInv'
  BY <1>10, RequestDiesLeaves, Places, Known DEF RequestIdle, RequestAt
<1>11. ASSUME NEW d \in Driver, DriverOpens(d) PROVE FinalInv'
  BY <1>11, DriverOpensLeaves, Places, Known DEF DriverAt, EngineAt
<1>12. ASSUME NEW d \in Driver, DriverReads(d) PROVE FinalInv'
  BY <1>12, DriverReadsLeaves, Places, Known DEF DriverAt
<1>13. ASSUME NEW d \in Driver, DriverGivesUp(d) PROVE FinalInv'
  BY <1>13, DriverGivesUpLeaves, Places, Known DEF DriverAt
<1>14. ASSUME NEW d \in Driver, DriverTicks(d) PROVE FinalInv'
  BY <1>14, DriverTicksLeaves, Places, Known DEF DriverAt, RowMirrored, RowAt
<1>15. ASSUME NEW d \in Driver, DriverWrites(d) PROVE FinalInv'
  BY <1>15, DriverWritesLeaves, Places, Known DEF DriverAt, FinalAt, RowFinal,
     RowAt
<1>16. ASSUME NEW d \in Driver, DriverMails(d) PROVE FinalInv'
  BY <1>16, DriverMailsLeaves, Places, Known DEF DriverOff, DriverAt
<1>17. ASSUME NEW d \in Driver, DriverFaults(d) PROVE FinalInv'
  BY <1>17, DriverFaultsLeaves, Places, Known DEF DriverAt
<1>18. ASSUME NEW d \in Driver, DriverRelabels(d) PROVE FinalInv'
  BY <1>18, DriverRelabelsLeaves, Places, Known DEF DriverOff, DriverAt,
     FinalAt, RowMarked, RowAt
<1>19. ASSUME NEW d \in Driver, DriverDies(d) PROVE FinalInv'
  BY <1>19, DriverDiesLeaves, Places, Known DEF DriverOff, DriverAt
<1>20. ASSUME NEW s \in Sweeper, SweepClaims(s) PROVE FinalInv'
  BY <1>20, SweepClaimsLeaves, Places, Known DEF SweepAt, RowMarked, RowAt
<1>21. ASSUME NEW s \in Sweeper, SweepAsks(s) PROVE FinalInv'
  BY <1>21, SweepAsksLeaves, Places, Known DEF SweepAt
<1>22. ASSUME NEW s \in Sweeper, SweepMirrors(s) PROVE FinalInv'
  BY <1>22, SweepMirrorsLeaves, Places, Known DEF SweepIdle, SweepAt,
     RowMirrored, RowAt
<1>23. ASSUME NEW s \in Sweeper, SweepClears(s) PROVE FinalInv'
  BY <1>23, SweepClearsLeaves, Places, Known DEF SweepIdle, SweepAt,
     RowMarked, RowAt
<1>24. ASSUME NEW s \in Sweeper, SweepSwaps(s) PROVE FinalInv'
  BY <1>24, SweepSwapsLeaves, Places, Known DEF SweepIdle, SweepAt, FinalAt,
     RowFinal, RowAt
<1>25. ASSUME NEW s \in Sweeper, SweepMails(s) PROVE FinalInv'
  BY <1>25, SweepMailsLeaves, Places, Known DEF SweepIdle, SweepAt
<1>26. ASSUME NEW s \in Sweeper, SweepFaults(s) PROVE FinalInv'
  BY <1>26, SweepFaultsLeaves, Places, Known DEF SweepIdle, SweepAt
<1>27. ASSUME NEW s \in Sweeper, SweepDies(s) PROVE FinalInv'
  BY <1>27, SweepDiesLeaves, Places, Known DEF SweepIdle, SweepAt
<1>28. ASSUME NEW r \in Row, LeaseEnds(r) PROVE FinalInv'
  BY <1>28, LeaseEndsLeaves, Places, Known DEF RowMarked, RowAt
<1>29. ASSUME NEW r \in Row, GoesStale(r) PROVE FinalInv'
  BY <1>29, GoesStaleLeaves, Places, Known DEF RowAt
<1>30. ASSUME NEW r \in Row, EngineStarts(r) PROVE FinalInv'
  BY <1>30, EngineStartsLeaves, Places, Known DEF EngineAt
<1>31. ASSUME NEW r \in Row, EngineEnds(r) PROVE FinalInv'
  BY <1>31, EngineEndsLeaves, Places, Known DEF EngineAt
<1>32. CASE IntakeMoves \/ UNCHANGED vars
  BY <1>32 DEF IntakeMoves, vars, actors, history
<1> HIDE DEF FinalInv, Ended, InFlight, Terminal, HoldInv, DriverHolds,
    SweepHolds, RequestHolds, HandInv, OneHand, Left, Scheduling, Swept,
    Driving, Alive, Coming, KnowInv, DriversKnow, SweepsKnow, RequestsKnow,
    RowsKnow, Exists
<1>33. ASSUME NEW c \in Caller,
             Request(c) \/ Serve(c) \/ RequestDies(c)
      PROVE  FinalInv'
  BY <1>33, <1>1, <1>2, <1>3, <1>4, <1>5, <1>6, <1>7, <1>8, <1>9, <1>10 DEF
     Request, Serve
<1>34. ASSUME NEW d \in Driver,
             Drive(d) \/ DriverGivesUp(d) \/ DriverFaults(d) \/ DriverDies(d)
      PROVE  FinalInv'
  BY <1>34, <1>11, <1>12, <1>13, <1>14, <1>15, <1>16, <1>17, <1>18, <1>19 DEF
     Drive
<1>35. ASSUME NEW s \in Sweeper,
             Sweep(s) \/ SweepFaults(s) \/ SweepDies(s)
      PROVE  FinalInv'
  BY <1>35, <1>20, <1>21, <1>22, <1>23, <1>24, <1>25, <1>26, <1>27 DEF Sweep
<1>36. ASSUME NEW r \in Row,
             LeaseEnds(r) \/ GoesStale(r) \/ EngineStarts(r) \/ EngineEnds(r)
      PROVE  FinalInv'
  BY <1>36, <1>28, <1>29, <1>30, <1>31
<1> QED BY <1>32, <1>33, <1>34, <1>35, <1>36 DEF Next

(* Who could still write or relabel the row has not been there, and what a *)
(* cancel echoes of a completed run is not a failure.                      *)
LEMMA DeliveredStep ==
  ASSUME HoldInv, KnowInv, HandInv, FinalInv, DeliveredInv, [Next]_vars
  PROVE  DeliveredInv'
<1> USE DEF DeliveredInv, Tells, FinalInv, Ended, InFlight, Terminal, HandInv,
    OneHand, Left, Scheduling, Swept, Driving, Alive, Coming, KnowInv,
    DriversKnow, SweepsKnow, RequestsKnow, RowsKnow, Exists
<1>1. ASSUME NEW c \in Caller, TriggerReads(c) PROVE DeliveredInv'
  BY <1>1, TriggerReadsLeaves, Places, Known DEF RequestAt
<1>2. ASSUME NEW c \in Caller, TriggerWrites(c) PROVE DeliveredInv'
  BY <1>2, TriggerWritesLeaves, Places, Known DEF RequestIdle, RequestAt,
     RowMarked, RowAt
<1>3. ASSUME NEW c \in Caller, Schedule(c) PROVE DeliveredInv'
  BY <1>3, ScheduleLeaves, Places, Known DEF RequestIdle, RequestAt, DriverAt
<1>4. ASSUME NEW c \in Caller, ResumeReads(c) PROVE DeliveredInv'
  BY <1>4, ResumeReadsLeaves, Places, Known DEF RequestAt
<1>5. ASSUME NEW c \in Caller, ResumeCalls(c) PROVE DeliveredInv'
  BY <1>5, ResumeCallsLeaves, Places, Known DEF RequestIdle, RequestAt,
     EngineAt
<1>6. ASSUME NEW c \in Caller, ResumePatches(c) PROVE DeliveredInv'
  BY <1>6, ResumePatchesLeaves, Places, Known DEF RequestIdle, RequestAt,
     RowMarked, RowAt
<1>7. ASSUME NEW c \in Caller, CancelReads(c) PROVE DeliveredInv'
  BY <1>7, CancelReadsLeaves, Places, Known DEF RequestAt
<1>8. ASSUME NEW c \in Caller, CancelCalls(c) PROVE DeliveredInv'
  BY <1>8, CancelCallsLeaves, Places, Known DEF RequestAt, EngineAt
<1>9. ASSUME NEW c \in Caller, CancelPatches(c) PROVE DeliveredInv'
  BY <1>9, CancelPatchesLeaves, Places, Known DEF RequestIdle, RequestAt,
     RowMarked, RowAt
<1>10. ASSUME NEW c \in Caller, RequestDies(c) PROVE DeliveredInv'
  BY <1>10, RequestDiesLeaves, Places, Known DEF RequestIdle, RequestAt
<1>11. ASSUME NEW d \in Driver, DriverOpens(d) PROVE DeliveredInv'
  BY <1>11, DriverOpensLeaves, Places, Known DEF DriverAt, EngineAt
<1>12. ASSUME NEW d \in Driver, DriverReads(d) PROVE DeliveredInv'
  BY <1>12, DriverReadsLeaves, Places, Known DEF DriverAt
<1>13. ASSUME NEW d \in Driver, DriverGivesUp(d) PROVE DeliveredInv'
  BY <1>13, DriverGivesUpLeaves, Places, Known DEF DriverAt
<1>14. ASSUME NEW d \in Driver, DriverTicks(d) PROVE DeliveredInv'
  BY <1>14, DriverTicksLeaves, Places, Known DEF DriverAt, RowMirrored, RowAt
<1>15. ASSUME NEW d \in Driver, DriverWrites(d) PROVE DeliveredInv'
  BY <1>15, DriverWritesLeaves, Places, Known DEF DriverAt, FinalAt, RowFinal,
     RowAt
<1>16. ASSUME NEW d \in Driver, DriverMails(d) PROVE DeliveredInv'
  BY <1>16, DriverMailsLeaves, Places, Known DEF DriverOff, DriverAt
<1>17. ASSUME NEW d \in Driver, DriverFaults(d) PROVE DeliveredInv'
  BY <1>17, DriverFaultsLeaves, Places, Known DEF DriverAt
<1>18. ASSUME NEW d \in Driver, DriverRelabels(d) PROVE DeliveredInv'
  BY <1>18, DriverRelabelsLeaves, Places, Known DEF DriverOff, DriverAt,
     FinalAt, RowMarked, RowAt
<1>19. ASSUME NEW d \in Driver, DriverDies(d) PROVE DeliveredInv'
  BY <1>19, DriverDiesLeaves, Places, Known DEF DriverOff, DriverAt
<1>20. ASSUME NEW s \in Sweeper, SweepClaims(s) PROVE DeliveredInv'
  BY <1>20, SweepClaimsLeaves, Places, Known DEF SweepAt, RowMarked, RowAt
<1>21. ASSUME NEW s \in Sweeper, SweepAsks(s) PROVE DeliveredInv'
  BY <1>21, SweepAsksLeaves, Places, Known DEF SweepAt
<1>22. ASSUME NEW s \in Sweeper, SweepMirrors(s) PROVE DeliveredInv'
  BY <1>22, SweepMirrorsLeaves, Places, Known DEF SweepIdle, SweepAt,
     RowMirrored, RowAt
<1>23. ASSUME NEW s \in Sweeper, SweepClears(s) PROVE DeliveredInv'
  BY <1>23, SweepClearsLeaves, Places, Known DEF SweepIdle, SweepAt,
     RowMarked, RowAt
<1>24. ASSUME NEW s \in Sweeper, SweepSwaps(s) PROVE DeliveredInv'
  BY <1>24, SweepSwapsLeaves, Places, Known DEF SweepIdle, SweepAt, FinalAt,
     RowFinal, RowAt
<1>25. ASSUME NEW s \in Sweeper, SweepMails(s) PROVE DeliveredInv'
  BY <1>25, SweepMailsLeaves, Places, Known DEF SweepIdle, SweepAt
<1>26. ASSUME NEW s \in Sweeper, SweepFaults(s) PROVE DeliveredInv'
  BY <1>26, SweepFaultsLeaves, Places, Known DEF SweepIdle, SweepAt
<1>27. ASSUME NEW s \in Sweeper, SweepDies(s) PROVE DeliveredInv'
  BY <1>27, SweepDiesLeaves, Places, Known DEF SweepIdle, SweepAt
<1>28. ASSUME NEW r \in Row, LeaseEnds(r) PROVE DeliveredInv'
  BY <1>28, LeaseEndsLeaves, Places, Known DEF RowMarked, RowAt
<1>29. ASSUME NEW r \in Row, GoesStale(r) PROVE DeliveredInv'
  BY <1>29, GoesStaleLeaves, Places, Known DEF RowAt
<1>30. ASSUME NEW r \in Row, EngineStarts(r) PROVE DeliveredInv'
  BY <1>30, EngineStartsLeaves, Places, Known DEF EngineAt
<1>31. ASSUME NEW r \in Row, EngineEnds(r) PROVE DeliveredInv'
  BY <1>31, EngineEndsLeaves, Places, Known DEF EngineAt
<1>32. CASE IntakeMoves \/ UNCHANGED vars
  BY <1>32 DEF IntakeMoves, vars, actors, history
<1> HIDE DEF DeliveredInv, Tells, FinalInv, Ended, InFlight, Terminal,
    HandInv, OneHand, Left, Scheduling, Swept, Driving, Alive, Coming,
    KnowInv, DriversKnow, SweepsKnow, RequestsKnow, RowsKnow, Exists
<1>33. ASSUME NEW c \in Caller,
             Request(c) \/ Serve(c) \/ RequestDies(c)
      PROVE  DeliveredInv'
  BY <1>33, <1>1, <1>2, <1>3, <1>4, <1>5, <1>6, <1>7, <1>8, <1>9, <1>10 DEF
     Request, Serve
<1>34. ASSUME NEW d \in Driver,
             Drive(d) \/ DriverGivesUp(d) \/ DriverFaults(d) \/ DriverDies(d)
      PROVE  DeliveredInv'
  BY <1>34, <1>11, <1>12, <1>13, <1>14, <1>15, <1>16, <1>17, <1>18, <1>19 DEF
     Drive
<1>35. ASSUME NEW s \in Sweeper,
             Sweep(s) \/ SweepFaults(s) \/ SweepDies(s)
      PROVE  DeliveredInv'
  BY <1>35, <1>20, <1>21, <1>22, <1>23, <1>24, <1>25, <1>26, <1>27 DEF Sweep
<1>36. ASSUME NEW r \in Row,
             LeaseEnds(r) \/ GoesStale(r) \/ EngineStarts(r) \/ EngineEnds(r)
      PROVE  DeliveredInv'
  BY <1>36, <1>28, <1>29, <1>30, <1>31
<1> QED BY <1>32, <1>33, <1>34, <1>35, <1>36 DEF Next

-----------------------------------------------------------------------------
(* All of it, from the start.                                              *)
FinalsInv == HoldInv /\ KnowInv /\ HandInv /\ FinalInv /\ DeliveredInv

(* Nothing has been asked for yet.                                         *)
LEMMA FinalsInit == Init => FinalsInv
<1> SUFFICES ASSUME Init PROVE FinalsInv
  OBVIOUS
<1>1. HoldInv
  BY HoldInit
<1>2. /\ \A r \in Row : /\ row[r].status = "none" /\ ~row[r].eid /\ row[r].beat
                        /\ ~row[r].delivered /\ finals[r] = 0
      /\ \A d \in Driver : drv[d].pc = "off"
      /\ \A s \in Sweeper : swp[s].pc = "idle"
      /\ \A c \in Caller : req[c].pc = "idle"
  BY DEF Init, Off, NoJob, NoReq
<1>3. KnowInv
  BY <1>2 DEF KnowInv, DriversKnow, SweepsKnow, RequestsKnow, RowsKnow, Exists
<1>4. HandInv
  BY <1>2 DEF HandInv, OneHand, Left, Scheduling, Swept, Driving, Alive, Coming
<1>5. FinalInv
  BY <1>2 DEF FinalInv, Ended, Driving, Coming
<1>6. DeliveredInv
  BY <1>2 DEF DeliveredInv
<1> QED BY <1>1, <1>3, <1>4, <1>5, <1>6 DEF FinalsInv

(* The five invariants together are inductive, when no mirror is late.     *)
LEMMA FinalsStep == ~MirrorsLate => (FinalsInv /\ [Next]_vars => FinalsInv')
BY HoldStep, KnowStep, HandStep, FinalStep, DeliveredStep DEF FinalsInv

(* However triggers, cancels, drivers and sweeps interleave and die, a run *)
(* nobody resumed has one terminal write (finalize_completed, _failed and  *)
(* _parked under run_task.py's and reconcile.py's compare-and-swap).       *)
THEOREM FinalisedOnceHolds == ~MirrorsLate => (Spec => []FinalisedOnce)
<1> SUFFICES ASSUME ~MirrorsLate PROVE Spec => []FinalisedOnce
  OBVIOUS
<1>1. FinalsInv => FinalisedOnce
  <2> SUFFICES ASSUME FinalsInv, NEW r \in Row, resumes[r] = 0
               PROVE  finals[r] <= 1
    BY DEF FinalisedOnce
  <2> QED BY Places DEF FinalsInv, FinalInv, Ended
<1>2. FinalsInv /\ [Next]_vars => FinalsInv'
  BY FinalsStep
<1> QED BY <1>1, <1>2, FinalsInit, PTL DEF Spec

(* Once its report is on the row, no driver's on_error, no sweep and no    *)
(* cancel labels a run nobody resumed as failed (F-06).                    *)
THEOREM DeliveredNotFailedHolds == ~MirrorsLate => (Spec => []DeliveredNotFailed)
<1> SUFFICES ASSUME ~MirrorsLate PROVE Spec => []DeliveredNotFailed
  OBVIOUS
<1>1. FinalsInv => DeliveredNotFailed
  BY DEF FinalsInv, DeliveredInv, DeliveredNotFailed
<1>2. FinalsInv /\ [Next]_vars => FinalsInv'
  BY FinalsStep
<1> QED BY <1>1, <1>2, FinalsInit, PTL DEF Spec
=============================================================================
