---------------------------- MODULE RunLifecycle ----------------------------
(***************************************************************************)
(* What the run queue promises about a run, with no word of how: the moves *)
(* its status may make (handbook 04, section 04.5) and what it may spend.  *)
(*                                                                         *)
(* An engine start is a paid research dispatch.  A run is created with a   *)
(* credit of one start plus its bounded crash recoveries, every requeue a  *)
(* user asks for adds one, and nothing else does.                          *)
(***************************************************************************)
EXTENDS Integers

CONSTANTS
  Run,         \* the runs
  MaxReclaims  \* crash recoveries of a run

VARIABLES
  status,  \* status[r]: the run's status column
  credit   \* credit[r]: engine starts the run may still make

vars == <<status, credit>>

Paused  == {"needs_input", "needs_report_spec", "parked"}
Settled == Paused \cup {"completed", "completed_degraded", "failed"}

Init ==
  /\ status = [r \in Run |-> "absent"]
  /\ credit = [r \in Run |-> 0]

Create(r) ==
  /\ status[r] = "absent"
  /\ status' = [status EXCEPT ![r] = "queued"]
  /\ credit' = [credit EXCEPT ![r] = 1 + MaxReclaims]

(* A paused question is answered by retiring the run for a fresh one.      *)
Answer(r, n) ==
  /\ status[r] = "needs_input"
  /\ status[n] = "absent"
  /\ status' = [status EXCEPT ![r] = "cancelled", ![n] = "queued"]
  /\ credit' = [credit EXCEPT ![n] = 1 + MaxReclaims]

Requeue(r) ==
  /\ status[r] \in {"needs_report_spec", "parked"}
  /\ status' = [status EXCEPT ![r] = "queued"]
  /\ credit' = [credit EXCEPT ![r] = @ + 1]

Cancel(r) ==
  /\ status[r] # "absent"
  /\ status' = [status EXCEPT ![r] = "cancelled"]
  /\ UNCHANGED credit

Claim(r) ==
  /\ status[r] = "queued"
  /\ status' = [status EXCEPT ![r] = "running"]
  /\ UNCHANGED credit

Dispatch(r) ==
  /\ status[r] = "running"
  /\ credit[r] > 0
  /\ credit' = [credit EXCEPT ![r] = @ - 1]
  /\ UNCHANGED status

(* Runs leave 'running' one by one, or together when a reap fails several. *)
Settle(S, end) ==
  /\ \A r \in S : status[r] = "running"
  /\ status' = [r \in Run |-> IF r \in S THEN end[r] ELSE status[r]]
  /\ UNCHANGED credit

Next ==
  \/ \E r \in Run : \/ Create(r) \/ Requeue(r) \/ Cancel(r)
                    \/ Claim(r) \/ Dispatch(r)
  \/ \E r, n \in Run : Answer(r, n)
  \/ \E S \in SUBSET Run : \E end \in [S -> Settled] : Settle(S, end)

Spec == Init /\ [][Next]_vars
=============================================================================
