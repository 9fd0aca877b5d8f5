----------------------------- MODULE Reliability ------------------------------
(***************************************************************************)
(* The engine's retry helper and circuit breaker (reliability.py):         *)
(* concurrent sessions of one stage share a breaker; a call asks it once,  *)
(* then makes its attempts, and every attempt's outcome is booked.         *)
(* A session is cancelled only with its whole run, whose breakers die with *)
(* it: no time limit wraps with_retry.  force_open, which only tests call, *)
(* is left out.                                                            *)
(***************************************************************************)
EXTENDS Integers, FiniteSets, Sequences

CONSTANTS
    Session,              \* concurrent sessions of the stage
    Signature,            \* error_signature
    Attempts,             \* RETRY_ATTEMPTS
    HardThreshold, OverloadThreshold,
    OpenFor, OpenForMax,  \* BREAKER_OPEN_S, BREAKER_OPEN_MAX_S, in ticks
    MaxCalls              \* calls of the run

VARIABLES
    caller,     \* session -> [st: "idle" | "calling" | "backoff", attempt, probing]
    breaker,    \* _open, _probe_in_flight, _open_cycles, the counters
    left,       \* ticks until retry_at
    calls,      \* calls begun
    silenced    \* a probing caller gave up on a 429 (history)

lvars == <<caller, breaker, left, calls, silenced>>

Class == {"rate_limit", "overload", "transient", "hard", "hard_wall", "config_error"}
IsTransient(f) == f \in {"rate_limit", "overload", "transient"}
Idle == [st |-> "idle", attempt |-> 0, probing |-> FALSE]
Closed == [open |-> FALSE, probe |-> FALSE, cycles |-> 0, hard |-> 0, overload |-> 0, sig |-> "none"]

---------------------------------------------------------------------------
(* state and allow: closed, or open long enough and nobody probes.            *)
State == IF ~breaker.open THEN "closed" ELSE IF breaker.probe \/ left = 0 THEN "half_open" ELSE "open"
MayProbe == breaker.open /\ ~breaker.probe /\ left = 0
Allow == ~breaker.open \/ MayProbe

Window(cycles) == LET w == OpenFor * 2^(cycles - 1) IN IF w < OpenForMax THEN w ELSE OpenForMax
TrippedProbing(b) == [b EXCEPT !.open = TRUE, !.cycles = @ + 1]     \* variant: the probe is left in flight
Tripped(b) == [b EXCEPT !.open = TRUE, !.probe = FALSE, !.cycles = @ + 1]

(* record_failure: what one failure makes of the breaker.                     *)
Booked(b, f, sig) ==
    LET same    == [b EXCEPT !.hard = IF b.sig = sig THEN @ + 1 ELSE 1, !.sig = sig]
        loaded  == [b EXCEPT !.overload = @ + 1]
    IN  CASE f = "rate_limit" -> b
          [] f \in {"hard_wall", "config_error"} -> Tripped([b EXCEPT !.sig = sig, !.hard = @ + 1])
          [] f \in {"transient", "hard", "overload"} /\ b.probe -> Tripped(b)
          [] f = "hard" /\ ~b.probe -> IF same.hard >= HardThreshold THEN Tripped(same) ELSE same
          [] f = "overload" /\ ~b.probe -> IF loaded.overload >= OverloadThreshold THEN Tripped(loaded) ELSE loaded
          [] OTHER -> b

---------------------------------------------------------------------------
(* with_retry: the breaker is asked before the first attempt only.            *)
Begin(c) ==
    /\ caller[c].st = "idle" /\ calls < MaxCalls /\ Allow
    /\ caller' = [caller EXCEPT ![c] = [st |-> "calling", attempt |-> 1, probing |-> MayProbe]]
    /\ breaker' = [breaker EXCEPT !.probe = @ \/ MayProbe]
    /\ calls' = calls + 1
    /\ UNCHANGED <<left, silenced>>

Refuse(c) ==
    /\ caller[c].st = "idle" /\ calls < MaxCalls /\ ~Allow
    /\ calls' = calls + 1
    /\ UNCHANGED <<caller, breaker, left, silenced>>

Succeed(c) ==
    /\ caller[c].st = "calling"
    /\ breaker' = Closed /\ left' = 0
    /\ caller' = [caller EXCEPT ![c] = Idle]
    /\ UNCHANGED <<calls, silenced>>

Fails(c) ==
    /\ caller[c].st = "calling"
    /\ \E f \in Class, sig \in Signature :
          LET b == Booked(breaker, f, sig)
              last == caller[c].attempt >= Attempts \/ ~IsTransient(f)
          IN  /\ breaker' = b
              /\ left' = IF b.cycles > breaker.cycles THEN Window(b.cycles) ELSE left
              /\ caller' = [caller EXCEPT ![c] =
                     IF last THEN Idle ELSE [@ EXCEPT !.st = "backoff"]]
              /\ silenced' = (silenced \/ (last /\ caller[c].probing /\ f = "rate_limit"))
    /\ UNCHANGED calls

Retry(c) ==
    /\ caller[c].st = "backoff"
    /\ caller' = [caller EXCEPT ![c].st = "calling", ![c].attempt = @ + 1]
    /\ UNCHANGED <<breaker, left, calls, silenced>>

Tick == left > 0 /\ left' = left - 1 /\ UNCHANGED <<caller, breaker, calls, silenced>>

LInit == caller = [c \in Session |-> Idle] /\ breaker = Closed /\ left = 0 /\ calls = 0 /\ silenced = FALSE
LNext == Tick \/ \E c \in Session : Begin(c) \/ Refuse(c) \/ Succeed(c) \/ Fails(c) \/ Retry(c)
LSpec == LInit /\ [][LNext]_lvars

---------------------------------------------------------------------------
(* A half-open circuit waits for a caller that is still there: whoever else    *)
(* fails, succeeds or retries meanwhile, the flag _probe_in_flight outlives    *)
(* its probe only when the probe gave up on a 429, which record_failure books  *)
(* nowhere (reliability.py:768-775).                                           *)
ProbeIsAnswered ==
    breaker.probe => silenced \/ \E c \in Session : caller[c].st # "idle" /\ caller[c].probing
=============================================================================
