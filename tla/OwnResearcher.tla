----------------------------- MODULE OwnResearcher -----------------------------
(***************************************************************************)
(* The own-researcher stream: sessions of a model that asks for web        *)
(* searches, turn by turn, until it emits its list of facts                *)
(* (own_researcher.py).  The sessions of one process share the search      *)
(* provider's slots and its circuit (serpapi.py), which a refusal of the   *)
(* account opens at once and other failures open when they repeat; nothing *)
(* in the program closes it again.                                         *)
(***************************************************************************)
EXTENDS Integers, FiniteSets

CONSTANTS
    Researcher,     \* sessions of one process
    SessionTurns, SessionPauses,    \* max_turns, max_pauses
    MaxSearches,    \* searches of a session
    MaxUses,        \* bound: searches the model asks for in one turn
    SearchSlots,    \* _CONCURRENCY
    Strikes,        \* failures of one kind that open the circuit
    MaxRefusals     \* bound: searches that fail

VARIABLES
    keyed,      \* the deployment has a SERPAPI_API_KEY
    session,    \* researcher -> where it is and what it has
    circuit,    \* [open, strikes] of the process
    slots,      \* free search slots
    refusals,
    late        \* observation: searches a session sent while the circuit was open

ovars == <<keyed, session, circuit, slots, refusals, late>>

NewSession == [pc |-> "new", turn |-> 0, pauses |-> 0, uses |-> 0, searching |-> TRUE, searches |-> 0,
               priced |-> TRUE, pending |-> FALSE, facts |-> 0, reasons |-> {}]
OInit ==
    /\ keyed \in BOOLEAN
    /\ session = [s \in Researcher |-> NewSession]
    /\ circuit = [open |-> FALSE, strikes |-> 0]
    /\ slots = SearchSlots /\ refusals = 0 /\ late = [s \in Researcher |-> 0]

Goes(s, from, to) == session[s].pc = from /\ session' = [session EXCEPT ![s] = to]
Ended(it, reasons) == [it EXCEPT !.pc = "ended", !.uses = 0, !.reasons = @ \cup reasons]
shared == <<keyed, circuit, slots, refusals, late>>

(* Why no search may go out now: no key, or a circuit that is not closed.     *)
ReasonAtStart(c) == IF keyed THEN {} ELSE {"key missing"}      \* variant: the circuit is not asked
UnavailableReason(c) == IF ~keyed THEN {"key missing"} ELSE IF c.open THEN {"circuit open"} ELSE {}

---------------------------------------------------------------------------
(* A stream that may not search is refused before anything is spent; the      *)
(* price of a search comes from the account, the deployment or the price      *)
(* table, and is unknown when none of them has one.                           *)
FetchPlan == BOOLEAN     \* the account names a price; FALSE as well for any failure to ask it
UnitPrice(account, configured) == account \/ configured
Starts(s) ==
    /\ IF UnavailableReason(circuit) # {}
       THEN Goes(s, "new", Ended(session[s], UnavailableReason(circuit)))
       ELSE \E account \in FetchPlan, configured \in BOOLEAN :
               Goes(s, "new", [session[s] EXCEPT !.pc = "turn", !.priced = UnitPrice(account, configured)])
    /\ UNCHANGED shared

(* A turn of the model.  A pause is continued, SessionPauses times; the last  *)
(* turn is forced to be the list of facts.                                    *)
Forced(it) == it.turn + 1 >= SessionTurns
Pauses(s) ==
    /\ session[s].pauses < SessionPauses
    /\ Goes(s, "turn", [session[s] EXCEPT !.pauses = @ + 1])
    /\ UNCHANGED shared
Asks(s) ==
    /\ ~Forced(session[s])
    /\ \E n \in 1 .. MaxUses : Goes(s, "turn", [session[s] EXCEPT !.turn = @ + 1, !.uses = n, !.pc = "answering"])
    /\ UNCHANGED shared
Emits(s) ==             \* the entries without a statement or a source are left out
    /\ \E parsed \in 0 .. 1 : Goes(s, "turn", Ended([session[s] EXCEPT !.turn = @ + 1, !.facts = parsed], {}))
    /\ UNCHANGED shared
StopsWithoutList(s) ==
    Goes(s, "turn", Ended([session[s] EXCEPT !.turn = @ + 1], {"no fact list"})) /\ UNCHANGED shared
(* The stream is lost unless the session has facts, and says why.             *)
Delivers(s) ==
    /\ LET it == session[s]
       IN  IF it.facts > 0 THEN Goes(s, "ended", [it EXCEPT !.pc = "success"])
           ELSE Goes(s, "ended", [it EXCEPT !.pc = "error", !.reasons = IF @ = {} THEN {"no fact list"} ELSE @])
    /\ UNCHANGED shared
Raises(s) ==            \* the model's circuit, or any error; what was found so far is kept
    Goes(s, "turn", Ended(session[s], {"loop failed"})) /\ UNCHANGED shared

---------------------------------------------------------------------------
(* Every search the model asked for is answered before its next turn.         *)
Answered(it) == [it EXCEPT !.uses = @ - 1, !.pc = IF it.uses = 1 THEN "turn" ELSE "answering"]
StopsSearching(it, why) == [it EXCEPT !.searching = FALSE, !.reasons = @ \cup why]
AnswersBlank(s) == Goes(s, "answering", Answered(session[s])) /\ UNCHANGED shared
Budgeted(it) == it.searching /\ it.searches < MaxSearches
RunOneSearch(s) ==
    /\ \/ ~Budgeted(session[s]) /\ Goes(s, "answering", Answered(session[s]))
       \/ /\ Budgeted(session[s]) /\ UnavailableReason(circuit) # {}
          /\ Goes(s, "answering", Answered(StopsSearching(session[s], {"circuit open"})))
       \/ /\ Budgeted(session[s]) /\ UnavailableReason(circuit) = {}
          /\ Goes(s, "answering", [session[s] EXCEPT !.pc = "queued"])
    /\ UNCHANGED shared

(* The request waits for a slot and goes out whatever the circuit has become. *)
Sends(s) ==
    /\ slots > 0 /\ slots' = slots - 1
    /\ Goes(s, "queued", [session[s] EXCEPT !.pc = "searching"])
    /\ late' = IF circuit.open THEN [late EXCEPT ![s] = @ + 1] ELSE late
    /\ UNCHANGED <<keyed, circuit, refusals>>

Returns(s, to) == Goes(s, "searching", to) /\ slots' = slots + 1 /\ UNCHANGED <<keyed, late>>
Counted(it) == [it EXCEPT !.searches = @ + 1, !.pending = @ \/ ~it.priced]
Results(s) ==
    /\ Returns(s, Answered(Counted(session[s])))
    /\ UNCHANGED <<circuit, refusals>>

(* A failure is booked on the circuit: a refused key opens it at once, a rate *)
(* limit never counts, another failure counts for the life of the process.    *)
NoteFailure(c, kind) ==
    CASE kind = "refused" -> [c EXCEPT !.open = TRUE]
      [] kind = "rate limit" -> c
      [] OTHER -> [c EXCEPT !.strikes = @ + 1, !.open = @ \/ c.strikes + 1 >= Strikes]
SearchFails(s) ==
    /\ refusals < MaxRefusals /\ refusals' = refusals + 1
    /\ \E kind \in {"refused", "rate limit", "other"} :
          /\ circuit' = NoteFailure(circuit, kind)
          /\ Returns(s, Answered(IF circuit'.open THEN StopsSearching(session[s], {"circuit open"}) ELSE session[s]))
(* The provider answered and the record of it could not be written: billed    *)
(* outside, and not counted here.                                             *)
IsNotRecorded(s) ==
    /\ refusals < MaxRefusals /\ refusals' = refusals + 1
    /\ Returns(s, Answered(IF circuit.open THEN StopsSearching(session[s], {"circuit open"})
                           ELSE [session[s] EXCEPT !.pending = @ \/ ~session[s].priced]))
    /\ UNCHANGED circuit

ONext ==
    \E s \in Researcher :
        \/ Starts(s) \/ Pauses(s) \/ Asks(s) \/ Emits(s) \/ StopsWithoutList(s) \/ Raises(s) \/ Delivers(s)
        \/ AnswersBlank(s) \/ RunOneSearch(s) \/ Sends(s) \/ Results(s) \/ SearchFails(s) \/ IsNotRecorded(s)
OSpec == OInit /\ [][ONext]_ovars

---------------------------------------------------------------------------
(* After the provider refused the account, no session of the process sends    *)
(* more than the one search it had already decided on: the others are told to *)
(* stop, whichever session met the refusal (serpapi.py note_failure: five     *)
(* more requests can only produce five more refusals).                        *)
OneSearchAfterRefusal == \A s \in Researcher : late[s] <= 1
=============================================================================
