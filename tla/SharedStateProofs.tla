--------------------------- MODULE SharedStateProofs ---------------------------
(***************************************************************************)
(* Four things that concurrent tasks share, for any number of them and of  *)
(* failures, and any thresholds: the stage card (stage_feed.py), which     *)
(* never silently lags behind its rows; the breaker of reliability.py,     *)
(* whose probe is answered; the search provider's circuit (serpapi.py),    *)
(* behind which no session sends more than the one search it had already   *)
(* decided on; and the status of an intake (context_pack.py), of which a   *)
(* client's validation buys at most one context pack.                      *)
(*                                                                         *)
(* FeedCatchesUp alone is not inductive: when a write lands, the card      *)
(* shows the snapshot taken before it, so one must know that nothing has   *)
(* changed the rows since.  The lock is what keeps them still.             *)
(***************************************************************************)
EXTENDS StageFeed, Reliability, OwnResearcher, Intake, FiniteSetTheorems, TLAPS

---------------------------------------------------------------------------
(* The writer and the close exclude each other, and what one of them writes   *)
(* is what the rows are now.                                                  *)
WriteIsFresh ==
    /\ ~(writerTask = "writing" /\ closer = "writing")
    /\ Held => snapshot = Snapshot

WriterType == writerTask \in {"none", "sleeping", "writing"}
FeedInv == FeedCatchesUp /\ WriteIsFresh /\ WriterType

(* An empty card of no rows is up to date.                                    *)
LEMMA FeedInit == SFInit => FeedInv
BY DEF SFInit, FeedInv, FeedCatchesUp, WriteIsFresh, WriterType, Held, Snapshot

(* What the card should show depends on the rows and the overflow only.       *)
LEMMA SnapshotKept ==
  ASSUME UNCHANGED <<items, overflow>>
  PROVE  Snapshot' = Snapshot
BY DEF Snapshot

(* The invariant is inductive: one case per action of the stage card.         *)
LEMMA FeedStep == FeedInv /\ [SFNext]_sfvars => FeedInv'
<1> SUFFICES ASSUME FeedInv, [SFNext]_sfvars PROVE FeedInv'
  OBVIOUS
<1> USE DEF FeedInv, FeedCatchesUp, WriteIsFresh, WriterType, Held
<1>1. CASE Calls
  <2>1. Snapshot' = Snapshot
    BY <1>1, SnapshotKept DEF Calls
  <2> QED
    BY <1>1, <2>1 DEF Calls, writing
<1>2. CASE Applies      \* nobody writes meanwhile; a change is owed and a writer sleeps
  <2>1. CASE UNCHANGED <<items, overflow, dirty, writerTask>>
    <3>1. Snapshot' = Snapshot
      BY <2>1, SnapshotKept
    <3> QED
      BY <1>2, <2>1, <3>1 DEF Applies
  <2>2. CASE dirty' = TRUE /\ EnsureWriter
    BY <1>2, <2>2 DEF Applies, EnsureWriter
  <2> QED
    BY <1>2, <2>1, <2>2 DEF Applies
<1>3. CASE WriterWakes
  <2>1. Snapshot' = Snapshot
    BY <1>3, SnapshotKept DEF WriterWakes
  <2> QED
    BY <1>3, <2>1 DEF WriterWakes
<1>4. CASE WriterWrites
  <2>1. Snapshot' = Snapshot
    BY <1>4, SnapshotKept DEF WriterWrites
  <2> QED
    BY <1>4, <2>1 DEF WriterWrites, Lands
<1>5. CASE CloseCancels \* what was being written is owed again
  <2>1. Snapshot' = Snapshot
    BY <1>5, SnapshotKept DEF CloseCancels
  <2> QED
    BY <1>5, <2>1 DEF CloseCancels, DirtyAfterCancel
<1>6. CASE CloseFlushes
  <2>1. Snapshot' = Snapshot
    BY <1>6, SnapshotKept DEF CloseFlushes
  <2> QED
    BY <1>6, <2>1 DEF CloseFlushes
<1>7. CASE CloseWrites
  <2>1. Snapshot' = Snapshot
    BY <1>7, SnapshotKept DEF CloseWrites
  <2> QED
    BY <1>7, <2>1 DEF CloseWrites, Lands
<1>8. CASE CloseIsCancelled
  <2>1. Snapshot' = Snapshot
    BY <1>8, SnapshotKept DEF CloseIsCancelled
  <2> QED
    BY <1>8, <2>1 DEF CloseIsCancelled
<1>9. CASE UNCHANGED sfvars
  <2>1. Snapshot' = Snapshot
    BY <1>9, SnapshotKept DEF sfvars
  <2> QED
    BY <1>9, <2>1 DEF sfvars
<1> QED
  BY <1>1, <1>2, <1>3, <1>4, <1>5, <1>6, <1>7, <1>8, <1>9 DEF SFNext

(* Whatever the interleaving of sessions, the debounced writer and the close  *)
(* (stage_feed.py), a card that lags behind its rows is owed a write somebody *)
(* makes, unless the database lost one or the close was cancelled.            *)
THEOREM CardCatchesUp == SFSpec => []FeedCatchesUp
<1>1. FeedInv => FeedCatchesUp
  BY DEF FeedInv
<1> QED
  BY <1>1, FeedInit, FeedStep, PTL DEF SFSpec

---------------------------------------------------------------------------
(* The breaker: the records of a caller and of the circuit.                   *)
CallerState == [st : {"idle", "calling", "backoff"}, attempt : Int, probing : BOOLEAN]
CircuitState == [open : BOOLEAN, probe : BOOLEAN, cycles : Int, hard : Int, overload : Int,
                 sig : Signature \cup {"none"}]
BreakerType == caller \in [Session -> CallerState] /\ breaker \in CircuitState
BreakerInv == BreakerType /\ ProbeIsAnswered

(* A failure that leaves a probe in flight is a rate limit: every other one   *)
(* that meets the probe trips the breaker, which takes the probe back.        *)
LEMMA BookedProbe ==
  ASSUME NEW b \in CircuitState, NEW f \in Class, NEW sig \in Signature
  PROVE  /\ Booked(b, f, sig) \in CircuitState
         /\ Booked(b, f, sig).probe => b.probe /\ f = "rate_limit"
<1> DEFINE count == IF b.sig = sig THEN b.hard + 1 ELSE 1
           same == [b EXCEPT !.hard = count, !.sig = sig]
           loaded == [b EXCEPT !.overload = @ + 1]
<1>1. \A r \in CircuitState : Tripped(r) \in CircuitState /\ Tripped(r).probe = FALSE
  <2> TAKE r \in CircuitState
  <2>1. r.cycles + 1 \in Int
    BY DEF CircuitState
  <2>2. \A n \in Int : LET t == [r EXCEPT !.open = TRUE, !.probe = FALSE, !.cycles = n]
                       IN  t \in CircuitState /\ t.probe = FALSE
    BY DEF CircuitState
  <2> QED
    BY <2>1, <2>2 DEF Tripped
<1>2. CASE f = "rate_limit"
  BY <1>2 DEF Booked
<1>3. CASE f \in {"hard_wall", "config_error"}
  <2>1. b.hard + 1 \in Int
    BY DEF CircuitState
  <2>2. \A n \in Int : [b EXCEPT !.sig = sig, !.hard = n] \in CircuitState
    BY DEF CircuitState
  <2> QED
    BY <1>1, <1>3, <2>1, <2>2 DEF Booked
<1>4. CASE f \in {"transient", "hard", "overload"} /\ b.probe
  BY <1>1, <1>4 DEF Booked
<1>5. CASE f = "hard" /\ ~b.probe
  <2>1. same \in CircuitState /\ same.probe = b.probe
    <3>1. count \in Int
      BY DEF CircuitState
    <3> HIDE DEF count
    <3> QED
      BY <3>1 DEF CircuitState
  <2>2. Booked(b, f, sig) = IF same.hard >= HardThreshold THEN Tripped(same) ELSE same
    BY <1>5 DEF Booked
  <2> QED
    BY <1>1, <1>5, <2>1, <2>2
<1>6. CASE f = "overload" /\ ~b.probe
  <2>1. loaded \in CircuitState /\ loaded.probe = b.probe
    <3>1. b.overload + 1 \in Int
      BY DEF CircuitState
    <3>2. \A n \in Int : LET t == [b EXCEPT !.overload = n]
                         IN  t \in CircuitState /\ t.probe = b.probe
      BY DEF CircuitState
    <3> QED
      BY <3>1, <3>2
  <2>2. Booked(b, f, sig) = IF loaded.overload >= OverloadThreshold THEN Tripped(loaded) ELSE loaded
    BY <1>6 DEF Booked
  <2> QED
    BY <1>1, <1>6, <2>1, <2>2
<1>7. CASE f = "transient" /\ ~b.probe
  BY <1>7 DEF Booked
<1>8. b.probe \in BOOLEAN
  BY DEF CircuitState
<1> QED
  BY <1>2, <1>3, <1>4, <1>5, <1>6, <1>7, <1>8 DEF Class

(* A run starts with every session idle and the circuit closed.              *)
LEMMA BreakerInit == LInit => BreakerInv
BY DEF LInit, BreakerInv, BreakerType, CallerState, CircuitState, ProbeIsAnswered, Idle, Closed

(* The invariant of the breaker is inductive: one case per action, one per    *)
(* class of failure.                                                          *)
LEMMA BreakerStep == BreakerInv /\ [LNext]_lvars => BreakerInv'
<1> SUFFICES ASSUME BreakerInv, [LNext]_lvars PROVE BreakerInv'
  OBVIOUS
<1> USE DEF BreakerInv, BreakerType, CallerState, CircuitState, ProbeIsAnswered
<1>1. CASE Tick
  BY <1>1 DEF Tick
<1>2. ASSUME NEW c \in Session, Begin(c) PROVE BreakerInv'
  BY <1>2 DEF Begin, MayProbe
<1>3. ASSUME NEW c \in Session, Refuse(c) PROVE BreakerInv'
  BY <1>3 DEF Refuse
<1>4. ASSUME NEW c \in Session, Succeed(c) PROVE BreakerInv'
  BY <1>4 DEF Succeed, Closed, Idle
<1>5. ASSUME NEW c \in Session, Fails(c) PROVE BreakerInv'
  <2>1. PICK f \in Class, sig \in Signature :
          LET b == Booked(breaker, f, sig)
              last == caller[c].attempt >= Attempts \/ ~IsTransient(f)
          IN  /\ breaker' = b
              /\ left' = IF b.cycles > breaker.cycles THEN Window(b.cycles) ELSE left
              /\ caller' = [caller EXCEPT ![c] = IF last THEN Idle ELSE [@ EXCEPT !.st = "backoff"]]
              /\ silenced' = (silenced \/ (last /\ caller[c].probing /\ f = "rate_limit"))
    BY <1>5 DEF Fails
  <2> DEFINE last == caller[c].attempt >= Attempts \/ ~IsTransient(f)
  <2>2. breaker' \in CircuitState /\ (breaker'.probe => breaker.probe /\ f = "rate_limit")
    BY <2>1, BookedProbe DEF BreakerInv
  <2>3. BreakerType'
    BY <2>1, <2>2 DEF Idle
  <2>4. ASSUME breaker'.probe, ~silenced'
        PROVE  \E s \in Session : caller'[s].st # "idle" /\ caller'[s].probing
    <3>1. breaker.probe /\ f = "rate_limit" /\ ~silenced
      BY <2>1, <2>2, <2>4
    <3>2. PICK s \in Session : caller[s].st # "idle" /\ caller[s].probing
      BY <3>1
    <3>3. CASE s # c
      BY <2>1, <3>2, <3>3
    <3>4. CASE s = c        \* the probe itself met the rate limit and tries again
      <4>1. ~last
        BY <2>1, <2>4, <3>1, <3>2, <3>4
      <4>2. caller'[c] = [caller[c] EXCEPT !.st = "backoff"]
        BY <2>1, <4>1
      <4> QED
        BY <3>2, <3>4, <4>2
    <3> QED
      BY <3>3, <3>4
  <2> QED
    BY <2>3, <2>4
<1>6. ASSUME NEW c \in Session, Retry(c) PROVE BreakerInv'
  BY <1>6 DEF Retry
<1>7. CASE UNCHANGED lvars
  BY <1>7 DEF lvars
<1> QED
  BY <1>1, <1>2, <1>3, <1>4, <1>5, <1>6, <1>7 DEF LNext

(* A circuit that waits on its probe has the prober still at work, unless the *)
(* probe gave up on a rate limit (reliability.py:768-775).                    *)
THEOREM TheProbeIsAnswered == LSpec => []ProbeIsAnswered
<1>1. BreakerInv => ProbeIsAnswered
  BY DEF BreakerInv
<1> QED
  BY <1>1, BreakerInit, BreakerStep, PTL DEF LSpec

---------------------------------------------------------------------------
(* The search circuit.  Who already sent a search behind an open circuit is   *)
(* not waiting to send another, and the circuit does not close again.         *)
SearchCircuit == [open : BOOLEAN, strikes : Int]
SearchType ==
    /\ DOMAIN session = Researcher /\ \A s \in Researcher : "pc" \in DOMAIN session[s]
    /\ late \in [Researcher -> Int]
    /\ circuit \in SearchCircuit
Sent(s) == late[s] = 0 \/ (late[s] = 1 /\ circuit.open /\ session[s].pc # "queued")
SearchInv == SearchType /\ \A s \in Researcher : Sent(s)

(* A circuit's strikes can be counted on.                                     *)
LEMMA StrikesCount == \A c \in SearchCircuit : c.strikes + 1 \in Int
BY DEF SearchCircuit

(* A booked failure never closes the circuit.                                 *)
LEMMA NotedFailure ==
  ASSUME NEW c \in SearchCircuit, NEW kind \in {"refused", "rate limit", "other"}
  PROVE  NoteFailure(c, kind) \in SearchCircuit /\ (c.open => NoteFailure(c, kind).open)
<1>1. CASE kind = "refused"
  BY <1>1 DEF NoteFailure, SearchCircuit
<1>2. CASE kind = "rate limit"
  BY <1>2 DEF NoteFailure, SearchCircuit
<1>3. CASE kind = "other"
  <2>1. c.strikes + 1 \in Int
    BY StrikesCount
  <2>2. \A n \in Int, o \in BOOLEAN : [c EXCEPT !.strikes = n, !.open = o] \in SearchCircuit
    BY DEF SearchCircuit
  <2>3. NoteFailure(c, kind) =
          [c EXCEPT !.strikes = c.strikes + 1, !.open = c.open \/ c.strikes + 1 >= Strikes]
    BY <1>3 DEF NoteFailure
  <2> QED
    BY <2>1, <2>2, <2>3 DEF SearchCircuit
<1> QED
  BY <1>1, <1>2, <1>3

(* No session has sent anything when the process starts.                      *)
LEMMA SearchInit == OInit => SearchInv
<1> SUFFICES ASSUME OInit PROVE SearchInv
  OBVIOUS
<1>1. "pc" \in DOMAIN NewSession
  BY DEF NewSession
<1>2. SearchType
  BY <1>1 DEF OInit, SearchType, SearchCircuit
<1> QED
  BY <1>2 DEF OInit, SearchInv, Sent

(* A step that moves one session, and lets it wait for a slot only where no   *)
(* search of its own has met the open circuit.                                *)
LEMMA SessionMoves ==
  ASSUME SearchInv, NEW s \in Researcher, NEW from, NEW to, Goes(s, from, to),
         "pc" \in DOMAIN to, to.pc = "queued" => late[s] = 0,
         UNCHANGED late, circuit' \in SearchCircuit, circuit.open => circuit'.open
  PROVE  SearchInv'
BY DEF Goes, SearchInv, SearchType, Sent

(* The invariant of the search circuit is inductive: one case per action.     *)
LEMMA SearchStep == SearchInv /\ [ONext]_ovars => SearchInv'
<1> SUFFICES ASSUME SearchInv, [ONext]_ovars PROVE SearchInv'
  OBVIOUS
<1>0. SearchType /\ circuit \in SearchCircuit /\ \A s \in Researcher : "pc" \in DOMAIN session[s]
  BY DEF SearchInv, SearchType
(* What a session becomes still has a place, and it is not the queue.         *)
<1>a. ASSUME NEW it, NEW reasons, "pc" \in DOMAIN it
      PROVE  "pc" \in DOMAIN Ended(it, reasons) /\ Ended(it, reasons).pc = "ended"
  BY <1>a DEF Ended
<1>b. ASSUME NEW it, "pc" \in DOMAIN it
      PROVE  "pc" \in DOMAIN Answered(it) /\ Answered(it).pc \in {"turn", "answering"}
  BY <1>b DEF Answered
<1>c. ASSUME NEW it, NEW why, "pc" \in DOMAIN it
      PROVE  "pc" \in DOMAIN StopsSearching(it, why)
  BY <1>c DEF StopsSearching
<1>1. ASSUME NEW s \in Researcher, Starts(s) PROVE SearchInv'
  <2> DEFINE refused == Ended(session[s], UnavailableReason(circuit))
             begun(p) == [session[s] EXCEPT !.pc = "turn", !.priced = p]
  <2>1. /\ UNCHANGED <<late, circuit>>
        /\ Goes(s, "new", refused) \/ \E p : Goes(s, "new", begun(p))
    BY <1>1 DEF Starts, shared
  <2>2. "pc" \in DOMAIN refused /\ refused.pc = "ended"
    BY <1>0, <1>a
  <2>3. \A p : "pc" \in DOMAIN begun(p) /\ begun(p).pc = "turn"
    BY <1>0
  <2> HIDE DEF refused, begun
  <2>4. CASE Goes(s, "new", refused)
    BY <1>0, <2>1, <2>2, <2>4, SessionMoves
  <2>5. CASE \E p : Goes(s, "new", begun(p))
    BY <1>0, <2>1, <2>3, <2>5, SessionMoves
  <2> QED
    BY <2>1, <2>4, <2>5
<1>2. ASSUME NEW s \in Researcher, Pauses(s) PROVE SearchInv'
  <2> DEFINE to == [session[s] EXCEPT !.pauses = @ + 1]
  <2>1. Goes(s, "turn", to) /\ UNCHANGED <<late, circuit>>
    BY <1>2 DEF Pauses, shared
  <2>2. "pc" \in DOMAIN to /\ to.pc = "turn"
    BY <1>0, <2>1 DEF Goes
  <2> QED
    BY <1>0, <2>1, <2>2, SessionMoves
<1>3. ASSUME NEW s \in Researcher, Asks(s) PROVE SearchInv'
  <2> DEFINE to(n) == [session[s] EXCEPT !.turn = @ + 1, !.uses = n, !.pc = "answering"]
  <2>1. PICK n \in 1 .. MaxUses : Goes(s, "turn", to(n))
    BY <1>3 DEF Asks
  <2>2. "pc" \in DOMAIN to(n) /\ to(n).pc = "answering" /\ UNCHANGED <<late, circuit>>
    BY <1>0, <1>3 DEF Asks, shared
  <2> QED
    BY <1>0, <2>1, <2>2, SessionMoves
<1>4. ASSUME NEW s \in Researcher, Emits(s) PROVE SearchInv'
  <2> DEFINE to(n) == Ended([session[s] EXCEPT !.turn = @ + 1, !.facts = n], {})
  <2>1. PICK n \in 0 .. 1 : Goes(s, "turn", to(n))
    BY <1>4 DEF Emits
  <2>2. "pc" \in DOMAIN to(n) /\ to(n).pc = "ended"
    BY <1>0, <1>a
  <2>3. UNCHANGED <<late, circuit>>
    BY <1>4 DEF Emits, shared
  <2> QED
    BY <1>0, <2>1, <2>2, <2>3, SessionMoves
<1>5. ASSUME NEW s \in Researcher, StopsWithoutList(s) PROVE SearchInv'
  <2> DEFINE to == Ended([session[s] EXCEPT !.turn = @ + 1], {"no fact list"})
  <2>1. Goes(s, "turn", to) /\ UNCHANGED <<late, circuit>>
    BY <1>5 DEF StopsWithoutList, shared
  <2>2. "pc" \in DOMAIN to /\ to.pc = "ended"
    BY <1>0, <1>a
  <2> QED
    BY <1>0, <2>1, <2>2, SessionMoves
<1>6. ASSUME NEW s \in Researcher, Raises(s) PROVE SearchInv'
  <2> DEFINE to == Ended(session[s], {"loop failed"})
  <2>1. Goes(s, "turn", to) /\ UNCHANGED <<late, circuit>>
    BY <1>6 DEF Raises, shared
  <2>2. "pc" \in DOMAIN to /\ to.pc = "ended"
    BY <1>0, <1>a
  <2> QED
    BY <1>0, <2>1, <2>2, SessionMoves
<1>7. ASSUME NEW s \in Researcher, Delivers(s) PROVE SearchInv'
  <2> DEFINE success == [session[s] EXCEPT !.pc = "success"]
             failure(r) == [session[s] EXCEPT !.pc = "error", !.reasons = r]
  <2>1. UNCHANGED <<late, circuit>> /\ (Goes(s, "ended", success) \/ \E r : Goes(s, "ended", failure(r)))
    BY <1>7 DEF Delivers, shared
  <2>2. "pc" \in DOMAIN success /\ success.pc = "success"
    BY <1>0
  <2>3. \A r : "pc" \in DOMAIN failure(r) /\ failure(r).pc = "error"
    BY <1>0
  <2> HIDE DEF success, failure
  <2> QED
    BY <1>0, <2>1, <2>2, <2>3, SessionMoves
<1>8. ASSUME NEW s \in Researcher, AnswersBlank(s) PROVE SearchInv'
  <2>1. Goes(s, "answering", Answered(session[s])) /\ UNCHANGED <<late, circuit>>
    BY <1>8 DEF AnswersBlank, shared
  <2>2. "pc" \in DOMAIN Answered(session[s]) /\ Answered(session[s]).pc # "queued"
    BY <1>0, <1>b
  <2> QED
    BY <1>0, <2>1, <2>2, SessionMoves
<1>9. ASSUME NEW s \in Researcher, RunOneSearch(s) PROVE SearchInv'
  <2> DEFINE told == StopsSearching(session[s], {"circuit open"})
             queued == [session[s] EXCEPT !.pc = "queued"]
  <2>1. UNCHANGED <<late, circuit>>
    BY <1>9 DEF RunOneSearch, shared
  <2>2. CASE Goes(s, "answering", Answered(session[s]))
    <3>1. "pc" \in DOMAIN Answered(session[s]) /\ Answered(session[s]).pc # "queued"
      BY <1>0, <1>b
    <3> QED
      BY <1>0, <2>1, <2>2, <3>1, SessionMoves
  <2>3. CASE Goes(s, "answering", Answered(told))
    <3>1. "pc" \in DOMAIN Answered(told) /\ Answered(told).pc # "queued"
      BY <1>0, <1>b, <1>c
    <3> QED
      BY <1>0, <2>1, <2>3, <3>1, SessionMoves
  <2>4. CASE UnavailableReason(circuit) = {} /\ Goes(s, "answering", queued)
    <3>1. ~circuit.open       \* so no search of this session has met an open one
      BY <2>4 DEF UnavailableReason
    <3>2. late[s] = 0
      BY <3>1 DEF SearchInv, Sent
    <3>3. "pc" \in DOMAIN queued
      BY <1>0
    <3> QED
      BY <1>0, <2>1, <2>4, <3>2, <3>3, SessionMoves
  <2> QED
    BY <1>9, <2>2, <2>3, <2>4 DEF RunOneSearch
<1>10. ASSUME NEW s \in Researcher, Sends(s) PROVE SearchInv'
  <2> DEFINE to == [session[s] EXCEPT !.pc = "searching"]
  <2>1. Goes(s, "queued", to) /\ UNCHANGED circuit /\ late' = IF circuit.open THEN [late EXCEPT ![s] = @ + 1] ELSE late
    BY <1>10 DEF Sends
  <2>2. "pc" \in DOMAIN to /\ to.pc = "searching"
    BY <1>0
  <2>3. late[s] = 0
    BY <2>1 DEF Goes, SearchInv, Sent
  <2> HIDE DEF to
  <2> QED
    BY <2>1, <2>2, <2>3 DEF Goes, SearchInv, SearchType, Sent
<1>11. ASSUME NEW s \in Researcher, Results(s) PROVE SearchInv'
  <2> DEFINE counted == Counted(session[s])
  <2>1. Goes(s, "searching", Answered(counted)) /\ UNCHANGED <<late, circuit>>
    BY <1>11 DEF Results, Returns
  <2>2. "pc" \in DOMAIN counted
    BY <1>0 DEF Counted
  <2>3. "pc" \in DOMAIN Answered(counted) /\ Answered(counted).pc # "queued"
    BY <1>b, <2>2
  <2> QED
    BY <1>0, <2>1, <2>3, SessionMoves
<1>12. ASSUME NEW s \in Researcher, SearchFails(s) PROVE SearchInv'
  <2> DEFINE told == IF circuit'.open THEN StopsSearching(session[s], {"circuit open"}) ELSE session[s]
  <2>1. PICK kind \in {"refused", "rate limit", "other"} :
           circuit' = NoteFailure(circuit, kind) /\ Returns(s, Answered(told))
    BY <1>12 DEF SearchFails
  <2>2. circuit' \in SearchCircuit /\ (circuit.open => circuit'.open)
    BY <1>0, <2>1, NotedFailure
  <2>3. "pc" \in DOMAIN told
    BY <1>0, <1>c
  <2>4. "pc" \in DOMAIN Answered(told) /\ Answered(told).pc # "queued"
    BY <1>b, <2>3
  <2>5. Goes(s, "searching", Answered(told)) /\ UNCHANGED late
    BY <2>1 DEF Returns
  <2> QED
    BY <2>2, <2>4, <2>5, SessionMoves
<1>13. ASSUME NEW s \in Researcher, IsNotRecorded(s) PROVE SearchInv'
  <2> DEFINE told == IF circuit.open THEN StopsSearching(session[s], {"circuit open"})
                     ELSE [session[s] EXCEPT !.pending = @ \/ ~session[s].priced]
  <2>1. Goes(s, "searching", Answered(told)) /\ UNCHANGED <<late, circuit>>
    BY <1>13 DEF IsNotRecorded, Returns
  <2>2. "pc" \in DOMAIN told
    BY <1>0, <1>c
  <2>3. "pc" \in DOMAIN Answered(told) /\ Answered(told).pc # "queued"
    BY <1>b, <2>2
  <2> QED
    BY <1>0, <2>1, <2>3, SessionMoves
<1>14. CASE UNCHANGED ovars
  BY <1>14 DEF ovars, SearchInv, SearchType, Sent
<1> QED
  BY <1>1, <1>2, <1>3, <1>4, <1>5, <1>6, <1>7, <1>8, <1>9, <1>10, <1>11, <1>12, <1>13, <1>14 DEF ONext

(* Whichever session of the process met the refusal, none sends more than one *)
(* search behind it (serpapi.py note_failure, own_researcher.py 952-976).     *)
THEOREM OneSearchBehindTheCircuit == OSpec => []OneSearchAfterRefusal
<1>1. SearchInv => OneSearchAfterRefusal
  BY DEF SearchInv, SearchType, Sent, OneSearchAfterRefusal
<1> QED
  BY <1>1, SearchInit, SearchStep, PTL DEF OSpec

-----------------------------------------------------------------------------
(* The packs written so far, and the validation not yet spent on one.         *)
Packs == {k \in DOMAIN runs : runs[k].skill = "context-pack" /\ runs[k].st = "succeeded"}
Unspent == IF status = "validated_by_client" THEN 1 ELSE 0
SkillRun == [skill : Skills, st : {"running", "succeeded", "failed", "deleted"},
             task : {"queued", "read", "answered", "refused", "failing", "gone", "lost"}]
PackInv == runs \in Seq(SkillRun) /\ validations \in Nat /\ Cardinality(Packs) + Unspent <= validations

LEMMA PacksCounted ==
  ASSUME runs \in Seq(SkillRun)
  PROVE  IsFiniteSet(Packs) /\ Cardinality(Packs) \in Nat
<1>1. Packs \subseteq 1 .. Len(runs)
  BY DEF Packs
<1>2. IsFiniteSet(Packs)
  <2>1. IsFiniteSet(1 .. Len(runs))
    BY FS_Interval
  <2> QED BY <1>1, <2>1, FS_Subset
<1> QED BY <1>2, FS_CardinalityType

(* Fewer packs and no new unspent validation, or one of them was just given.  *)
LEMMA PacksKept ==
  ASSUME PackInv, runs' \in Seq(SkillRun), Packs' \subseteq Packs,
         \/ UNCHANGED <<status, validations>>
         \/ \E st : Becomes(st)
  PROVE  PackInv'
<1>1. Cardinality(Packs') <= Cardinality(Packs) /\ Cardinality(Packs') \in Nat
  BY PacksCounted, FS_Subset, FS_CardinalityType DEF PackInv
<1>2. Cardinality(Packs) \in Nat
  BY PacksCounted DEF PackInv
<1>3. Cardinality(Packs)' = Cardinality(Packs')
  OBVIOUS
<1> QED BY <1>1, <1>2, <1>3 DEF PackInv, Unspent, Becomes

(* A run that moves on, or is closed without a pack, adds no pack.            *)
LEMMA RunsMove ==
  ASSUME PackInv, NEW k \in DOMAIN runs,
         NEW st \in {"succeeded", "failed", "deleted"},
         NEW to \in {"read", "answered", "refused", "failing", "gone"},
         st = "succeeded" => runs[k].skill # "context-pack",
         \/ runs' = [runs EXCEPT ![k].task = to]
         \/ runs' = [runs EXCEPT ![k].st = st, ![k].task = to]
  PROVE  runs' \in Seq(SkillRun) /\ Packs' \subseteq Packs
<1>1. runs[k] \in SkillRun /\ DOMAIN runs = 1 .. Len(runs)
  BY DEF PackInv
<1>2. \A j \in DOMAIN runs : runs[j] \in SkillRun
  BY DEF PackInv
<1>3. /\ DOMAIN runs' = DOMAIN runs
      /\ \A j \in DOMAIN runs : j # k => runs'[j] = runs[j]
      /\ runs'[k] \in SkillRun /\ runs'[k].skill = runs[k].skill
      /\ runs'[k].st \in {runs[k].st, st}
  BY <1>1 DEF SkillRun
<1>4. runs' \in Seq(SkillRun)
  BY <1>1, <1>2, <1>3 DEF PackInv
<1> QED BY <1>3, <1>4 DEF Packs

(* A function on an initial segment of the numbers is a sequence.             *)
LEMMA FunctionIsSeq ==
  ASSUME NEW S, NEW n \in Nat, NEW f \in [1 .. n -> S]
  PROVE  f \in Seq(S)
<1>1. [k \in 1 .. n |-> f[k]] \in Seq(S)
  OBVIOUS
<1>2. f = [k \in 1 .. n |-> f[k]]
  OBVIOUS
<1> QED BY <1>1, <1>2, Zenon

(* So does a cascade, a death and a sweep: they change no run's skill and     *)
(* give no run the status of a pack.                                          *)
LEMMA RunsSwept ==
  ASSUME PackInv,
         runs' = [k \in DOMAIN runs |-> runs'[k]],
         \A k \in DOMAIN runs : runs'[k] \in SkillRun /\ runs'[k].skill = runs[k].skill
                                /\ runs'[k].st \in {runs[k].st, "failed", "deleted"}
  PROVE  runs' \in Seq(SkillRun) /\ Packs' \subseteq Packs
<1>1. DOMAIN runs = 1 .. Len(runs) /\ Len(runs) \in Nat
  BY DEF PackInv
<1>2. runs' \in [1 .. Len(runs) -> SkillRun]
  BY <1>1
<1>3. runs' \in Seq(SkillRun)
  BY <1>1, <1>2, FunctionIsSeq
<1>4. DOMAIN runs' = DOMAIN runs
  BY <1>1, <1>2
<1> QED BY <1>3, <1>4 DEF Packs

(* One more run, not a pack yet.                                              *)
LEMMA RunsGrow ==
  ASSUME PackInv, NEW s \in Skills,
         runs' = Append(runs, [skill |-> s, st |-> "running", task |-> "queued"])
  PROVE  runs' \in Seq(SkillRun) /\ Packs' \subseteq Packs
BY DEF PackInv, SkillRun, Packs

(* The pack's own write: it spends the validation that its compare-and-swap   *)
(* found, and is the only run that becomes a pack.                            *)
LEMMA PackSpends ==
  ASSUME PackInv, NEW k \in DOMAIN runs, ContextPackWrites(k)
  PROVE  PackInv'
<1>1. CASE PackTransition(status)
  <2>1. status = "validated_by_client" /\ status' = "decomposed" /\ validations' = validations
    BY <1>1 DEF ContextPackWrites, PackTransition, Becomes
  <2>2. Closes(k, "succeeded")
    BY <1>1 DEF ContextPackWrites
  <2>3. runs' \in Seq(SkillRun) /\ Packs' \subseteq Packs \cup {k}
    <3>1. runs[k] \in SkillRun /\ DOMAIN runs = 1 .. Len(runs)
      BY DEF PackInv
    <3>2. \A j \in DOMAIN runs : runs[j] \in SkillRun
      BY DEF PackInv
    <3>3. PICK closed \in SkillRun : runs' = [runs EXCEPT ![k] = closed]
      <4>1. [runs[k] EXCEPT !.st = Patched(k, "succeeded"), !.task = "gone"] \in SkillRun
        BY <3>1 DEF Patched, SkillRun
      <4>2. runs' = [runs EXCEPT ![k] = [runs[k] EXCEPT !.st = Patched(k, "succeeded"), !.task = "gone"]]
        BY <2>2, <3>1 DEF Closes
      <4> QED BY <4>1, <4>2
    <3>4. runs' \in Seq(SkillRun)
      BY <3>3 DEF PackInv
    <3>5. DOMAIN runs' = DOMAIN runs /\ \A j \in DOMAIN runs : j # k => runs'[j] = runs[j]
      BY <3>1, <3>3
    <3> QED BY <3>4, <3>5 DEF Packs
  <2>4. IsFiniteSet(Packs) /\ Cardinality(Packs) \in Nat
    BY PacksCounted DEF PackInv
  <2>5. /\ IsFiniteSet(Packs \cup {k})
        /\ Cardinality(Packs \cup {k}) \in Nat
        /\ Cardinality(Packs \cup {k}) <= Cardinality(Packs) + 1
    BY <2>4, FS_AddElement, FS_CardinalityType
  <2>6. Cardinality(Packs') <= Cardinality(Packs \cup {k}) /\ Cardinality(Packs') \in Nat
    BY <2>3, <2>5, FS_Subset, FS_CardinalityType
  <2>7. Cardinality(Packs)' = Cardinality(Packs')
    OBVIOUS
  <2> QED BY <2>1, <2>3, <2>4, <2>5, <2>6, <2>7 DEF PackInv, Unspent
<1>2. CASE ~PackTransition(status)
  <2>1. Closes(k, "failed") /\ UNCHANGED <<status, validations>>
    BY <1>2 DEF ContextPackWrites
  <2>2. Patched(k, "failed") \in {"succeeded", "failed", "deleted"}
    BY DEF Patched
  <2>3. runs' \in Seq(SkillRun) /\ Packs' \subseteq Packs
    BY <2>1, <2>2, RunsMove DEF Closes, Patched
  <2> QED BY <2>1, <2>3, PacksKept
<1> QED BY <1>1, <1>2

(* What every other step of a skill leaves: no pack, no validation spent.     *)
LEMMA TaskKeeps ==
  ASSUME PackInv, NEW k \in DOMAIN runs, Task(k), ~ContextPackWrites(k)
  PROVE  PackInv'
<1>1. UNCHANGED <<status, validations>>
  BY DEF Task, RunContextPack, RunStructureAnswers, RunExtractInsights, RunEmbeddings,
         RunTranscribe, RunApplyIntakeSkill, Runs, SkillReads, SkillCalls, SkillRefused, Orphaned,
         SkillFails, OnError, StructureWrites, InsightsWrites, EmbeddingsWrites, TranscriptWrites,
         ApplyWrites, Stores
<1>2. \/ \E to \in {"read", "answered", "refused", "failing"} : Moves(k, to)
      \/ Closes(k, "failed")
      \/ Closes(k, "succeeded") /\ runs[k].skill # "context-pack"
  BY DEF Task, RunContextPack, RunStructureAnswers, RunExtractInsights, RunEmbeddings,
         RunTranscribe, RunApplyIntakeSkill, Runs, SkillReads, SkillCalls, SkillRefused, Orphaned,
         SkillFails, OnError, StructureWrites, InsightsWrites, EmbeddingsWrites, TranscriptWrites,
         ApplyWrites, Stores, Usable, SkillResults
<1>3. runs' \in Seq(SkillRun) /\ Packs' \subseteq Packs
  <2>1. CASE \E to \in {"read", "answered", "refused", "failing"} : Moves(k, to)
    BY <2>1, RunsMove DEF Moves
  <2>2. CASE Closes(k, "failed")
    BY <2>2, RunsMove DEF Closes, Patched
  <2>3. CASE Closes(k, "succeeded") /\ runs[k].skill # "context-pack"
    BY <2>3, RunsMove DEF Closes, Patched
  <2> QED BY <1>2, <2>1, <2>2, <2>3
<1> QED BY <1>1, <1>3, PacksKept

(* The invariant is inductive.                                                *)
LEMMA PackStep == PackInv /\ [XNext]_xvars => PackInv'
<1> SUFFICES ASSUME PackInv, [XNext]_xvars PROVE PackInv'
  OBVIOUS
<1> runs \in Seq(SkillRun)
  BY DEF PackInv
<1>1. ASSUME NEW c \in Caller, Arrives(c) PROVE PackInv'
  <2>1. UNCHANGED <<runs, status, validations>>
    BY <1>1 DEF Arrives, UpsertReads, SubmitReads, ReviewReads, OverrideReads, DeliverReads,
                ReplaceReads, DeleteReads, SendReads, Reads, statusVars, skillVars
  <2> QED BY <2>1, PacksKept DEF Packs
<1>2. ASSUME NEW c \in Caller, Answers(c) PROVE PackInv'
  <2>1. \/ UNCHANGED <<status, validations>>
        \/ \E st : Becomes(st)
    BY <1>2 DEF Answers, UpsertWrites, StatusWrites, DeliverWrites, ReplaceWrites, MailSends,
                DeleteWrites, Vanished, statusVars
  <2>2. CASE DeleteWrites(c)
    <3>1. \A k \in DOMAIN runs : runs[k] \in SkillRun
      OBVIOUS
    <3>2. runs' \in Seq(SkillRun) /\ Packs' \subseteq Packs
      <4>1. \A k \in DOMAIN runs : runs'[k] \in SkillRun /\ runs'[k].skill = runs[k].skill /\ runs'[k].st = "deleted"
        BY <2>2, <3>1 DEF DeleteWrites, Cascade, SkillRun
      <4>2. runs' = [k \in DOMAIN runs |-> runs'[k]]
        BY <2>2 DEF DeleteWrites, Cascade
      <4> QED BY <4>1, <4>2, RunsSwept
    <3> QED BY <2>1, <3>2, PacksKept
  <2>3. CASE UNCHANGED runs
    BY <2>1, <2>3, PacksKept DEF Packs
  <2> QED BY <1>2, <2>2, <2>3 DEF Answers, UpsertWrites, StatusWrites, DeliverWrites, ReplaceWrites,
                                  MailSends, Vanished, skillVars
<1>3. ASSUME NEW s \in Skills, Dispatch(s) PROVE PackInv'
  <2>1. UNCHANGED <<status, validations>>
    BY <1>3 DEF Dispatch, statusVars
  <2>2. runs' \in Seq(SkillRun) /\ Packs' \subseteq Packs
    BY <1>3, RunsGrow DEF Dispatch
  <2> QED BY <2>1, <2>2, PacksKept
<1>4. ASSUME NEW k \in DOMAIN runs, Task(k) PROVE PackInv'
  BY <1>4, PackSpends, TaskKeeps
<1>5. CASE TriggerResearch \/ ResearchEnds
  <2>1. UNCHANGED runs /\ (UNCHANGED <<status, validations>> \/ \E st : Becomes(st))
    BY <1>5 DEF TriggerResearch, ResearchEnds, skillVars
  <2> QED BY <2>1, PacksKept DEF Packs
<1>6. CASE InstanceDies
  <2>1. UNCHANGED <<status, validations>>
    BY <1>6 DEF InstanceDies, statusVars
  <2>2. PICK dead \in SUBSET {k \in DOMAIN runs : runs[k].task \in Live} :
           runs' = [k \in DOMAIN runs |-> IF k \in dead THEN [runs[k] EXCEPT !.task = "lost"] ELSE runs[k]]
    BY <1>6 DEF InstanceDies
  <2>3. runs' \in Seq(SkillRun) /\ Packs' \subseteq Packs
    <3>1. \A k \in DOMAIN runs : runs'[k] \in SkillRun /\ runs'[k].skill = runs[k].skill /\ runs'[k].st = runs[k].st
      <4>1. \A k \in DOMAIN runs : runs[k] \in SkillRun
        OBVIOUS
      <4> QED BY <2>2, <4>1 DEF SkillRun
    <3>2. runs' = [k \in DOMAIN runs |-> runs'[k]]
      BY <2>2
    <3> QED BY <3>1, <3>2, RunsSwept
  <2> QED BY <2>1, <2>3, PacksKept
<1>7. CASE SweepAtStartup
  <2>1. UNCHANGED <<status, validations>>
    BY <1>7 DEF SweepAtStartup, statusVars
  <2>2. PICK n \in DOMAIN runs :
           runs' = [k \in DOMAIN runs |->
                      IF k <= n /\ runs[k].st = "running" THEN [runs[k] EXCEPT !.st = "failed"] ELSE runs[k]]
    BY <1>7 DEF SweepAtStartup
  <2>3. runs' \in Seq(SkillRun) /\ Packs' \subseteq Packs
    <3>1. \A k \in DOMAIN runs :
             runs'[k] \in SkillRun /\ runs'[k].skill = runs[k].skill /\ runs'[k].st \in {runs[k].st, "failed"}
      <4>1. \A k \in DOMAIN runs : runs[k] \in SkillRun
        OBVIOUS
      <4> QED BY <2>2, <4>1 DEF SkillRun
    <3>2. runs' = [k \in DOMAIN runs |-> runs'[k]]
      BY <2>2
    <3> QED BY <3>1, <3>2, RunsSwept
  <2> QED BY <2>1, <2>3, PacksKept
<1>8. CASE UNCHANGED xvars
  BY <1>8, PacksKept DEF xvars, statusVars, skillVars, Packs
<1> QED BY <1>1, <1>2, <1>3, <1>4, <1>5, <1>6, <1>7, <1>8 DEF XNext

(* However many packs are generated side by side and however often verbs      *)
(* overwrite each other's status, a client's validation is decomposed into    *)
(* at most one context pack (context_pack.py's patch_if).                     *)
THEOREM OnePackPerValidationHolds == XSpec => []OnePackPerValidation
<1>1. XInit => PackInv
  <2> SUFFICES ASSUME XInit PROVE PackInv
    OBVIOUS
  <2>1. runs = <<>> /\ Packs = {} /\ Unspent = 0 /\ validations = 0
    BY DEF XInit, Packs, Unspent
  <2> QED BY <2>1, FS_EmptySet DEF PackInv
<1>2. PackInv => OnePackPerValidation
  <2> SUFFICES ASSUME PackInv PROVE OnePackPerValidation
    OBVIOUS
  <2>1. Cardinality(Packs) \in Nat
    BY PacksCounted DEF PackInv
  <2> QED BY <2>1 DEF PackInv, Packs, Unspent, OnePackPerValidation
<1> QED BY <1>1, <1>2, PackStep, PTL DEF XSpec
=============================================================================
