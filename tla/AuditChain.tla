----------------------------- MODULE AuditChain -----------------------------
(***************************************************************************)
(* The tamper-evident audit chain of one run: the table `audit_log`, the   *)
(* audited clients that append to it (audit/audited_llm_client.py,         *)
(* audit/writer.py), and what verify_chain (audit/hash_chain.py) makes of  *)
(* it.                                                                     *)
(*                                                                         *)
(* A client is one AuditedLLMClient: the pipeline builds one for each      *)
(* execution of the run, and the report-proposal and judge endpoints build *)
(* one for each request.  Its per-run lock serialises its own calls; the   *)
(* semaphore is shared by all clients of a process; nothing but the        *)
(* table's unique constraint is shared by two clients.                     *)
(*                                                                         *)
(* Every action ends at an await of the call that takes it.  A hash is the *)
(* list of payloads hashed into it, so equal hashes are equal histories.   *)
(***************************************************************************)
EXTENDS Integers, FiniteSets, Sequences

CONSTANTS
  Proc,    \* processes: workers and API instances
  Client,  \* audited clients built for the run
  Call,    \* audited calls made for the run
  Slots,   \* permits of a process's _SEMAPHORE
  None     \* no client, no holder

Kind == {"atomic", "search", "deep", "failure"}

ASSUME AuditAssumption ==
  /\ Slots \in Nat \ {0}
  /\ IsFiniteSet(Call)
  /\ None \notin Client /\ None \notin Call

VARIABLES
  rows,  \* audit_log: the run's rows
  call,  \* each call: where it is, and what it has read of the chain's tail
  sem,   \* free permits of each process's semaphore
  lock,  \* holder of each client's lock for the run
  host,  \* the process a client lives in
  up     \* the processes that are alive

vars == <<rows, call, sem, lock, host, up>>

-----------------------------------------------------------------------------
(* The hash chain.                                                         *)

Payload == [call : Call, seq : Nat]
Hash    == Seq(Payload)
Genesis == <<>>

LinkHash(prev, payload) == Append(prev, payload)

RowOf(c, prev, seq) ==
  [call |-> c, seq |-> seq, prev |-> prev,
   hash |-> LinkHash(prev, [call |-> c, seq |-> seq])]

AuditRow == [call : Call, seq : Nat, prev : Hash, hash : Hash]

Precedes(x, y, table) ==
  x.seq < y.seq /\ ~\E z \in table : x.seq < z.seq /\ z.seq < y.seq

(* verify_chain: walking by seq, every row's prev_hash is the hash of the  *)
(* row before it, GENESIS for the first, and its hash can be recomputed.   *)
VerifyChain(table) ==
  \A y \in table :
    /\ y.hash = LinkHash(y.prev, [call |-> y.call, seq |-> y.seq])
    /\ (\A x \in table : y.seq <= x.seq) => y.prev = Genesis
    /\ \A x \in table : Precedes(x, y, table) => y.prev = x.hash

-----------------------------------------------------------------------------
(* What a call is doing: "slot" waits for the semaphore, "provider" for    *)
(* the provider, "upload" for the body's upload, "lock" for the client's   *)
(* lock; "tail" and "insert" are the critical section.  An "orphan" has    *)
(* given up while its INSERT was on its way to the database.               *)
Active == {"slot", "provider", "upload", "lock", "tail", "insert"}
Ended  == {"audited", "collided", "raised", "orphan", "aborted"}

CallState ==
  [pc : {"idle"} \cup Active \cup Ended, client : Client \cup {None},
   kind : Kind \cup {None}, slot : BOOLEAN, prev : Hash, seq : Nat]

NotMade == [pc |-> "idle", client |-> None, kind |-> None, slot |-> FALSE,
            prev |-> Genesis, seq |-> 0]

TypeOK ==
  /\ rows \subseteq AuditRow
  /\ call \in [Call -> CallState]
  /\ sem \in [Proc -> Nat]
  /\ lock \in [Client -> Call \cup {None}]
  /\ host \in [Client -> Proc]
  /\ up \subseteq Proc

Init ==
  /\ rows = {}
  /\ call = [c \in Call |-> NotMade]
  /\ sem = [p \in Proc |-> Slots]
  /\ lock = [m \in Client |-> None]
  /\ host \in [Client -> Proc]
  /\ up = Proc

At(c, pc)   == call[c].pc = pc
HostOf(c)   == host[call[c].client]
Moves(c, to) == call' = [call EXCEPT ![c].pc = to]

(* anthropic_messages, gemini_generate, openai_response and serpapi_search *)
(* begin by taking a slot; start_call takes none, and write_failure has no *)
(* provider to call.                                                       *)
FirstStop(kind) == CASE kind \in {"atomic", "search"} -> "slot"
                     [] kind = "deep"    -> "provider"
                     [] kind = "failure" -> "upload"

Begin(c, m, kind) ==
  /\ At(c, "idle")
  /\ host[m] \in up
  /\ call' = [call EXCEPT ![c] =
                [@ EXCEPT !.client = m, !.kind = kind, !.pc = FirstStop(kind)]]
  /\ UNCHANGED <<rows, sem, lock, host, up>>

SlotFree(p) == sem[p] > 0

(* `async with _SEMAPHORE`: before the provider, or at the top of end_call.*)
TakeSlot(c) ==
  /\ At(c, "slot")
  /\ SlotFree(HostOf(c))
  /\ sem' = [sem EXCEPT ![HostOf(c)] = @ - 1]
  /\ call' = [call EXCEPT ![c] =
                [@ EXCEPT !.slot = TRUE,
                          !.pc = IF call[c].kind = "deep"
                                 THEN "upload" ELSE "provider"]]
  /\ UNCHANGED <<rows, lock, host, up>>

(* The provider answers; a deep-research call goes on to end_call with any *)
(* of success, error and timeout.                                          *)
Respond(c) ==
  /\ At(c, "provider")
  /\ Moves(c, IF call[c].kind = "deep" THEN "slot" ELSE "upload")
  /\ UNCHANGED <<rows, sem, lock, host, up>>

(* What remains of a call that is over.                                    *)
Over(x, how) ==
  [x EXCEPT !.pc = how, !.slot = FALSE, !.kind = None,
            !.prev = IF how = "orphan" THEN @ ELSE Genesis]

(* mutants: the slot is not returned; the lock is kept on a collision      *)
EndLeaks(c, how) ==
  /\ call' = [call EXCEPT ![c] = Over(@, how)]
  /\ lock' = [m \in Client |-> IF lock[m] = c THEN None ELSE lock[m]]
  /\ UNCHANGED sem
EndKeepsLock(c, how) ==
  /\ call' = [call EXCEPT ![c] = Over(@, how)]
  /\ sem' = [sem EXCEPT ![HostOf(c)] = IF call[c].slot THEN @ + 1 ELSE @]
  /\ lock' = [m \in Client |-> IF lock[m] = c /\ how # "collided"
                               THEN None ELSE lock[m]]

(* The call returns or raises; both `async with` blocks are left.          *)
End(c, how) ==
  /\ call' = [call EXCEPT ![c] = Over(@, how)]
  /\ sem' = [sem EXCEPT ![HostOf(c)] = IF call[c].slot THEN @ + 1 ELSE @]
  /\ lock' = [m \in Client |-> IF lock[m] = c THEN None ELSE lock[m]]

(* The provider raises: serpapi_search writes a failure row from inside    *)
(* its slot, the others leave that to their callers.                       *)
ProviderError(c) ==
  /\ At(c, "provider")
  /\ \/ /\ call[c].kind = "atomic"
        /\ End(c, "raised")
     \/ /\ call[c].kind = "search"
        /\ Moves(c, "upload")
        /\ UNCHANGED <<sem, lock>>
  /\ UNCHANGED <<rows, host, up>>

(* upload_audit_body returns; write_failure goes on even when it raised.   *)
Upload(c) ==
  /\ At(c, "upload")
  /\ Moves(c, "lock")
  /\ UNCHANGED <<rows, sem, lock, host, up>>

LockFreeAlways(m) == TRUE             \* mutant: no lock
LockFree(m) == lock[m] = None

(* `async with self._run_lock(run_id)`.                                    *)
TakeLock(c) ==
  /\ At(c, "lock")
  /\ LockFree(call[c].client)
  /\ lock' = [lock EXCEPT ![call[c].client] = c]
  /\ Moves(c, "tail")
  /\ UNCHANGED <<rows, sem, host, up>>

ReadsTail(c, prev, seq) ==
  call' = [call EXCEPT ![c] =
             [@ EXCEPT !.pc = "insert", !.prev = prev, !.seq = seq]]

(* get_prev_hash_and_seq, a transaction of its own.                        *)
ReadTail(c) ==
  /\ At(c, "tail")
  /\ \/ rows = {} /\ ReadsTail(c, Genesis, 1)
     \/ \E x \in rows : /\ \A y \in rows : y.seq <= x.seq
                        /\ ReadsTail(c, x.hash, x.seq + 1)
  /\ UNCHANGED <<rows, sem, lock, host, up>>

NeverTaken(seq) == FALSE              \* mutant: no uq_audit_tenant_run_seq
Taken(seq) == \E x \in rows : x.seq = seq

(* write_full_row, another transaction: one INSERT under the unique        *)
(* constraint; an IntegrityError leaves the answered call without a row.   *)
Insert(c) ==
  /\ At(c, "insert")
  /\ \/ /\ ~Taken(call[c].seq)
        /\ rows' = rows \cup {RowOf(c, call[c].prev, call[c].seq)}
        /\ End(c, "audited")
     \/ /\ Taken(call[c].seq)
        /\ UNCHANGED rows
        /\ End(c, "collided")
  /\ UNCHANGED <<host, up>>

GivenUp(c) == IF At(c, "insert") THEN "orphan" ELSE "aborted"

(* An upload or a transaction raises, or the task is cancelled at an await *)
(* (the run ceiling does that).                                            *)
Abort(c) ==
  /\ call[c].pc \in Active
  /\ End(c, GivenUp(c))
  /\ UNCHANGED <<rows, host, up>>

(* The database settles an INSERT whose sender is gone: it commits, or it  *)
(* is rolled back or refused.                                              *)
Settle(c) ==
  /\ At(c, "orphan")
  /\ call' = [call EXCEPT ![c] = Over(@, "aborted")]
  /\ \/ UNCHANGED rows
     \/ /\ ~Taken(call[c].seq)
        /\ rows' = rows \cup {RowOf(c, call[c].prev, call[c].seq)}
  /\ UNCHANGED <<sem, lock, host, up>>

(* The process dies, and its semaphore, locks and calls with it.           *)
Crash(p) ==
  /\ p \in up
  /\ up' = up \ {p}
  /\ call' = [c \in Call |-> IF call[c].pc \in Active /\ HostOf(c) = p
                             THEN Over(call[c], GivenUp(c)) ELSE call[c]]
  /\ sem' = [sem EXCEPT ![p] = Slots]
  /\ lock' = [m \in Client |-> IF host[m] = p THEN None ELSE lock[m]]
  /\ UNCHANGED <<rows, host>>

(* What a call does when nothing goes wrong.                               *)
Advance(c) ==
  TakeSlot(c) \/ Respond(c) \/ Upload(c) \/ TakeLock(c) \/ ReadTail(c) \/ Insert(c)

Next ==
  \/ \E c \in Call, m \in Client, kind \in Kind : Begin(c, m, kind)
  \/ \E c \in Call : Advance(c) \/ ProviderError(c) \/ Abort(c) \/ Settle(c)
  \/ \E p \in Proc : Crash(p)

Spec == Init /\ [][Next]_vars

(* The event loop runs ready coroutines, permits and locks are handed out  *)
(* in turn, and every provider call and database statement is bounded by a *)
(* timeout.  Nothing need begin, raise, be cancelled or crash.             *)
Fairness == \A c \in Call : WF_vars(Advance(c))

FairSpec == Spec /\ Fairness

-----------------------------------------------------------------------------
(* The chain verifies at every moment, however the appends of several      *)
(* clients, their failures and their deaths interleave (verify_chain).     *)
ChainVerifies == VerifyChain(rows)

(* A client's lock keeps its own calls off each other's sequence numbers:  *)
(* an answered call that loses its row to the unique constraint lost it to *)
(* a call of another client, or to an INSERT whose call had given up.      *)
LockKeepsCallsApart ==
  \A c \in Call : At(c, "collided") =>
    \E x \in rows :
      /\ x.seq = call[c].seq
      /\ call[x.call].client # call[c].client \/ At(x.call, "aborted")

(* In every process the permits free and held add up to Slots, on every    *)
(* path out of a call, so the bound on in-flight calls neither shrinks nor *)
(* grows.                                                                  *)
PermitsAccounted ==
  \A p \in Proc :
    sem[p] + Cardinality({c \in Call : call[c].slot /\ HostOf(c) = p}) = Slots

(* Every call that begins ends: the semaphore is always taken before the   *)
(* lock, so no two calls wait for each other.                              *)
CallsEnd == \A c \in Call : call[c].pc \in Active ~> call[c].pc \in Ended

(* The run's chain has a single writer: no answered call loses its row to  *)
(* another writer's.                                                       *)
SingleWriter == \A c \in Call : ~At(c, "collided")
=============================================================================
