-------------------------- MODULE AuditChainProofs --------------------------
(***************************************************************************)
(* Theorems about AuditChain, for every number of processes, clients,      *)
(* calls and permits.                                                      *)
(***************************************************************************)
EXTENDS AuditChain, FiniteSetTheorems, TLAPS

-----------------------------------------------------------------------------
(* Typing.                                                                 *)

(* A call that was made belongs to a client; one that was not holds no slot.*)
Belongs ==
  \A c \in Call : /\ ~At(c, "idle") => call[c].client \in Client
                  /\ call[c].slot => call[c].pc \in Active
TInv == TypeOK /\ Belongs

(* A row written from a typed call is typed.                               *)
LEMMA RowTyped ==
  ASSUME NEW c \in Call, NEW prev \in Hash, NEW seq \in Nat
  PROVE  RowOf(c, prev, seq) \in AuditRow
BY DEF RowOf, AuditRow, LinkHash, Hash, Payload

LEMMA GenesisIsHash == Genesis \in Hash
BY DEF Genesis, Hash

(* What is left of a call is typed.                                        *)
LEMMA OverTyped ==
  ASSUME NEW x \in CallState, NEW how \in Ended
  PROVE  Over(x, how) \in CallState
<1>1. DEFINE prev == IF how = "orphan" THEN x.prev ELSE Genesis
<1>2. prev \in Hash  BY GenesisIsHash DEF CallState
<1>3. Over(x, how) = [x EXCEPT !.pc = how, !.slot = FALSE, !.kind = None,
                               !.prev = prev]
  BY DEF Over
<1>. HIDE DEF prev
<1>4. QED BY <1>2, <1>3 DEF CallState

(* Leaving both `async with` blocks keeps the state typed.                 *)
LEMMA EndTyped ==
  ASSUME TInv, NEW c \in Call, ~At(c, "idle"), NEW how \in Ended, End(c, how)
  PROVE  /\ call' \in [Call -> CallState]
         /\ sem' \in [Proc -> Nat]
         /\ lock' \in [Client -> Call \cup {None}]
         /\ \A d \in Call : /\ call'[d].pc # "idle" => call'[d].client \in Client
                            /\ call'[d].slot => call'[d].pc \in Active
<1>1. call[c] \in CallState  BY DEF TInv, TypeOK
<1>2. call' = [call EXCEPT ![c] = Over(call[c], how)]  BY DEF End
<1>3. Over(call[c], how) \in CallState  BY <1>1, OverTyped
<1>4. call' \in [Call -> CallState]  BY <1>2, <1>3 DEF TInv, TypeOK
<1>5. sem' \in [Proc -> Nat]
  <2>1. HostOf(c) \in Proc  BY DEF TInv, TypeOK, Belongs, HostOf, At
  <2>2. sem[HostOf(c)] \in Nat  BY <2>1 DEF TInv, TypeOK
  <2>3. QED BY <2>1, <2>2 DEF TInv, TypeOK, End
<1>6. lock' \in [Client -> Call \cup {None}]  BY DEF TInv, TypeOK, End
<1>7. ASSUME NEW d \in Call
      PROVE  /\ call'[d].pc # "idle" => call'[d].client \in Client
             /\ call'[d].slot => call'[d].pc \in Active
  <2>1. CASE d = c
    <3>1. call'[c] = Over(call[c], how)  BY <1>2 DEF TInv, TypeOK
    <3>2. call'[c].client = call[c].client /\ call'[c].slot = FALSE
      BY <3>1, <1>1 DEF Over, CallState
    <3>3. QED BY <2>1, <3>2 DEF TInv, Belongs, At
  <2>2. CASE d # c  BY <2>2, <1>2 DEF TInv, TypeOK, Belongs, At
  <2>3. QED BY <2>1, <2>2
<1>8. QED BY <1>4, <1>5, <1>6, <1>7

LEMMA InitTInv == Init => TInv
<1>1. ASSUME Init PROVE TInv
  <2>1. NotMade \in CallState  BY GenesisIsHash DEF NotMade, CallState
  <2>2. call = [c \in Call |-> NotMade]  BY <1>1 DEF Init
  <2>3. call \in [Call -> CallState]  BY <2>1, <2>2
  <2>4. TypeOK  BY <1>1, <2>3, AuditAssumption DEF Init, TypeOK
  <2>5. Belongs  BY <2>2 DEF Belongs, At, NotMade
  <2>6. QED BY <2>4, <2>5 DEF TInv
<1>2. QED BY <1>1

LEMMA GivenUpEnded == \A c \in Call : GivenUp(c) \in Ended
BY DEF GivenUp, Ended

LEMMA NextTInv == TInv /\ [Next]_vars => TInv'
<1>. SUFFICES ASSUME TInv, [Next]_vars PROVE TInv'
  OBVIOUS
<1>. USE DEF TInv
<1>1. ASSUME NEW c \in Call, NEW m \in Client, NEW k \in Kind, Begin(c, m, k)
      PROVE  TInv'
  <2>. DEFINE new == [call[c] EXCEPT !.client = m, !.kind = k, !.pc = FirstStop(k)]
  <2>1. call[c] \in CallState  BY DEF TypeOK
  <2>2. FirstStop(k) \in Active  BY <1>1 DEF Kind, Active, FirstStop
  <2>3. new \in CallState  BY <2>1, <2>2 DEF CallState
  <2>4. call' = [call EXCEPT ![c] = new]  BY <1>1, <2>1 DEF Begin, TypeOK
  <2>5. new.client = m /\ new.pc \in Active  BY <2>1, <2>2 DEF CallState
  <2>. HIDE DEF new
  <2>6. TypeOK'  BY <2>3, <2>4, <1>1 DEF TypeOK, Begin
  <2>7. Belongs'  BY <2>4, <2>5 DEF TypeOK, Belongs, At
  <2>8. QED BY <2>6, <2>7
<1>2. ASSUME NEW c \in Call, TakeSlot(c) PROVE TInv'
  <2>. DEFINE new == [call[c] EXCEPT !.slot = TRUE,
                        !.pc = IF call[c].kind = "deep" THEN "upload" ELSE "provider"]
  <2>1. call[c] \in CallState  BY DEF TypeOK
  <2>2. /\ new \in CallState /\ new.client = call[c].client
        /\ new.pc \in {"upload", "provider"}
    BY <2>1 DEF CallState, Active
  <2>3. call' = [call EXCEPT ![c] = new]  BY <1>2, <2>1 DEF TakeSlot, TypeOK
  <2>4. HostOf(c) \in Proc  BY <1>2 DEF TakeSlot, At, Belongs, TypeOK, HostOf
  <2>5. sem' \in [Proc -> Nat]
    <3>1. sem[HostOf(c)] \in Nat /\ sem[HostOf(c)] > 0
      BY <1>2, <2>4 DEF TakeSlot, SlotFree, TypeOK
    <3>2. QED BY <1>2, <2>4, <3>1 DEF TakeSlot, TypeOK
  <2>6. call[c].client \in Client  BY <1>2 DEF TakeSlot, At, Belongs
  <2>. HIDE DEF new
  <2>7. TypeOK'  BY <1>2, <2>2, <2>3, <2>5 DEF TypeOK, TakeSlot
  <2>8. Belongs'  BY <2>2, <2>3, <2>6 DEF TypeOK, Belongs, At, Active
  <2>9. QED BY <2>7, <2>8
<1>3. ASSUME NEW c \in Call, NEW to \in Active, Moves(c, to), ~At(c, "idle"),
             UNCHANGED <<rows, sem, host, up>>,
             lock' \in [Client -> Call \cup {None}]
      PROVE  TInv'
  <2>1. call[c] \in CallState  BY DEF TypeOK
  <2>2. [call[c] EXCEPT !.pc = to] \in CallState  BY <2>1 DEF CallState
  <2>3. call' = [call EXCEPT ![c] = [call[c] EXCEPT !.pc = to]]
    BY <1>3, <2>1 DEF Moves, TypeOK
  <2>4. TypeOK'  BY <1>3, <2>2, <2>3 DEF TypeOK
  <2>5. Belongs'  BY <1>3, <2>1, <2>3 DEF TypeOK, Belongs, At, CallState
  <2>6. QED BY <2>4, <2>5
<1>4. ASSUME NEW c \in Call, Respond(c) PROVE TInv'
  <2>1. PICK to \in Active : Moves(c, to)  BY <1>4 DEF Respond, Active
  <2>2. QED BY <1>3, <1>4, <2>1 DEF Respond, At, TypeOK
<1>5. ASSUME NEW c \in Call, Upload(c) PROVE TInv'
  BY <1>3, <1>5 DEF Upload, At, Active, TypeOK
<1>6. ASSUME NEW c \in Call, TakeLock(c) PROVE TInv'
  <2>1. lock' \in [Client -> Call \cup {None}]  BY <1>6 DEF TakeLock, TypeOK
  <2>2. QED BY <1>3, <1>6, <2>1 DEF TakeLock, At, Active
<1>7. ASSUME NEW c \in Call, ReadTail(c) PROVE TInv'
  <2>1. PICK prev \in Hash, seq \in Nat : ReadsTail(c, prev, seq)
    <3>1. CASE rows = {} /\ ReadsTail(c, Genesis, 1)
      BY <3>1, GenesisIsHash
    <3>2. CASE \E x \in rows : ReadsTail(c, x.hash, x.seq + 1)
      BY <3>2 DEF TypeOK, AuditRow
    <3>3. QED BY <1>7, <3>1, <3>2 DEF ReadTail
  <2>. DEFINE new == [call[c] EXCEPT !.pc = "insert", !.prev = prev, !.seq = seq]
  <2>2. call[c] \in CallState  BY DEF TypeOK
  <2>3. new \in CallState /\ new.client = call[c].client /\ new.pc = "insert"
    BY <2>2 DEF CallState, Active
  <2>4. call' = [call EXCEPT ![c] = new]  BY <2>1, <2>2 DEF ReadsTail, TypeOK
  <2>5. call[c].client \in Client  BY <1>7 DEF ReadTail, At, Belongs
  <2>. HIDE DEF new
  <2>6. TypeOK'  BY <1>7, <2>3, <2>4 DEF TypeOK, ReadTail
  <2>7. Belongs'  BY <2>3, <2>4, <2>5 DEF TypeOK, Belongs, At, Active
  <2>8. QED BY <2>6, <2>7
<1>8. ASSUME NEW c \in Call, ~At(c, "idle"), NEW how \in Ended, End(c, how),
             rows' \subseteq AuditRow, UNCHANGED <<host, up>>
      PROVE  TInv'
  BY <1>8, EndTyped DEF TypeOK, Belongs, At
<1>9. ASSUME NEW c \in Call
      PROVE  RowOf(c, call[c].prev, call[c].seq) \in AuditRow
  <2>1. call[c] \in CallState  BY DEF TypeOK
  <2>2. call[c].prev \in Hash /\ call[c].seq \in Nat  BY <2>1 DEF CallState
  <2>3. QED BY <2>2, RowTyped
<1>10. ASSUME NEW c \in Call, Insert(c) PROVE TInv'
  <2>1. rows' \subseteq AuditRow  BY <1>10, <1>9 DEF Insert, TypeOK
  <2>2. QED BY <1>8, <1>10, <2>1 DEF Insert, Ended, At
<1>11. ASSUME NEW c \in Call, ProviderError(c) PROVE TInv'
  <2>1. CASE End(c, "raised")
    BY <1>8, <1>11, <2>1 DEF ProviderError, Ended, At, TypeOK
  <2>2. CASE Moves(c, "upload") /\ UNCHANGED <<sem, lock>>
    BY <1>3, <1>11, <2>2 DEF ProviderError, Active, At, TypeOK
  <2>3. QED BY <1>11, <2>1, <2>2 DEF ProviderError
<1>12. ASSUME NEW c \in Call, Abort(c) PROVE TInv'
  BY <1>8, <1>12, GivenUpEnded DEF Abort, Active, At, TypeOK
<1>13. ASSUME NEW c \in Call, Settle(c) PROVE TInv'
  <2>1. call[c] \in CallState  BY DEF TypeOK
  <2>2. Over(call[c], "aborted") \in CallState  BY <2>1, OverTyped DEF Ended
  <2>3. /\ Over(call[c], "aborted").client = call[c].client
        /\ Over(call[c], "aborted").slot = FALSE
    BY <2>1 DEF Over, CallState
  <2>4. call' = [call EXCEPT ![c] = Over(call[c], "aborted")]
    BY <1>13 DEF Settle
  <2>5. rows' \subseteq AuditRow  BY <1>13, <1>9 DEF Settle, TypeOK
  <2>6. TypeOK'  BY <1>13, <2>2, <2>4, <2>5 DEF Settle, TypeOK
  <2>7. Belongs'  BY <1>13, <2>3, <2>4 DEF Settle, TypeOK, Belongs, At
  <2>8. QED BY <2>6, <2>7
<1>14. ASSUME NEW p \in Proc, Crash(p) PROVE TInv'
  <2>1. ASSUME NEW c \in Call
        PROVE  /\ Over(call[c], GivenUp(c)) \in CallState
               /\ Over(call[c], GivenUp(c)).client = call[c].client
               /\ Over(call[c], GivenUp(c)).slot = FALSE
    <3>1. call[c] \in CallState  BY DEF TypeOK
    <3>2. Over(call[c], GivenUp(c)) \in CallState
      BY <3>1, OverTyped, GivenUpEnded
    <3>3. QED BY <3>1, <3>2 DEF Over, CallState
  <2>2. \A c \in Call : call'[c] \in {call[c], Over(call[c], GivenUp(c))}
    BY <1>14 DEF Crash
  <2>3. call' \in [Call -> CallState]
    BY <1>14, <2>1 DEF Crash, TypeOK
  <2>4. TypeOK'
    <3>1. sem' \in [Proc -> Nat]  BY <1>14, AuditAssumption DEF Crash, TypeOK
    <3>2. lock' \in [Client -> Call \cup {None}]  BY <1>14 DEF Crash, TypeOK
    <3>3. up' \subseteq Proc  BY <1>14 DEF Crash, TypeOK
    <3>4. QED BY <1>14, <2>3, <3>1, <3>2, <3>3 DEF Crash, TypeOK
  <2>5. Belongs'
    <3>. SUFFICES ASSUME NEW c \in Call
         PROVE /\ call'[c].pc # "idle" => call'[c].client \in Client
               /\ call'[c].slot => call'[c].pc \in Active
      BY DEF Belongs, At
    <3>1. CASE call'[c] = call[c]  BY <3>1 DEF Belongs, At
    <3>2. CASE call'[c] # call[c]
      <4>1. call[c].pc \in Active  BY <1>14, <3>2 DEF Crash
      <4>2. QED BY <2>1, <2>2, <3>2, <4>1 DEF Belongs, At, Active
    <3>3. QED BY <3>1, <3>2
  <2>6. QED BY <2>4, <2>5
<1>15. CASE UNCHANGED vars  BY <1>15 DEF vars, TypeOK, Belongs, At
<1>16. QED
  BY <1>1, <1>2, <1>4, <1>5, <1>6, <1>7, <1>10, <1>11, <1>12, <1>13, <1>14, <1>15
     DEF Next, Advance

(* The state is typed, in every execution.                                 *)
THEOREM TypeCorrect == Spec => []TypeOK
<1>1. TInv => TypeOK  BY DEF TInv
<1>2. QED BY <1>1, InitTInv, NextTInv, PTL DEF Spec

-----------------------------------------------------------------------------
(* The chain.  The table is linked by consecutive sequence numbers, and a  *)
(* pending INSERT links where it was read: rows are only added, so a link  *)
(* is never lost, and the unique constraint keeps two from the same place. *)

Linked(seq, prev) ==
  \/ seq = 1 /\ prev = Genesis
  \/ \E x \in rows : x.seq + 1 = seq /\ prev = x.hash

RowsHashed == \A x \in rows :
                x.hash = LinkHash(x.prev, [call |-> x.call, seq |-> x.seq])
SeqUnique  == \A x, y \in rows : x.seq = y.seq => x = y
RowsLinked == \A x \in rows : x.seq >= 1 /\ Linked(x.seq, x.prev)
TailLinked == \A c \in Call : call[c].pc \in {"insert", "orphan"} =>
                call[c].seq >= 1 /\ Linked(call[c].seq, call[c].prev)

CInv == RowsHashed /\ SeqUnique /\ RowsLinked /\ TailLinked

LEMMA CInvVerifies == TypeOK /\ CInv => ChainVerifies
<1>. SUFFICES ASSUME TypeOK, CInv, NEW y \in rows
     PROVE /\ y.hash = LinkHash(y.prev, [call |-> y.call, seq |-> y.seq])
           /\ (\A x \in rows : y.seq <= x.seq) => y.prev = Genesis
           /\ \A x \in rows : Precedes(x, y, rows) => y.prev = x.hash
  BY DEF ChainVerifies, VerifyChain
<1>1. y.hash = LinkHash(y.prev, [call |-> y.call, seq |-> y.seq])
  BY DEF CInv, RowsHashed
<1>2. \A x \in rows : x.seq \in Nat  BY DEF TypeOK, AuditRow
<1>3. CASE y.seq = 1 /\ y.prev = Genesis
  <2>1. \A x \in rows : ~Precedes(x, y, rows)
    BY <1>2, <1>3 DEF Precedes, CInv, RowsLinked
  <2>2. QED BY <1>1, <1>3, <2>1
<1>4. ASSUME NEW z \in rows, z.seq + 1 = y.seq, y.prev = z.hash
      PROVE  /\ ~\A x \in rows : y.seq <= x.seq
             /\ \A x \in rows : Precedes(x, y, rows) => y.prev = x.hash
  <2>1. ~\A x \in rows : y.seq <= x.seq  BY <1>2, <1>4
  <2>2. ASSUME NEW x \in rows, Precedes(x, y, rows) PROVE x = z
    <3>1. x.seq < y.seq /\ ~(x.seq < z.seq /\ z.seq < y.seq)
      BY <2>2 DEF Precedes
    <3>2. x.seq = z.seq  BY <1>2, <1>4, <3>1
    <3>3. QED BY <3>2 DEF CInv, SeqUnique
  <2>3. QED BY <1>4, <2>1, <2>2
<1>5. QED BY <1>1, <1>3, <1>4 DEF CInv, RowsLinked, Linked

LEMMA InitCInv == Init => CInv
BY DEF Init, CInv, RowsHashed, SeqUnique, RowsLinked, TailLinked, NotMade

(* A step that adds no row and moves no call's pending INSERT keeps it all.*)
LEMMA CInvQuiet ==
  ASSUME CInv, rows' = rows,
         \A c \in Call : call'[c].pc \in {"insert", "orphan"} =>
           /\ call[c].pc \in {"insert", "orphan"}
           /\ call'[c].seq = call[c].seq /\ call'[c].prev = call[c].prev
  PROVE  CInv'
BY DEF CInv, RowsHashed, SeqUnique, RowsLinked, TailLinked, Linked

(* The pending INSERT of c commits.                                        *)
LEMMA CInvInsert ==
  ASSUME TInv, CInv, NEW c \in Call, call[c].pc \in {"insert", "orphan"},
         ~Taken(call[c].seq),
         rows' = rows \cup {RowOf(c, call[c].prev, call[c].seq)},
         NEW how \in {"audited", "aborted"},
         call' = [call EXCEPT ![c] = Over(@, how)]
  PROVE  CInv'
<1>. DEFINE new == RowOf(c, call[c].prev, call[c].seq)
<1>1. /\ new.call = c /\ new.seq = call[c].seq /\ new.prev = call[c].prev
      /\ new.hash = LinkHash(new.prev, [call |-> new.call, seq |-> new.seq])
  BY DEF RowOf
<1>. HIDE DEF new
<1>2. \A s, q : Linked(s, q) => Linked(s, q)'  BY DEF Linked
<1>3. call[c].seq >= 1 /\ Linked(call[c].seq, call[c].prev)
  BY DEF CInv, TailLinked
<1>4. RowsHashed'
  <2>1. \A x \in rows' : x \in rows \/ x = new  BY DEF new
  <2>2. QED BY <1>1, <2>1 DEF CInv, RowsHashed
<1>5. SeqUnique'
  <2>1. \A x \in rows' : x \in rows \/ x = new  BY DEF new
  <2>2. \A x \in rows : x.seq # new.seq  BY <1>1 DEF Taken
  <2>3. QED BY <2>1, <2>2 DEF CInv, SeqUnique
<1>6. RowsLinked'
  <2>1. \A x \in rows' : x \in rows \/ x = new  BY DEF new
  <2>2. \A x \in rows' : x.seq >= 1 /\ Linked(x.seq, x.prev)
    BY <1>1, <1>3, <2>1 DEF CInv, RowsLinked
  <2>3. QED BY <2>2, <1>2 DEF RowsLinked
<1>7. TailLinked'
  <2>. SUFFICES ASSUME NEW d \in Call, call'[d].pc \in {"insert", "orphan"}
       PROVE  (call[d].seq >= 1 /\ Linked(call[d].seq, call[d].prev))'
    BY DEF TailLinked
  <2>1. call[c] \in CallState  BY DEF TInv, TypeOK
  <2>2. call'[c].pc = how  BY <2>1 DEF TInv, TypeOK, Over, CallState
  <2>3. d # c  BY <2>2
  <2>4. call'[d] = call[d]  BY <2>3 DEF TInv, TypeOK
  <2>5. QED BY <2>4, <1>2 DEF CInv, TailLinked
<1>8. QED BY <1>4, <1>5, <1>6, <1>7 DEF CInv

(* A call leaves its blocks with nothing pending, or with what it had.     *)
LEMMA EndQuiet ==
  ASSUME TInv, NEW c \in Call, NEW how \in Ended,
         call' = [call EXCEPT ![c] = Over(@, how)],
         how = "orphan" => call[c].pc \in {"insert", "orphan"}
  PROVE  \A d \in Call : call'[d].pc \in {"insert", "orphan"} =>
           /\ call[d].pc \in {"insert", "orphan"}
           /\ call'[d].seq = call[d].seq /\ call'[d].prev = call[d].prev
<1>1. call[c] \in CallState  BY DEF TInv, TypeOK
<1>2. /\ Over(call[c], how).pc = how
      /\ Over(call[c], how).seq = call[c].seq
      /\ how = "orphan" => Over(call[c], how).prev = call[c].prev
  BY <1>1 DEF Over, CallState
<1>3. how # "insert"  BY DEF Ended
<1>4. QED BY <1>2, <1>3 DEF TInv, TypeOK

LEMMA NextCInv == TInv /\ CInv /\ [Next]_vars => CInv'
<1>. SUFFICES ASSUME TInv, CInv, [Next]_vars PROVE CInv'
  OBVIOUS
<1>0. \A d \in Call : call[d] \in CallState  BY DEF TInv, TypeOK
<1>1. ASSUME NEW c \in Call, NEW m \in Client, NEW k \in Kind, Begin(c, m, k)
      PROVE  CInv'
  <2>1. FirstStop(k) \notin {"insert", "orphan"}  BY DEF FirstStop, Kind
  <2>. DEFINE new == [call[c] EXCEPT !.client = m, !.kind = k, !.pc = FirstStop(k)]
  <2>2. new.pc = FirstStop(k)  BY <1>0 DEF CallState
  <2>3. call' = [call EXCEPT ![c] = new] /\ rows' = rows  BY <1>1 DEF Begin
  <2>. HIDE DEF new
  <2>4. QED BY <2>1, <2>2, <2>3, CInvQuiet DEF TInv, TypeOK
<1>2. ASSUME NEW c \in Call, TakeSlot(c) PROVE CInv'
  <2>. DEFINE new == [call[c] EXCEPT !.slot = TRUE,
                        !.pc = IF call[c].kind = "deep" THEN "upload" ELSE "provider"]
  <2>1. new.pc \in {"upload", "provider"}  BY <1>0 DEF CallState
  <2>2. call' = [call EXCEPT ![c] = new] /\ rows' = rows  BY <1>2 DEF TakeSlot
  <2>. HIDE DEF new
  <2>3. QED BY <2>1, <2>2, CInvQuiet DEF TInv, TypeOK
<1>3. ASSUME NEW c \in Call, NEW to \in {"slot", "upload", "lock", "tail"},
             Moves(c, to), rows' = rows
      PROVE  CInv'
  <2>1. [call[c] EXCEPT !.pc = to].pc = to  BY <1>0 DEF CallState
  <2>2. call' = [call EXCEPT ![c] = [call[c] EXCEPT !.pc = to]]
    BY <1>0, <1>3 DEF Moves, TInv, TypeOK
  <2>3. QED BY <1>3, <2>1, <2>2, CInvQuiet DEF TInv, TypeOK
<1>4. ASSUME NEW c \in Call, Respond(c) PROVE CInv'
  BY <1>3, <1>4 DEF Respond
<1>5. ASSUME NEW c \in Call, Upload(c) PROVE CInv'
  BY <1>3, <1>5 DEF Upload
<1>6. ASSUME NEW c \in Call, TakeLock(c) PROVE CInv'
  BY <1>3, <1>6 DEF TakeLock
<1>7. ASSUME NEW c \in Call, ReadTail(c) PROVE CInv'
  <2>1. PICK prev, seq : /\ ReadsTail(c, prev, seq)
                         /\ seq >= 1 /\ Linked(seq, prev)
    <3>1. CASE rows = {} /\ ReadsTail(c, Genesis, 1)
      BY <3>1 DEF Linked
    <3>2. ASSUME NEW x \in rows, ReadsTail(c, x.hash, x.seq + 1)
          PROVE  x.seq + 1 >= 1 /\ Linked(x.seq + 1, x.hash)
      <4>1. x.seq \in Nat  BY DEF TInv, TypeOK, AuditRow
      <4>2. QED BY <4>1 DEF Linked
    <3>3. QED BY <1>7, <3>1, <3>2 DEF ReadTail
  <2>. DEFINE new == [call[c] EXCEPT !.pc = "insert", !.prev = prev, !.seq = seq]
  <2>2. call' = [call EXCEPT ![c] = new] /\ rows' = rows
    BY <1>7, <2>1 DEF ReadsTail, ReadTail
  <2>3. new.prev = prev /\ new.seq = seq  BY <1>0 DEF CallState
  <2>. HIDE DEF new
  <2>4. \A s, q : Linked(s, q)' <=> Linked(s, q)  BY <2>2 DEF Linked
  <2>5. TailLinked'
    BY <2>1, <2>2, <2>3, <2>4 DEF TInv, TypeOK, CInv, TailLinked
  <2>6. RowsHashed' /\ SeqUnique' /\ RowsLinked'
    BY <2>2, <2>4 DEF CInv, RowsHashed, SeqUnique, RowsLinked
  <2>7. QED BY <2>5, <2>6 DEF CInv
<1>8. ASSUME NEW c \in Call, Insert(c) PROVE CInv'
  <2>1. CASE /\ ~Taken(call[c].seq) /\ End(c, "audited")
             /\ rows' = rows \cup {RowOf(c, call[c].prev, call[c].seq)}
    BY <1>8, <2>1, CInvInsert DEF Insert, At, End
  <2>2. CASE rows' = rows /\ End(c, "collided")
    BY <2>2, EndQuiet, CInvQuiet DEF End, Ended
  <2>3. QED BY <1>8, <2>1, <2>2 DEF Insert
<1>9. ASSUME NEW c \in Call, ProviderError(c) PROVE CInv'
  <2>1. CASE End(c, "raised")
    BY <1>9, <2>1, EndQuiet, CInvQuiet DEF End, Ended, ProviderError
  <2>2. CASE Moves(c, "upload")
    BY <1>3, <1>9, <2>2 DEF ProviderError
  <2>3. QED BY <1>9, <2>1, <2>2 DEF ProviderError
<1>10. ASSUME NEW c \in Call, Abort(c) PROVE CInv'
  <2>1. GivenUp(c) = "orphan" => call[c].pc \in {"insert", "orphan"}
    BY DEF GivenUp, At
  <2>2. call' = [call EXCEPT ![c] = Over(@, GivenUp(c))] /\ rows' = rows
    BY <1>10 DEF Abort, End
  <2>3. QED BY <2>1, <2>2, GivenUpEnded, EndQuiet, CInvQuiet
<1>11. ASSUME NEW c \in Call, Settle(c) PROVE CInv'
  <2>1. CASE rows' = rows
    BY <1>11, <2>1, EndQuiet, CInvQuiet DEF Settle, Ended
  <2>2. CASE /\ ~Taken(call[c].seq)
             /\ rows' = rows \cup {RowOf(c, call[c].prev, call[c].seq)}
    BY <1>11, <2>2, CInvInsert DEF Settle, At
  <2>3. QED BY <1>11, <2>1, <2>2 DEF Settle
<1>12. ASSUME NEW p \in Proc, Crash(p) PROVE CInv'
  <2>1. ASSUME NEW d \in Call, call'[d].pc \in {"insert", "orphan"}
        PROVE  /\ call[d].pc \in {"insert", "orphan"}
               /\ call'[d].seq = call[d].seq /\ call'[d].prev = call[d].prev
    <3>1. CASE call'[d] = call[d]  BY <2>1, <3>1
    <3>2. CASE call'[d] = Over(call[d], GivenUp(d))
      <4>1. /\ call'[d].pc = GivenUp(d) /\ call'[d].seq = call[d].seq
            /\ GivenUp(d) = "orphan" => call'[d].prev = call[d].prev
        BY <1>0, <3>2 DEF Over, CallState
      <4>2. GivenUp(d) = "orphan" /\ At(d, "insert")
        BY <2>1, <4>1 DEF GivenUp
      <4>3. QED BY <4>1, <4>2 DEF At
    <3>3. QED BY <1>12, <3>1, <3>2 DEF Crash
  <2>2. rows' = rows  BY <1>12 DEF Crash
  <2>3. QED BY <2>1, <2>2, CInvQuiet
<1>13. CASE UNCHANGED vars
  BY <1>13, CInvQuiet DEF vars
<1>14. QED
  BY <1>1, <1>2, <1>4, <1>5, <1>6, <1>7, <1>8, <1>9, <1>10, <1>11, <1>12, <1>13
     DEF Next, Advance

(* The run's chain verifies at every moment, however many clients append   *)
(* to it and however they fail.                                            *)
THEOREM ChainSound == Spec => []ChainVerifies
<1>1. Init => TInv /\ CInv  BY InitTInv, InitCInv
<1>2. TInv /\ CInv /\ [Next]_vars => (TInv /\ CInv)'  BY NextTInv, NextCInv
<1>3. TInv /\ CInv => ChainVerifies  BY CInvVerifies DEF TInv
<1>4. QED BY <1>1, <1>2, <1>3, PTL DEF Spec

-----------------------------------------------------------------------------
(* The lock.  A call between its read of the tail and its INSERT holds its *)
(* client's lock, so whatever has been inserted since it read comes from   *)
(* another client or from a call that had given up.                        *)

Stranger(x, c) ==
  call[x.call].client # call[c].client \/ At(x.call, "aborted")

LockHeld == \A c \in Call : call[c].pc \in {"tail", "insert"} =>
              lock[call[c].client] = c
RowsDone == \A x \in rows : call[x.call].pc \in {"audited", "aborted"}
OwnAfter == \A c \in Call : At(c, "insert") =>
              \A x \in rows : x.seq >= call[c].seq => Stranger(x, c)

LInv == LockHeld /\ RowsDone /\ OwnAfter /\ LockKeepsCallsApart

(* Calls that are over stay as they are.                                   *)
DoneStays ==
  \A d \in Call : call[d].pc \in {"audited", "aborted", "collided"} =>
    call'[d] = call[d]

LEMMA InitLInv == Init => LInv
BY DEF Init, LInv, LockHeld, RowsDone, OwnAfter, LockKeepsCallsApart, At, NotMade

(* A step that adds no row, and lets no call into "insert" or "collided".  *)
LEMMA LInvQuiet ==
  ASSUME TInv, LInv, rows' = rows, DoneStays, LockHeld',
         \A d \in Call : call'[d].pc = "insert" => call'[d] = call[d],
         \A d \in Call : call'[d].pc = "collided" => call'[d] = call[d]
  PROVE  LInv'
<1>1. \A x \in rows : x.call \in Call  BY DEF TInv, TypeOK, AuditRow
<1>2. \A x \in rows : call'[x.call] = call[x.call]
  BY <1>1 DEF LInv, RowsDone, DoneStays
<1>3. RowsDone'  BY <1>2 DEF LInv, RowsDone
<1>4. OwnAfter'  BY <1>2 DEF LInv, OwnAfter, At, Stranger
<1>5. LockKeepsCallsApart'  BY <1>2 DEF LInv, LockKeepsCallsApart, At
<1>6. QED BY <1>3, <1>4, <1>5 DEF LInv

(* One call moves without touching the critical section.                   *)
LEMMA LInvMoves ==
  ASSUME TInv, LInv, NEW c \in Call, NEW new \in CallState,
         call' = [call EXCEPT ![c] = new], rows' = rows, lock' = lock,
         call[c].pc \notin {"audited", "aborted", "collided"},
         new.pc \notin {"tail", "insert", "collided"}
  PROVE  LInv'
<1>1. \A d \in Call : d # c => call'[d] = call[d]  BY DEF TInv, TypeOK
<1>2. call'[c] = new  BY DEF TInv, TypeOK
<1>3. DoneStays  BY <1>1 DEF DoneStays
<1>4. LockHeld'  BY <1>1, <1>2 DEF LInv, LockHeld
<1>5. QED BY <1>1, <1>2, <1>3, <1>4, LInvQuiet

(* What a call's end leaves.                                               *)
LEMMA EndEffect ==
  ASSUME TInv, LInv, NEW c \in Call, NEW how \in Ended, End(c, how)
  PROVE  /\ \A d \in Call : d # c => call'[d] = call[d]
         /\ call'[c].pc = how /\ call'[c].client = call[c].client
         /\ call'[c].seq = call[c].seq
         /\ LockHeld'
<1>1. call[c] \in CallState  BY DEF TInv, TypeOK
<1>2. call' = [call EXCEPT ![c] = Over(call[c], how)]  BY DEF End
<1>3. /\ Over(call[c], how).pc = how
      /\ Over(call[c], how).client = call[c].client
      /\ Over(call[c], how).seq = call[c].seq
  BY <1>1 DEF Over, CallState
<1>4. /\ \A d \in Call : d # c => call'[d] = call[d]
      /\ call'[c] = Over(call[c], how)
  BY <1>2 DEF TInv, TypeOK
<1>5. LockHeld'
  <2>. SUFFICES ASSUME NEW d \in Call, call'[d].pc \in {"tail", "insert"}
       PROVE  lock'[call'[d].client] = d
    BY DEF LockHeld
  <2>1. d # c  BY <1>3, <1>4 DEF Ended
  <2>2. call'[d] = call[d]  BY <1>4, <2>1
  <2>3. lock[call[d].client] = d  BY <2>2 DEF LInv, LockHeld
  <2>4. call[d].client \in Client  BY <2>2 DEF TInv, Belongs, At
  <2>5. QED BY <2>1, <2>2, <2>3, <2>4 DEF End
<1>6. QED BY <1>3, <1>4, <1>5

(* The INSERT of c commits, in its critical section or after c gave up.    *)
LEMMA LInvInsert ==
  ASSUME TInv, LInv, NEW c \in Call, NEW how \in {"audited", "aborted"},
         call[c].pc \in {"insert", "orphan"},
         call[c].pc = "orphan" => how = "aborted",
         rows' = rows \cup {RowOf(c, call[c].prev, call[c].seq)},
         \A d \in Call : d # c => call'[d] = call[d],
         call'[c].pc = how, call'[c].client = call[c].client, LockHeld'
  PROVE  LInv'
<1>. DEFINE new == RowOf(c, call[c].prev, call[c].seq)
<1>1. new.call = c /\ new.seq = call[c].seq  BY DEF RowOf
<1>2. \A x \in rows' : x \in rows \/ x = new  OBVIOUS
<1>. HIDE DEF new
<1>3. \A x \in rows : x.call \in Call  BY DEF TInv, TypeOK, AuditRow
<1>4. \A x \in rows : x.call # c /\ call'[x.call] = call[x.call]
  BY <1>3 DEF LInv, RowsDone
<1>5. RowsDone'  BY <1>1, <1>2, <1>4 DEF LInv, RowsDone
<1>6. OwnAfter'
  <2>. SUFFICES ASSUME NEW d \in Call, At(d, "insert")', NEW x \in rows',
                       x.seq >= call'[d].seq
       PROVE  Stranger(x, d)'
    BY DEF OwnAfter
  <2>1. d # c /\ call'[d] = call[d]  BY DEF At
  <2>2. CASE x \in rows
    BY <2>1, <2>2, <1>4 DEF LInv, OwnAfter, Stranger, At
  <2>3. CASE x = new /\ how = "aborted"
    BY <2>3, <1>1 DEF Stranger, At
  <2>4. CASE x = new /\ call[c].pc = "insert"
    <3>1. lock[call[c].client] = c  BY <2>4 DEF LInv, LockHeld
    <3>2. lock[call[d].client] = d  BY <2>1 DEF LInv, LockHeld, At
    <3>3. call[c].client # call[d].client  BY <2>1, <3>1, <3>2
    <3>4. QED BY <2>1, <2>4, <3>3, <1>1 DEF Stranger
  <2>5. QED BY <1>2, <2>2, <2>3, <2>4
<1>7. LockKeepsCallsApart'
  <2>. SUFFICES ASSUME NEW d \in Call, At(d, "collided")'
       PROVE  \E x \in rows' :
                /\ x.seq = call'[d].seq
                /\ call'[x.call].client # call'[d].client \/ At(x.call, "aborted")'
    BY DEF LockKeepsCallsApart
  <2>1. call'[d] = call[d]  BY DEF At
  <2>2. PICK x \in rows :
          /\ x.seq = call[d].seq
          /\ call[x.call].client # call[d].client \/ At(x.call, "aborted")
    BY <2>1 DEF LInv, LockKeepsCallsApart, At
  <2>3. QED BY <2>1, <2>2, <1>4 DEF At
<1>8. QED BY <1>5, <1>6, <1>7 DEF LInv

LEMMA NextLInv == TInv /\ LInv /\ [Next]_vars => LInv'
<1>. SUFFICES ASSUME TInv, LInv, [Next]_vars PROVE LInv'
  OBVIOUS
<1>0. \A d \in Call : call[d] \in CallState  BY DEF TInv, TypeOK
<1>1. ASSUME NEW c \in Call, NEW m \in Client, NEW k \in Kind, Begin(c, m, k)
      PROVE  LInv'
  <2>1. FirstStop(k) \in {"slot", "provider", "upload"}  BY DEF FirstStop, Kind
  <2>. DEFINE new == [call[c] EXCEPT !.client = m, !.kind = k, !.pc = FirstStop(k)]
  <2>2. new \in CallState /\ new.pc = FirstStop(k)
    BY <1>0, <2>1 DEF CallState, Active
  <2>3. call' = [call EXCEPT ![c] = new] /\ rows' = rows /\ lock' = lock
    BY <1>1 DEF Begin
  <2>4. call[c].pc = "idle"  BY <1>1 DEF Begin, At
  <2>. HIDE DEF new
  <2>5. QED BY <2>1, <2>2, <2>3, <2>4, LInvMoves
<1>2. ASSUME NEW c \in Call, TakeSlot(c) PROVE LInv'
  <2>. DEFINE new == [call[c] EXCEPT !.slot = TRUE,
                        !.pc = IF call[c].kind = "deep" THEN "upload" ELSE "provider"]
  <2>1. new \in CallState /\ new.pc \in {"upload", "provider"}
    BY <1>0 DEF CallState, Active
  <2>2. call' = [call EXCEPT ![c] = new] /\ rows' = rows /\ lock' = lock
    BY <1>2 DEF TakeSlot
  <2>3. call[c].pc = "slot"  BY <1>2 DEF TakeSlot, At
  <2>. HIDE DEF new
  <2>4. QED BY <2>1, <2>2, <2>3, LInvMoves
<1>3. ASSUME NEW c \in Call, NEW to \in {"slot", "upload", "lock"},
             Moves(c, to), rows' = rows, lock' = lock,
             call[c].pc \in {"provider", "upload"}
      PROVE  LInv'
  <2>1. /\ [call[c] EXCEPT !.pc = to] \in CallState
        /\ [call[c] EXCEPT !.pc = to].pc = to
    BY <1>0 DEF CallState, Active
  <2>2. call' = [call EXCEPT ![c] = [call[c] EXCEPT !.pc = to]]
    BY <1>0, <1>3 DEF Moves, TInv, TypeOK
  <2>3. QED BY <1>3, <2>1, <2>2, LInvMoves
<1>4. ASSUME NEW c \in Call, Respond(c) PROVE LInv'
  BY <1>3, <1>4 DEF Respond, At
<1>5. ASSUME NEW c \in Call, Upload(c) PROVE LInv'
  BY <1>3, <1>5 DEF Upload, At
<1>6. ASSUME NEW c \in Call, TakeLock(c) PROVE LInv'
  <2>1. /\ [call[c] EXCEPT !.pc = "tail"].pc = "tail"
        /\ [call[c] EXCEPT !.pc = "tail"].client = call[c].client
    BY <1>0 DEF CallState
  <2>2. /\ call'[c] = [call[c] EXCEPT !.pc = "tail"]
        /\ \A d \in Call : d # c => call'[d] = call[d]
    BY <1>0, <1>6 DEF TakeLock, Moves, TInv, TypeOK
  <2>3. call[c].client \in Client  BY <1>6 DEF TakeLock, At, TInv, Belongs
  <2>4. LockHeld'
    <3>. SUFFICES ASSUME NEW d \in Call, call'[d].pc \in {"tail", "insert"}
         PROVE  lock'[call'[d].client] = d
      BY DEF LockHeld
    <3>1. CASE d = c
      BY <3>1, <2>1, <2>2, <2>3, <1>6 DEF TakeLock, TInv, TypeOK
    <3>2. CASE d # c
      <4>1. lock[call[d].client] = d  BY <3>2, <2>2 DEF LInv, LockHeld
      <4>2. call[d].client \in Client  BY <3>2, <2>2 DEF TInv, Belongs, At
      <4>3. call[d].client # call[c].client
        BY <4>1, <1>6, AuditAssumption DEF TakeLock, LockFree
      <4>4. QED BY <3>2, <4>1, <4>2, <4>3, <2>2, <1>6 DEF TakeLock, TInv, TypeOK
    <3>3. QED BY <3>1, <3>2
  <2>5. DoneStays  BY <2>2, <1>6 DEF DoneStays, TakeLock, At
  <2>6. rows' = rows  BY <1>6 DEF TakeLock
  <2>7. QED BY <2>1, <2>2, <2>4, <2>5, <2>6, LInvQuiet
<1>7. ASSUME NEW c \in Call, ReadTail(c) PROVE LInv'
  <2>1. PICK prev, seq : ReadsTail(c, prev, seq) /\ \A x \in rows : x.seq < seq
    <3>1. \A x \in rows : x.seq \in Nat  BY DEF TInv, TypeOK, AuditRow
    <3>2. CASE rows = {} /\ ReadsTail(c, Genesis, 1)  BY <3>2
    <3>3. ASSUME NEW x \in rows, \A y \in rows : y.seq <= x.seq
          PROVE  \A y \in rows : y.seq < x.seq + 1
      BY <3>1, <3>3
    <3>4. QED BY <1>7, <3>2, <3>3 DEF ReadTail
  <2>. DEFINE new == [call[c] EXCEPT !.pc = "insert", !.prev = prev, !.seq = seq]
  <2>2. new.pc = "insert" /\ new.seq = seq /\ new.client = call[c].client
    BY <1>0 DEF CallState
  <2>3. /\ call'[c] = new
        /\ \A d \in Call : d # c => call'[d] = call[d]
    BY <1>7, <2>1 DEF ReadsTail, TInv, TypeOK
  <2>. HIDE DEF new
  <2>4. rows' = rows /\ lock' = lock /\ call[c].pc = "tail"
    BY <1>7 DEF ReadTail, At
  <2>5. \A x \in rows : x.call \in Call /\ x.seq \in Nat
    BY DEF TInv, TypeOK, AuditRow
  <2>6. \A x \in rows : x.call # c /\ call'[x.call] = call[x.call]
    BY <2>3, <2>4, <2>5 DEF LInv, RowsDone
  <2>7. LockHeld'  BY <2>2, <2>3, <2>4 DEF LInv, LockHeld
  <2>8. RowsDone'  BY <2>4, <2>6 DEF LInv, RowsDone
  <2>9. OwnAfter'
    <3>1. seq \in Nat
      <4>1. call' \in [Call -> CallState]  BY NextTInv DEF TInv, TypeOK
      <4>2. QED BY <4>1, <2>2, <2>3 DEF CallState
    <3>2. \A x \in rows' : ~(x.seq >= call'[c].seq)
      BY <2>1, <2>2, <2>3, <2>4, <2>5, <3>1
    <3>3. QED BY <2>3, <2>4, <2>6, <3>2 DEF LInv, OwnAfter, Stranger, At
  <2>10. LockKeepsCallsApart'
    BY <2>2, <2>3, <2>4, <2>6 DEF LInv, LockKeepsCallsApart, At
  <2>11. QED BY <2>7, <2>8, <2>9, <2>10 DEF LInv
<1>8. ASSUME NEW c \in Call, Insert(c) PROVE LInv'
  <2>1. CASE /\ ~Taken(call[c].seq) /\ End(c, "audited")
             /\ rows' = rows \cup {RowOf(c, call[c].prev, call[c].seq)}
    <3>1. /\ \A d \in Call : d # c => call'[d] = call[d]
          /\ call'[c].pc = "audited" /\ call'[c].client = call[c].client
          /\ LockHeld'
      BY <2>1, EndEffect DEF Ended
    <3>2. call[c].pc = "insert"  BY <1>8 DEF Insert, At
    <3>3. QED BY <2>1, <3>1, <3>2, LInvInsert
  <2>2. CASE Taken(call[c].seq) /\ rows' = rows /\ End(c, "collided")
    <3>1. /\ \A d \in Call : d # c => call'[d] = call[d]
          /\ call'[c].pc = "collided" /\ call'[c].client = call[c].client
          /\ call'[c].seq = call[c].seq /\ LockHeld'
      BY <2>2, EndEffect DEF Ended
    <3>2. call[c].pc = "insert"  BY <1>8 DEF Insert, At
    <3>3. \A x \in rows : x.call \in Call /\ x.seq \in Nat
      BY DEF TInv, TypeOK, AuditRow
    <3>4. \A x \in rows : x.call # c /\ call'[x.call] = call[x.call]
      BY <3>1, <3>2, <3>3 DEF LInv, RowsDone
    <3>5. RowsDone'  BY <2>2, <3>4 DEF LInv, RowsDone
    <3>6. OwnAfter'  BY <2>2, <3>1, <3>4 DEF LInv, OwnAfter, Stranger, At
    <3>7. LockKeepsCallsApart'
      <4>1. PICK y \in rows : y.seq = call[c].seq  BY <2>2 DEF Taken
      <4>2. call[y.call].client # call[c].client \/ At(y.call, "aborted")
        BY <3>2, <3>3, <4>1 DEF LInv, OwnAfter, Stranger, At
      <4>3. QED
        BY <2>2, <3>1, <3>4, <4>1, <4>2 DEF LInv, LockKeepsCallsApart, At
    <3>8. QED BY <3>1, <3>5, <3>6, <3>7 DEF LInv
  <2>3. QED BY <1>8, <2>1, <2>2 DEF Insert
<1>9. ASSUME NEW c \in Call, NEW how \in {"raised", "aborted", "orphan"},
             End(c, how), rows' = rows, call[c].pc \in Active
      PROVE  LInv'
  <2>1. /\ \A d \in Call : d # c => call'[d] = call[d]
        /\ call'[c].pc = how /\ LockHeld'
    BY <1>9, EndEffect DEF Ended
  <2>2. DoneStays  BY <1>9, <2>1 DEF DoneStays, Active
  <2>3. QED BY <1>9, <2>1, <2>2, LInvQuiet
<1>10. ASSUME NEW c \in Call, ProviderError(c) PROVE LInv'
  <2>1. CASE End(c, "raised")
    BY <1>9, <1>10, <2>1 DEF ProviderError, Active, At
  <2>2. CASE Moves(c, "upload") /\ UNCHANGED <<sem, lock>>
    BY <1>3, <1>10, <2>2 DEF ProviderError, At
  <2>3. QED BY <1>10, <2>1, <2>2 DEF ProviderError
<1>11. ASSUME NEW c \in Call, Abort(c) PROVE LInv'
  BY <1>9, <1>11 DEF Abort, GivenUp
<1>12. ASSUME NEW c \in Call, Settle(c) PROVE LInv'
  <2>1. /\ Over(call[c], "aborted") \in CallState
        /\ Over(call[c], "aborted").pc = "aborted"
        /\ Over(call[c], "aborted").client = call[c].client
    <3>1. Over(call[c], "aborted") \in CallState
      BY <1>0, OverTyped DEF Ended
    <3>2. QED BY <1>0, <3>1 DEF Over, CallState
  <2>2. call' = [call EXCEPT ![c] = Over(call[c], "aborted")] /\ lock' = lock
    BY <1>12 DEF Settle
  <2>3. call[c].pc = "orphan"  BY <1>12 DEF Settle, At
  <2>4. CASE rows' = rows
    BY <2>1, <2>2, <2>3, <2>4, LInvMoves
  <2>5. CASE rows' = rows \cup {RowOf(c, call[c].prev, call[c].seq)}
    <3>1. /\ \A d \in Call : d # c => call'[d] = call[d]
          /\ call'[c] = Over(call[c], "aborted")
      BY <2>2 DEF TInv, TypeOK
    <3>2. LockHeld'  BY <2>1, <2>2, <3>1 DEF LInv, LockHeld
    <3>3. QED BY <2>1, <2>3, <2>5, <3>1, <3>2, LInvInsert
  <2>6. QED BY <1>12, <2>4, <2>5 DEF Settle
<1>13. ASSUME NEW p \in Proc, Crash(p) PROVE LInv'
  <2>1. ASSUME NEW d \in Call
        PROVE  \/ /\ call'[d] = call[d]
                  /\ ~(call[d].pc \in Active /\ HostOf(d) = p)
               \/ /\ call[d].pc \in Active
                  /\ call'[d].pc \in {"orphan", "aborted"}
    <3>1. Over(call[d], GivenUp(d)).pc \in {"orphan", "aborted"}
      BY <1>0 DEF Over, CallState, GivenUp
    <3>2. QED BY <1>13, <3>1 DEF Crash
  <2>2. DoneStays  BY <2>1 DEF DoneStays, Active
  <2>3. LockHeld'
    <3>. SUFFICES ASSUME NEW d \in Call, call'[d].pc \in {"tail", "insert"}
         PROVE  lock'[call'[d].client] = d
      BY DEF LockHeld
    <3>1. call'[d] = call[d] /\ HostOf(d) # p  BY <2>1 DEF Active
    <3>2. lock[call[d].client] = d  BY <3>1 DEF LInv, LockHeld
    <3>3. call[d].client \in Client  BY <3>1 DEF TInv, Belongs, At
    <3>4. QED BY <3>1, <3>2, <3>3, <1>13 DEF Crash, HostOf
  <2>4. rows' = rows  BY <1>13 DEF Crash
  <2>5. QED BY <2>1, <2>2, <2>3, <2>4, LInvQuiet
<1>14. CASE UNCHANGED vars
  BY <1>14 DEF vars, LInv, LockHeld, RowsDone, OwnAfter, LockKeepsCallsApart,
               Stranger, At
<1>15. QED
  BY <1>1, <1>2, <1>4, <1>5, <1>6, <1>7, <1>8, <1>10, <1>11, <1>12, <1>13, <1>14
     DEF Next, Advance

(* One client's calls never take each other's sequence number.             *)
THEOREM LockSound == Spec => []LockKeepsCallsApart
<1>1. Init => TInv /\ LInv  BY InitTInv, InitLInv
<1>2. TInv /\ LInv /\ [Next]_vars => (TInv /\ LInv)'  BY NextTInv, NextLInv
<1>3. LInv => LockKeepsCallsApart  BY DEF LInv
<1>4. QED BY <1>1, <1>2, <1>3, PTL DEF Spec

-----------------------------------------------------------------------------
(* The permits.  Only a call that holds no slot takes one, so each step    *)
(* moves at most one call into or out of the set that holds a process's.   *)

Holders(p) == {c \in Call : call[c].slot /\ HostOf(c) = p}

SlotOnce ==
  \A c \in Call :
    At(c, "slot") \/ (At(c, "provider") /\ call[c].kind = "deep") => ~call[c].slot

PInv == SlotOnce /\ PermitsAccounted

LEMMA InitPInv == Init => PInv
<1>. SUFFICES ASSUME Init PROVE PInv
  OBVIOUS
<1>1. \A p \in Proc : Holders(p) = {}  BY DEF Init, Holders, NotMade
<1>2. \A p \in Proc : sem[p] + Cardinality(Holders(p)) = Slots
  BY <1>1, FS_EmptySet, AuditAssumption DEF Init
<1>3. QED BY <1>2 DEF Init, PInv, SlotOnce, PermitsAccounted, Holders, NotMade, At

(* The same calls hold slots: the permits stay accounted for.              *)
LEMMA SameHolders ==
  ASSUME PermitsAccounted, sem' = sem, host' = host,
         \A d \in Call : call'[d].slot = call[d].slot,
         \A d \in Call : call[d].slot => call'[d].client = call[d].client
  PROVE  PermitsAccounted'
<1>1. ASSUME NEW p \in Proc PROVE Holders(p)' = Holders(p)
  <2>1. \A d \in Call : /\ call'[d].slot <=> call[d].slot
                       /\ call[d].slot => HostOf(d)' = HostOf(d)
    BY DEF HostOf
  <2>2. QED BY <2>1 DEF Holders
<1>2. QED BY <1>1 DEF PermitsAccounted, Holders

(* A call ends: its permit, if it held one, is back.                       *)
LEMMA EndPermits ==
  ASSUME TInv, PInv, NEW c \in Call, ~At(c, "idle"), NEW how \in Ended,
         End(c, how), host' = host
  PROVE  PInv'
<1>1. call[c] \in CallState  BY DEF TInv, TypeOK
<1>2. /\ Over(call[c], how).pc = how /\ Over(call[c], how).slot = FALSE
      /\ Over(call[c], how).client = call[c].client
  BY <1>1 DEF Over, CallState
<1>3. /\ call'[c] = Over(call[c], how)
      /\ \A d \in Call : d # c => call'[d] = call[d]
  BY DEF End, TInv, TypeOK
<1>4. SlotOnce'  BY <1>2, <1>3 DEF PInv, SlotOnce, At
<1>5. HostOf(c) \in Proc  BY DEF TInv, TypeOK, Belongs, At, HostOf
<1>6. ASSUME NEW p \in Proc
      PROVE  sem'[p] + Cardinality(Holders(p)') = Slots
  <2>1. sem[p] + Cardinality(Holders(p)) = Slots
    BY DEF PInv, PermitsAccounted, Holders
  <2>2. IsFiniteSet(Holders(p)) /\ sem[p] \in Nat
    BY FS_Subset, AuditAssumption DEF Holders, TInv, TypeOK
  <2>3. \A d \in Call : HostOf(d)' = HostOf(d)
    BY <1>2, <1>3 DEF HostOf
  <2>4. CASE p = HostOf(c) /\ call[c].slot
    <3>1. Holders(p)' = Holders(p) \ {c}  BY <1>2, <1>3, <2>3 DEF Holders
    <3>2. c \in Holders(p)  BY <2>4 DEF Holders
    <3>3. sem'[p] = sem[p] + 1  BY <2>4, <1>5 DEF End, TInv, TypeOK
    <3>4. Cardinality(Holders(p) \ {c}) = Cardinality(Holders(p)) - 1
      BY <2>2, <3>2, FS_RemoveElement
    <3>5. Cardinality(Holders(p)) \in Nat  BY <2>2, FS_CardinalityType
    <3>6. QED BY <2>1, <2>2, <3>1, <3>3, <3>4, <3>5
  <2>5. CASE ~(p = HostOf(c) /\ call[c].slot)
    <3>1. Holders(p)' = Holders(p)  BY <1>2, <1>3, <2>3, <2>5 DEF Holders
    <3>2. sem'[p] = sem[p]  BY <2>5, <1>5 DEF End, TInv, TypeOK
    <3>3. QED BY <2>1, <3>1, <3>2
  <2>6. QED BY <2>4, <2>5
<1>7. PermitsAccounted'  BY <1>6 DEF PermitsAccounted, Holders
<1>8. QED BY <1>4, <1>7 DEF PInv

LEMMA NextPInv == TInv /\ PInv /\ [Next]_vars => PInv'
<1>. SUFFICES ASSUME TInv, PInv, [Next]_vars PROVE PInv'
  OBVIOUS
<1>0. \A d \in Call : call[d] \in CallState  BY DEF TInv, TypeOK
<1>1. ASSUME NEW c \in Call, NEW m \in Client, NEW k \in Kind, Begin(c, m, k)
      PROVE  PInv'
  <2>. DEFINE new == [call[c] EXCEPT !.client = m, !.kind = k, !.pc = FirstStop(k)]
  <2>1. new.slot = call[c].slot  BY <1>0 DEF CallState
  <2>2. /\ call'[c] = new
        /\ \A d \in Call : d # c => call'[d] = call[d]
    BY <1>1 DEF Begin, TInv, TypeOK
  <2>3. ~call[c].slot  BY <1>1 DEF Begin, At, TInv, Belongs, Active
  <2>. HIDE DEF new
  <2>4. PermitsAccounted'
    BY <1>1, <2>1, <2>2, <2>3, SameHolders DEF Begin, PInv
  <2>5. SlotOnce'  BY <2>1, <2>2, <2>3 DEF PInv, SlotOnce, At
  <2>6. QED BY <2>4, <2>5 DEF PInv
<1>2. ASSUME NEW c \in Call, TakeSlot(c) PROVE PInv'
  <2>. DEFINE new == [call[c] EXCEPT !.slot = TRUE,
                        !.pc = IF call[c].kind = "deep" THEN "upload" ELSE "provider"]
  <2>1. /\ new.slot = TRUE /\ new.client = call[c].client
        /\ new.kind = call[c].kind /\ new.pc \in {"upload", "provider"}
        /\ new.pc = "provider" => call[c].kind # "deep"
    BY <1>0 DEF CallState
  <2>2. /\ call'[c] = new
        /\ \A d \in Call : d # c => call'[d] = call[d]
    BY <1>2 DEF TakeSlot, TInv, TypeOK
  <2>. HIDE DEF new
  <2>3. SlotOnce'  BY <2>1, <2>2 DEF PInv, SlotOnce, At
  <2>4. ~call[c].slot  BY <1>2 DEF TakeSlot, PInv, SlotOnce
  <2>5. HostOf(c) \in Proc
    BY <1>2 DEF TakeSlot, TInv, TypeOK, Belongs, At, HostOf
  <2>6. \A d \in Call : HostOf(d)' = HostOf(d)
    BY <1>2, <2>1, <2>2 DEF TakeSlot, HostOf
  <2>7. ASSUME NEW p \in Proc
        PROVE  sem'[p] + Cardinality(Holders(p)') = Slots
    <3>1. sem[p] + Cardinality(Holders(p)) = Slots
      BY DEF PInv, PermitsAccounted, Holders
    <3>2. IsFiniteSet(Holders(p)) /\ sem[p] \in Nat
      BY FS_Subset, AuditAssumption DEF Holders, TInv, TypeOK
    <3>3. CASE p = HostOf(c)
      <4>1. Holders(p)' = Holders(p) \cup {c}
        BY <2>1, <2>2, <2>6, <3>3 DEF Holders
      <4>2. c \notin Holders(p)  BY <2>4 DEF Holders
      <4>3. sem'[p] = sem[p] - 1
        BY <1>2, <3>3, <2>5 DEF TakeSlot, TInv, TypeOK
      <4>4. Cardinality(Holders(p) \cup {c}) = Cardinality(Holders(p)) + 1
        BY <3>2, <4>2, FS_AddElement
      <4>5. Cardinality(Holders(p)) \in Nat  BY <3>2, FS_CardinalityType
      <4>6. QED BY <3>1, <3>2, <4>1, <4>3, <4>4, <4>5
    <3>4. CASE p # HostOf(c)
      <4>1. Holders(p)' = Holders(p)  BY <2>2, <2>6, <3>4 DEF Holders
      <4>2. sem'[p] = sem[p]  BY <1>2, <3>4, <2>5 DEF TakeSlot, TInv, TypeOK
      <4>3. QED BY <3>1, <4>1, <4>2
    <3>5. QED BY <3>3, <3>4
  <2>8. PermitsAccounted'  BY <2>7 DEF PermitsAccounted, Holders
  <2>9. QED BY <2>3, <2>8 DEF PInv
<1>3. ASSUME NEW c \in Call, NEW to \in Active \ {"provider"}, Moves(c, to),
             to = "slot" => ~call[c].slot, sem' = sem, host' = host
      PROVE  PInv'
  <2>. DEFINE new == [call[c] EXCEPT !.pc = to]
  <2>1. new.pc = to /\ new.slot = call[c].slot /\ new.client = call[c].client
    BY <1>0 DEF CallState
  <2>2. /\ call'[c] = new
        /\ \A d \in Call : d # c => call'[d] = call[d]
    BY <1>0, <1>3 DEF Moves, TInv, TypeOK
  <2>. HIDE DEF new
  <2>3. PermitsAccounted'  BY <1>3, <2>1, <2>2, SameHolders DEF PInv
  <2>4. SlotOnce'  BY <1>3, <2>1, <2>2 DEF PInv, SlotOnce, At
  <2>5. QED BY <2>3, <2>4 DEF PInv
<1>4. ASSUME NEW c \in Call, Respond(c) PROVE PInv'
  <2>1. CASE call[c].kind = "deep"
    <3>1. ~call[c].slot  BY <1>4, <2>1 DEF Respond, PInv, SlotOnce
    <3>2. QED BY <1>3, <1>4, <2>1, <3>1 DEF Respond, Active
  <2>2. CASE call[c].kind # "deep"
    BY <1>3, <1>4, <2>2 DEF Respond, Active
  <2>3. QED BY <2>1, <2>2
<1>5. ASSUME NEW c \in Call, Upload(c) PROVE PInv'
  BY <1>3, <1>5 DEF Upload, Active
<1>6. ASSUME NEW c \in Call, TakeLock(c) PROVE PInv'
  BY <1>3, <1>6 DEF TakeLock, Active
<1>7. ASSUME NEW c \in Call, ReadTail(c) PROVE PInv'
  <2>1. PICK prev, seq : ReadsTail(c, prev, seq)  BY <1>7 DEF ReadTail
  <2>. DEFINE new == [call[c] EXCEPT !.pc = "insert", !.prev = prev, !.seq = seq]
  <2>2. /\ new.pc = "insert" /\ new.slot = call[c].slot
        /\ new.client = call[c].client
    BY <1>0 DEF CallState
  <2>3. /\ call'[c] = new
        /\ \A d \in Call : d # c => call'[d] = call[d]
    BY <2>1 DEF ReadsTail, TInv, TypeOK
  <2>. HIDE DEF new
  <2>4. PermitsAccounted'
    BY <1>7, <2>2, <2>3, SameHolders DEF ReadTail, PInv
  <2>5. SlotOnce'  BY <2>2, <2>3 DEF PInv, SlotOnce, At
  <2>6. QED BY <2>4, <2>5 DEF PInv
<1>8. ASSUME NEW c \in Call, Insert(c) PROVE PInv'
  BY <1>8, EndPermits DEF Insert, At, Ended
<1>9. ASSUME NEW c \in Call, ProviderError(c) PROVE PInv'
  <2>1. CASE End(c, "raised")
    BY <1>9, <2>1, EndPermits DEF ProviderError, At, Ended
  <2>2. CASE Moves(c, "upload") /\ UNCHANGED <<sem, lock>>
    BY <1>3, <1>9, <2>2 DEF ProviderError, Active
  <2>3. QED BY <1>9, <2>1, <2>2 DEF ProviderError
<1>10. ASSUME NEW c \in Call, Abort(c) PROVE PInv'
  BY <1>10, EndPermits, GivenUpEnded DEF Abort, At, Active
<1>11. ASSUME NEW c \in Call, Settle(c) PROVE PInv'
  <2>1. /\ Over(call[c], "aborted").pc = "aborted"
        /\ Over(call[c], "aborted").slot = FALSE
        /\ Over(call[c], "aborted").client = call[c].client
    BY <1>0 DEF Over, CallState
  <2>2. ~call[c].slot  BY <1>11 DEF Settle, At, TInv, Belongs, Active
  <2>3. call[c].slot \in BOOLEAN  BY <1>0 DEF CallState
  <2>4. /\ call'[c] = Over(call[c], "aborted")
        /\ \A d \in Call : d # c => call'[d] = call[d]
    BY <1>11 DEF Settle, TInv, TypeOK
  <2>5. PermitsAccounted'
    BY <1>11, <2>1, <2>2, <2>3, <2>4, SameHolders DEF Settle, PInv
  <2>6. SlotOnce'  BY <2>1, <2>4 DEF PInv, SlotOnce, At
  <2>7. QED BY <2>5, <2>6 DEF PInv
<1>12. ASSUME NEW p \in Proc, Crash(p) PROVE PInv'
  <2>1. ASSUME NEW d \in Call
        PROVE  /\ Over(call[d], GivenUp(d)).pc \in {"orphan", "aborted"}
               /\ Over(call[d], GivenUp(d)).slot = FALSE
               /\ Over(call[d], GivenUp(d)).client = call[d].client
    BY <1>0 DEF Over, CallState, GivenUp
  <2>2. \A d \in Call :
          call'[d] = IF call[d].pc \in Active /\ HostOf(d) = p
                     THEN Over(call[d], GivenUp(d)) ELSE call[d]
    BY <1>12 DEF Crash
  <2>3. \A d \in Call : HostOf(d)' = HostOf(d)
    BY <1>12, <2>1, <2>2 DEF HostOf, Crash
  <2>4. Holders(p)' = {}
    BY <2>1, <2>2, <2>3 DEF Holders, TInv, Belongs
  <2>5. ASSUME NEW q \in Proc, q # p PROVE Holders(q)' = Holders(q)
    BY <2>1, <2>2, <2>3, <2>5 DEF Holders
  <2>6. ASSUME NEW q \in Proc
        PROVE  sem'[q] + Cardinality(Holders(q)') = Slots
    <3>1. CASE q = p
      <4>1. sem'[p] = Slots  BY <1>12 DEF Crash, TInv, TypeOK
      <4>2. QED BY <2>4, <3>1, <4>1, FS_EmptySet, AuditAssumption
    <3>2. CASE q # p
      BY <1>12, <2>5, <3>2 DEF Crash, TInv, TypeOK, PInv, PermitsAccounted, Holders
    <3>3. QED BY <3>1, <3>2
  <2>7. PermitsAccounted'  BY <2>6 DEF PermitsAccounted, Holders
  <2>8. SlotOnce'  BY <2>1, <2>2 DEF PInv, SlotOnce, At
  <2>9. QED BY <2>7, <2>8 DEF PInv
<1>13. CASE UNCHANGED vars
  BY <1>13 DEF vars, PInv, SlotOnce, PermitsAccounted, HostOf, At
<1>14. QED
  BY <1>1, <1>2, <1>4, <1>5, <1>6, <1>7, <1>8, <1>9, <1>10, <1>11, <1>12, <1>13
     DEF Next, Advance

(* In every process, free and held permits add up to Slots.                *)
THEOREM PermitsSound == Spec => []PermitsAccounted
<1>1. Init => TInv /\ PInv  BY InitTInv, InitPInv
<1>2. TInv /\ PInv /\ [Next]_vars => (TInv /\ PInv)'  BY NextTInv, NextPInv
<1>3. PInv => PermitsAccounted  BY DEF PInv
<1>4. QED BY <1>1, <1>2, <1>3, PTL DEF Spec
=============================================================================
