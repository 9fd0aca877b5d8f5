------------------------------ MODULE StageProofs ------------------------------
(***************************************************************************)
(* The stages after the research, for every value of the constants.        *)
(*   RunFeed       the cursor of a reader never steps over a line that is  *)
(*                 still to be stored (FeedOrder: what is stored, what is  *)
(*                 being flushed and what waits are three rising runs).    *)
(*   Verification  a claim's status is what its verdicts say, and a claim  *)
(*                 that is dropped leaves nothing behind.                  *)
(*   Claims        merging the streams' claims loses no witness.           *)
(*   Report        every citation of a report leads to a source of the     *)
(*                 claims it was built from; a proposal is bought once.    *)
(* Each theorem is an inductive invariant with one case per action; the    *)
(* numbering of sources by counting is in Counting.                        *)
(***************************************************************************)
EXTENDS Verification, RunFeed, Report, Claims, Counting

---------------------------------------------------------------------------
(* The feed (RunFeed).  Lines are numbered upwards as they are emitted; what  *)
(* waits in the buffer comes after what is on its way to the table, and that  *)
(* after what the table holds; the cursor stands on a stored line.  A line    *)
(* that arrives is then ahead of every cursor.                                *)
FeedLine == [seq : Nat \ {0}, id : Nat]
Rising(s) == \A j, k \in DOMAIN s : j < k => s[j].seq < s[k].seq
Precedes(s, t) == \A j \in DOMAIN s, k \in DOMAIN t : s[j].seq < t[k].seq
NumberedBy(n, s) == \A k \in DOMAIN s : s[k].seq <= n
FeedType ==
    /\ buffer \in [seq : Nat, queue : Seq(FeedLine)] /\ Len(buffer.queue) <= QueueMax
    /\ inflight \in Seq(FeedLine) /\ table \in Seq(FeedLine)
    /\ lines \in Nat /\ cursor \in Nat
    /\ run \in {"closed", "open", "closing"}
    /\ run = "closed" => inflight = <<>> /\ buffer.queue = <<>>
FeedOrder ==
    /\ Rising(table) /\ Rising(inflight) /\ Rising(buffer.queue)
    /\ Precedes(table, inflight) /\ Precedes(table, buffer.queue) /\ Precedes(inflight, buffer.queue)
    /\ NumberedBy(buffer.seq, table) /\ NumberedBy(buffer.seq, inflight) /\ NumberedBy(buffer.seq, buffer.queue)
    /\ cursor = 0 \/ \E k \in DOMAIN table : table[k].seq = cursor
    /\ \A k \in DOMAIN table : table[k].seq <= cursor => table[k].id \in shown
FeedInv == ~unseeded => FeedType /\ FeedOrder

LEMMA FeedInit == FInit => FeedInv
<1> SUFFICES ASSUME FInit PROVE FeedInv
  OBVIOUS
<1>1. /\ run = "closed" /\ buffer = [seq |-> 0, queue |-> <<>>] /\ inflight = <<>>
      /\ table = <<>> /\ lines = 0 /\ cursor = 0
  BY DEF FInit
<1>2. <<>> \in Seq(FeedLine) /\ DOMAIN <<>> = {} /\ Len(<<>>) = 0
  BY EmptySeq
<1>3. FeedType
  BY <1>1, <1>2, FeedAssumption DEF FeedType
<1>4. FeedOrder
  BY <1>1, <1>2 DEF FeedOrder, Rising, Precedes, NumberedBy
<1> QED BY <1>3, <1>4 DEF FeedInv

(* Emitting numbers the new lines after all others.                           *)
LEMMA EmitQueue ==
  ASSUME FeedType, NEW n \in Nat, Emit(n)
  PROVE  /\ buffer' \in [seq : Nat, queue : Seq(FeedLine)] /\ Len(buffer'.queue) <= QueueMax
         /\ lines' \in Nat /\ buffer'.seq = buffer.seq + n
         /\ \A k \in DOMAIN buffer'.queue :
                \/ k \in DOMAIN buffer.queue /\ buffer'.queue[k] = buffer.queue[k]
                \/ /\ k > Len(buffer.queue) /\ k - Len(buffer.queue) \in 1 .. n
                   /\ buffer'.queue[k].seq = buffer.seq + (k - Len(buffer.queue))
<1> DEFINE room == QueueMax - Len(buffer.queue)
           m == IF room < n THEN room ELSE n
           new == [i \in 1 .. m |-> Line(i)]
<1>1. /\ buffer.seq \in Nat /\ buffer.queue \in Seq(FeedLine) /\ Len(buffer.queue) \in Nat
      /\ lines \in Nat /\ QueueMax \in Nat /\ room \in Nat
  BY FeedAssumption, LenProperties DEF FeedType
<1>2. m \in Nat /\ m <= n /\ Len(buffer.queue) + m <= QueueMax
  <2>1. CASE room < n
    <3>1. m = room
      BY <2>1
    <3> QED BY <1>1, <2>1, <3>1
  <2>2. CASE ~(room < n)
    <3>1. m = n
      BY <2>2
    <3> QED BY <1>1, <2>2, <3>1
  <2> QED BY <2>1, <2>2
<1>3. \A i \in 1 .. m : Line(i) \in FeedLine /\ Line(i).seq = buffer.seq + i
  BY <1>1, <1>2 DEF Line, FeedLine
<1>4. buffer' = [seq |-> buffer.seq + n, queue |-> buffer.queue \o new] /\ lines' = lines + n
  BY DEF Emit, Emitted
<1> HIDE DEF m, room
<1>5. new \in Seq(FeedLine)
  BY <1>2, <1>3, IsASeq
<1>6. Len(new) = m
  BY <1>2
<1>7. \A i \in 1 .. m : new[i].seq = buffer.seq + i
  BY <1>3
<1> HIDE DEF new
<1> DEFINE q == buffer.queue \o new
<1>8. /\ q \in Seq(FeedLine) /\ Len(q) = Len(buffer.queue) + m
      /\ \A k \in 1 .. Len(q) : q[k] = IF k <= Len(buffer.queue) THEN buffer.queue[k] ELSE new[k - Len(buffer.queue)]
  BY ZenonT(40), <1>1, <1>5, <1>6, ConcatProperties
<1>9. DOMAIN q = 1 .. Len(q) /\ DOMAIN buffer.queue = 1 .. Len(buffer.queue)
  BY <1>1, <1>8, LenProperties
<1>10. buffer'.queue = q /\ buffer'.seq = buffer.seq + n /\ buffer' = [seq |-> buffer.seq + n, queue |-> q]
  BY <1>4
<1> HIDE DEF q
<1>11. buffer' \in [seq : Nat, queue : Seq(FeedLine)] /\ Len(buffer'.queue) <= QueueMax /\ lines' \in Nat
  <2>1. buffer.seq + n \in Nat /\ q \in Seq(FeedLine)
    BY <1>1, <1>8
  <2>2. buffer' \in [seq : Nat, queue : Seq(FeedLine)]
    BY <1>10, <2>1
  <2>3. Len(buffer'.queue) <= QueueMax
    BY <1>2, <1>8, <1>10
  <2>4. lines' \in Nat
    BY <1>1, <1>4
  <2> QED BY <2>2, <2>3, <2>4
<1>12. ASSUME NEW k \in DOMAIN q
       PROVE  \/ k \in DOMAIN buffer.queue /\ q[k] = buffer.queue[k]
              \/ /\ k > Len(buffer.queue) /\ k - Len(buffer.queue) \in 1 .. n
                 /\ q[k].seq = buffer.seq + (k - Len(buffer.queue))
  <2>1. CASE k <= Len(buffer.queue)
    BY <1>1, <1>8, <1>9, <2>1
  <2>2. CASE ~(k <= Len(buffer.queue))
    <3>1. k - Len(buffer.queue) \in 1 .. m /\ q[k] = new[k - Len(buffer.queue)] /\ k > Len(buffer.queue)
      BY SMTT(30), <1>1, <1>2, <1>8, <1>9, <2>2
    <3> QED BY <1>1, <1>2, <1>7, <3>1
  <2> QED BY <2>1, <2>2
<1> QED BY <1>10, <1>11, <1>12

LEMMA EmitKeepsOrder ==
  ASSUME FeedType, FeedOrder, NEW n \in Nat, Emit(n)
  PROVE  /\ Rising(buffer'.queue) /\ Precedes(table, buffer'.queue) /\ Precedes(inflight, buffer'.queue)
         /\ NumberedBy(buffer'.seq, table) /\ NumberedBy(buffer'.seq, inflight) /\ NumberedBy(buffer'.seq, buffer'.queue)
<1> DEFINE q == buffer'.queue
           l == Len(buffer.queue)
<1>1. /\ buffer.seq \in Nat /\ l \in Nat /\ DOMAIN buffer.queue = 1 .. l
      /\ \A k \in DOMAIN buffer.queue : buffer.queue[k].seq \in Nat
      /\ \A k \in DOMAIN table : table[k].seq \in Nat
      /\ \A k \in DOMAIN inflight : inflight[k].seq \in Nat
  <2>1. \A s \in Seq(FeedLine) : \A k \in DOMAIN s : s[k].seq \in Nat
    <3>1. \A s \in Seq(FeedLine) : \A k \in DOMAIN s : s[k] \in FeedLine
      BY LenProperties, ElementOfSeq
    <3> QED BY <3>1 DEF FeedLine
  <2>2. buffer.queue \in Seq(FeedLine) /\ buffer.seq \in Nat /\ table \in Seq(FeedLine) /\ inflight \in Seq(FeedLine)
    BY DEF FeedType
  <2> QED BY <2>1, <2>2, LenProperties
<1>2. /\ buffer'.seq = buffer.seq + n
      /\ \A k \in DOMAIN q :
            \/ k \in DOMAIN buffer.queue /\ q[k] = buffer.queue[k]
            \/ k > l /\ k - l \in 1 .. n /\ q[k].seq = buffer.seq + (k - l)
  BY EmitQueue
<1>3. \A k \in DOMAIN q : k \in Nat
  BY EmitQueue, LenProperties
<1> HIDE DEF q, l
<1>4. /\ NumberedBy(buffer.seq, table) /\ NumberedBy(buffer.seq, inflight) /\ NumberedBy(buffer.seq, buffer.queue)
      /\ Rising(buffer.queue) /\ Precedes(table, buffer.queue) /\ Precedes(inflight, buffer.queue)
  BY DEF FeedOrder
<1>5. Rising(q)
  <2>1. SUFFICES ASSUME NEW j \in DOMAIN q, NEW k \in DOMAIN q, j < k PROVE q[j].seq < q[k].seq
    BY DEF Rising
  <2>2. CASE k \in DOMAIN buffer.queue /\ q[k] = buffer.queue[k]
    <3>1. j \in DOMAIN buffer.queue /\ q[j] = buffer.queue[j]
      BY <1>1, <1>2, <1>3, <2>1, <2>2
    <3> QED BY <1>4, <2>1, <2>2, <3>1 DEF Rising
  <2>3. CASE k > l /\ k - l \in 1 .. n /\ q[k].seq = buffer.seq + (k - l)
    <3>1. CASE j \in DOMAIN buffer.queue /\ q[j] = buffer.queue[j]
      BY <1>1, <1>4, <2>3, <3>1 DEF NumberedBy
    <3>2. CASE j > l /\ j - l \in 1 .. n /\ q[j].seq = buffer.seq + (j - l)
      BY <1>1, <1>3, <2>1, <2>3, <3>2
    <3> QED BY <1>2, <3>1, <3>2
  <2> QED BY <1>2, <2>2, <2>3
<1>6. ASSUME NEW s \in {table, inflight}
      PROVE  Precedes(s, q) /\ NumberedBy(buffer'.seq, s)
  <2>1. NumberedBy(buffer.seq, s) /\ Precedes(s, buffer.queue) /\ \A k \in DOMAIN s : s[k].seq \in Nat
    BY <1>1, <1>4
  <2> QED BY <1>1, <1>2, <2>1 DEF Precedes, NumberedBy
<1>7. NumberedBy(buffer'.seq, q)
  BY <1>1, <1>2, <1>4 DEF NumberedBy
<1> QED BY <1>5, <1>6, <1>7 DEF q

(* What an INSERT that lands makes of the table: the lines it carried come    *)
(* after those that were there, and after the cursor.                         *)
ReadUpTo(t) == /\ cursor = 0 \/ \E k \in DOMAIN t : t[k].seq = cursor
               /\ \A k \in DOMAIN t : t[k].seq <= cursor => t[k].id \in shown
LEMMA TableGrows ==
  ASSUME FeedType, FeedOrder, NEW t, t \in {table, table \o inflight}
  PROVE  /\ t \in Seq(FeedLine) /\ Rising(t) /\ ReadUpTo(t)
         /\ \A s : Precedes(table, s) /\ Precedes(inflight, s) => Precedes(t, s)
         /\ NumberedBy(buffer.seq, t)
<1>1. /\ table \in Seq(FeedLine) /\ inflight \in Seq(FeedLine) /\ cursor \in Nat
      /\ Rising(table) /\ Rising(inflight) /\ Precedes(table, inflight) /\ ReadUpTo(table)
      /\ NumberedBy(buffer.seq, table) /\ NumberedBy(buffer.seq, inflight)
  BY DEF FeedType, FeedOrder, ReadUpTo
<1>2. CASE t = table
  BY <1>1, <1>2
<1>3. CASE t = table \o inflight
  <2> DEFINE l == Len(table)
  <2>1. /\ t \in Seq(FeedLine) /\ l \in Nat /\ Len(inflight) \in Nat /\ DOMAIN t = 1 .. l + Len(inflight)
        /\ DOMAIN table = 1 .. l /\ DOMAIN inflight = 1 .. Len(inflight)
        /\ \A k \in DOMAIN t : t[k] = IF k <= l THEN table[k] ELSE inflight[k - l]
    BY <1>1, <1>3, ConcatProperties, LenProperties
  <2>2. \A k \in DOMAIN t : \/ k \in DOMAIN table /\ t[k] = table[k]
                            \/ k > l /\ k - l \in DOMAIN inflight /\ t[k] = inflight[k - l]
    BY <2>1
  <2>3. \A k \in DOMAIN table : k \in DOMAIN t /\ t[k] = table[k]
    BY <2>1
  <2>4. \A k \in DOMAIN t : k \in Nat /\ (k \in DOMAIN table <=> k <= l)
    BY <2>1
  <2>5. /\ \A k \in DOMAIN table : table[k].seq \in Nat
        /\ \A k \in DOMAIN inflight : inflight[k].seq \in Nat /\ inflight[k].seq # 0
    <3>1. /\ \A k \in DOMAIN table : table[k] \in FeedLine
          /\ \A k \in DOMAIN inflight : inflight[k] \in FeedLine
      BY <1>1, <2>1, ElementOfSeq
    <3> QED BY <3>1 DEF FeedLine
  <2>6. l \in Nat
    BY <2>1
  <2> HIDE DEF l
  <2>7. Rising(t)
    <3>1. SUFFICES ASSUME NEW j \in DOMAIN t, NEW k \in DOMAIN t, j < k PROVE t[j].seq < t[k].seq
      BY DEF Rising
    <3>2. CASE k \in DOMAIN table
      <4>1. j \in DOMAIN table
        BY <2>4, <2>6, <3>1, <3>2
      <4> QED BY <1>1, <2>3, <3>1, <3>2, <4>1 DEF Rising
    <3>3. CASE k \notin DOMAIN table /\ j \in DOMAIN table
      BY <1>1, <2>2, <2>3, <3>3 DEF Precedes
    <3>4. CASE k \notin DOMAIN table /\ j \notin DOMAIN table
      <4>1. /\ k - l \in DOMAIN inflight /\ t[k] = inflight[k - l]
            /\ j - l \in DOMAIN inflight /\ t[j] = inflight[j - l] /\ j - l < k - l
        BY <2>2, <2>4, <2>6, <3>1, <3>4
      <4> QED BY <1>1, <4>1 DEF Rising
    <3> QED BY <3>2, <3>3, <3>4
  <2>8. \A s : Precedes(table, s) /\ Precedes(inflight, s) => Precedes(t, s)
    BY <2>2 DEF Precedes
  <2>9. NumberedBy(buffer.seq, t)
    BY <1>1, <2>2 DEF NumberedBy
  <2>10. \A k \in DOMAIN inflight : cursor < inflight[k].seq
    BY <1>1, <2>5 DEF ReadUpTo, Precedes
  <2>11. ReadUpTo(t)
    <3>1. cursor = 0 \/ \E k \in DOMAIN t : t[k].seq = cursor
      BY <1>1, <2>3 DEF ReadUpTo
    <3>2. ASSUME NEW k \in DOMAIN t, t[k].seq <= cursor
          PROVE  t[k].id \in shown
      <4>1. k \in DOMAIN table /\ t[k] = table[k]
        <5>1. CASE k > l /\ k - l \in DOMAIN inflight /\ t[k] = inflight[k - l]
          BY <1>1, <2>5, <2>10, <3>2, <5>1
        <5> QED BY <2>2, <5>1
      <4> QED BY <1>1, <3>2, <4>1 DEF ReadUpTo
    <3> QED BY <3>1, <3>2 DEF ReadUpTo
  <2> QED BY <2>1, <2>7, <2>8, <2>9, <2>11
<1> QED BY <1>2, <1>3

(* The parts of a sequence in order.                                          *)
LEMMA Cuts ==
  ASSUME NEW s \in Seq(FeedLine), NEW n \in 0 .. Len(s)
  PROVE  /\ SubSeq(s, 1, n) \in Seq(FeedLine) /\ SubSeq(s, n + 1, Len(s)) \in Seq(FeedLine)
         /\ DOMAIN SubSeq(s, 1, n) = 1 .. n /\ \A k \in 1 .. n : SubSeq(s, 1, n)[k] = s[k] /\ k \in DOMAIN s
         /\ Len(SubSeq(s, n + 1, Len(s))) = Len(s) - n /\ DOMAIN SubSeq(s, n + 1, Len(s)) = 1 .. Len(s) - n
         /\ \A k \in 1 .. Len(s) - n : SubSeq(s, n + 1, Len(s))[k] = s[n + k] /\ n + k \in DOMAIN s
<1>1. Len(s) \in Nat /\ DOMAIN s = 1 .. Len(s) /\ n \in Nat /\ n <= Len(s)
  BY LenProperties
<1>2. \A k \in 1 .. Len(s) : s[k] \in FeedLine
  BY <1>1, ElementOfSeq
<1> DEFINE u == SubSeq(s, 1, n)
           v == SubSeq(s, n + 1, Len(s))
<1>3. /\ u \in Seq(FeedLine) /\ Len(u) = n /\ \A k \in 1 .. n : u[k] = s[k]
  BY <1>1, <1>2, SubSeqProperties
<1>4. /\ v \in Seq(FeedLine) /\ Len(v) = Len(s) - n /\ \A k \in 1 .. Len(s) - n : v[k] = s[n + k]
  <2>1. n + 1 \in Int /\ Len(s) \in Int /\ \A i \in n + 1 .. Len(s) : s[i] \in FeedLine
    BY <1>1, <1>2
  <2>2. /\ v \in Seq(FeedLine)
        /\ Len(v) = IF n + 1 <= Len(s) THEN Len(s) - (n + 1) + 1 ELSE 0
        /\ \A k \in 1 .. Len(s) - (n + 1) + 1 : v[k] = s[n + 1 + k - 1]
    BY <2>1, SubSeqProperties
  <2> HIDE DEF v
  <2>3. Len(v) = Len(s) - n
    BY <1>1, <2>2
  <2>4. ASSUME NEW k \in 1 .. Len(s) - n PROVE v[k] = s[n + k]
    <3>1. k \in 1 .. Len(s) - (n + 1) + 1 /\ n + 1 + k - 1 = n + k
      BY <1>1
    <3> QED BY <2>2, <3>1
  <2> QED BY <2>2, <2>3, <2>4
<1> HIDE DEF u, v
<1>5. DOMAIN u = 1 .. n /\ DOMAIN v = 1 .. Len(s) - n
  BY <1>3, <1>4, LenProperties
<1>6. (\A k \in 1 .. n : k \in DOMAIN s) /\ \A k \in 1 .. Len(s) - n : n + k \in DOMAIN s
  BY <1>1
<1> QED BY <1>3, <1>4, <1>5, <1>6 DEF u, v

LEMMA BoundaryNat == \A next \in BOOLEAN : Boundary(next) \in Nat
BY DEF Boundary

(* The execution opens after the greatest stored number, when it can read it. *)
LEMMA OpenStep ==
  ASSUME FeedInv, OpenRun
  PROVE  FeedInv'
<1> SUFFICES ASSUME ~unseeded' PROVE FeedType' /\ FeedOrder'
  BY DEF FeedInv
<1>1. /\ run = "closed" /\ run' = "open" /\ UNCHANGED <<inflight, table, lines, cursor, shown>>
  BY DEF OpenRun, readerVars
<1>2. PICK read \in BOOLEAN : /\ buffer' = [seq |-> IF read THEN StartSeq ELSE 0, queue |-> <<>>]
                             /\ unseeded' = (unseeded \/ (~read /\ table # <<>>))
  BY DEF OpenRun
<1>3. FeedType /\ FeedOrder /\ inflight = <<>>
  BY <1>1, <1>2 DEF FeedInv, FeedType
<1>4. /\ <<>> \in Seq(FeedLine) /\ DOMAIN <<>> = {} /\ Len(<<>>) = 0 /\ QueueMax \in Nat
      /\ table \in Seq(FeedLine) /\ Len(table) \in Nat /\ DOMAIN table = 1 .. Len(table)
      /\ \A k \in DOMAIN table : table[k].seq \in Nat
  <2>1. table \in Seq(FeedLine)
    BY <1>3 DEF FeedType
  <2>2. \A k \in DOMAIN table : table[k] \in FeedLine
    BY <2>1, LenProperties, ElementOfSeq
  <2>3. QueueMax \in Nat
    BY FeedAssumption
  <2> QED BY <2>1, <2>2, <2>3, EmptySeq, LenProperties DEF FeedLine
<1> DEFINE S == {table[k].seq : k \in DOMAIN table}
<1>5. StartSeq \in Nat /\ NumberedBy(StartSeq, table)
  <2>1. CASE table = <<>>
    BY <1>4, <2>1 DEF StartSeq, MaxSeq, NumberedBy
  <2>2. CASE table # <<>>
    <3>1. Len(table) \in DOMAIN table
      BY <1>4, <2>2, EmptySeq
    <3>2. S \in SUBSET Nat /\ S # {} /\ table[Len(table)].seq \in Nat
      BY <1>4, <3>1
    <3>3. \A x \in S : x <= table[Len(table)].seq
      BY <1>3, <1>4, <3>1 DEF FeedOrder, Rising
    <3> HIDE DEF S
    <3>4. Max(S) \in S /\ \A x \in S : x <= Max(S)
      BY <3>2, <3>3, GreatestExists
    <3>5. StartSeq = Max(S)
      BY <2>2 DEF StartSeq, MaxSeq, S
    <3> QED BY <3>2, <3>4, <3>5 DEF NumberedBy, S
  <2> QED BY <2>1, <2>2
<1> DEFINE n == IF read THEN StartSeq ELSE 0
<1>6. n \in Nat /\ NumberedBy(n, table)
  <2>1. CASE read
    BY <1>5, <2>1
  <2>2. CASE ~read
    BY <1>2, <1>4, <2>2 DEF NumberedBy
  <2> QED BY <2>1, <2>2
<1> HIDE DEF n, S
<1>7. buffer' = [seq |-> n, queue |-> <<>>]
  BY <1>2 DEF n
<1>8. buffer' \in [seq : Nat, queue : Seq(FeedLine)] /\ buffer'.seq = n /\ buffer'.queue = <<>>
  BY <1>4, <1>6, <1>7
<1>9. FeedType'
  BY <1>1, <1>3, <1>4, <1>8 DEF FeedType
<1>10. FeedOrder'
  BY <1>1, <1>3, <1>4, <1>6, <1>8 DEF FeedOrder, Rising, Precedes, NumberedBy
<1> QED BY <1>9, <1>10

(* Lines are emitted; an insertion that was on its way may land or be lost.   *)
LEMMA EmitStep ==
  ASSUME FeedType, FeedOrder, NEW n \in Nat, Emit(n), UNCHANGED <<cursor, shown>>,
         run # "closed", run' \in {"open", "closing"},
         \/ UNCHANGED <<table, inflight>>
         \/ table' \in {table, table \o inflight} /\ inflight' = <<>>
  PROVE  FeedType' /\ FeedOrder'
<1>1. /\ buffer' \in [seq : Nat, queue : Seq(FeedLine)] /\ Len(buffer'.queue) <= QueueMax
      /\ lines' \in Nat /\ buffer'.seq = buffer.seq + n
  BY EmitQueue
<1>2. /\ Rising(buffer'.queue) /\ Precedes(table, buffer'.queue) /\ Precedes(inflight, buffer'.queue)
      /\ NumberedBy(buffer'.seq, table) /\ NumberedBy(buffer'.seq, inflight) /\ NumberedBy(buffer'.seq, buffer'.queue)
  BY EmitKeepsOrder
<1>3. /\ table' \in Seq(FeedLine) /\ Rising(table') /\ ReadUpTo(table')
      /\ Precedes(table', buffer'.queue)
  BY <1>2, TableGrows
<1>4. NumberedBy(buffer'.seq, table')
  <2>1. NumberedBy(buffer.seq, table') /\ buffer.seq \in Nat
    BY TableGrows DEF FeedType
  <2>2. \A k \in DOMAIN table' : table'[k].seq \in Nat
    <3>1. \A k \in DOMAIN table' : table'[k] \in FeedLine
      BY <1>3, LenProperties, ElementOfSeq
    <3> QED BY <3>1 DEF FeedLine
  <2> QED BY <1>1, <2>1, <2>2 DEF NumberedBy
<1>5. /\ inflight' \in Seq(FeedLine) /\ Rising(inflight') /\ Precedes(inflight', buffer'.queue)
      /\ Precedes(table', inflight') /\ NumberedBy(buffer'.seq, inflight')
  <2>1. CASE inflight' = <<>>
    <3>1. inflight' \in Seq(FeedLine) /\ DOMAIN inflight' = {}
      BY <2>1, EmptySeq
    <3> QED BY <3>1 DEF Rising, Precedes, NumberedBy
  <2>2. CASE UNCHANGED <<table, inflight>>
    BY <1>2, <2>2 DEF FeedType, FeedOrder
  <2> QED BY <2>1, <2>2
<1>6. FeedType'
  BY <1>1, <1>3, <1>5 DEF FeedType
<1>7. FeedOrder'
  BY <1>2, <1>3, <1>4, <1>5 DEF FeedOrder, ReadUpTo
<1> QED BY <1>6, <1>7

(* The writer takes the first lines of the buffer.                            *)
LEMMA TakeStep ==
  ASSUME FeedType, FeedOrder, Takes
  PROVE  FeedType' /\ FeedOrder'
<1> DEFINE q == buffer.queue
           n == IF Len(q) < Batch THEN Len(q) ELSE Batch
<1>1. /\ run \in {"open", "closing"} /\ inflight = <<>> /\ q # <<>>
      /\ inflight' = SubSeq(q, 1, n) /\ buffer' = [buffer EXCEPT !.queue = SubSeq(q, n + 1, Len(q))]
      /\ UNCHANGED <<run, table, lines, cursor, shown>>
  BY DEF Takes, readerVars
<1>2. /\ q \in Seq(FeedLine) /\ Len(q) \in Nat /\ DOMAIN q = 1 .. Len(q) /\ Len(q) <= QueueMax
      /\ buffer \in [seq : Nat, queue : Seq(FeedLine)] /\ QueueMax \in Nat /\ Batch \in Nat
  BY FeedAssumption, LenProperties DEF FeedType
<1>3. n \in 0 .. Len(q)
  BY <1>2
<1> HIDE DEF n
<1> DEFINE u == SubSeq(q, 1, n)
           v == SubSeq(q, n + 1, Len(q))
<1>4. /\ u \in Seq(FeedLine) /\ v \in Seq(FeedLine) /\ DOMAIN u = 1 .. n
      /\ \A k \in 1 .. n : u[k] = q[k] /\ k \in DOMAIN q
      /\ Len(v) = Len(q) - n /\ DOMAIN v = 1 .. Len(q) - n
      /\ \A k \in 1 .. Len(q) - n : v[k] = q[n + k] /\ n + k \in DOMAIN q
  BY <1>2, <1>3, Cuts
<1> HIDE DEF u, v
<1>5. inflight' = u /\ buffer'.queue = v /\ buffer'.seq = buffer.seq
      /\ buffer' \in [seq : Nat, queue : Seq(FeedLine)]
  BY <1>1, <1>2, <1>4 DEF u, v
<1>6. FeedType'
  <2>1. Len(v) <= QueueMax
    BY <1>2, <1>3, <1>4
  <2>2. inflight' \in Seq(FeedLine) /\ buffer'.queue \in Seq(FeedLine) /\ Len(buffer'.queue) <= QueueMax
    BY <1>4, <1>5, <2>1
  <2>3. run' # "closed"
    BY <1>1
  <2> QED BY <1>1, <1>5, <2>2, <2>3 DEF FeedType
<1>7. Rising(q) /\ Precedes(table, q) /\ NumberedBy(buffer.seq, q)
  BY DEF FeedOrder
<1>8. Rising(u) /\ Precedes(table, u) /\ NumberedBy(buffer.seq, u)
  BY <1>4, <1>7 DEF Rising, Precedes, NumberedBy
<1>9. Rising(v)
  <2>1. SUFFICES ASSUME NEW j \in 1 .. Len(q) - n, NEW k \in 1 .. Len(q) - n, j < k PROVE v[j].seq < v[k].seq
    BY <1>4 DEF Rising
  <2>2. n + j < n + k
    BY <1>3, <2>1
  <2> QED BY <1>4, <1>7, <2>1, <2>2 DEF Rising
<1>10. Precedes(table, v) /\ NumberedBy(buffer.seq, v)
  BY <1>4, <1>7 DEF Precedes, NumberedBy
<1>11. Precedes(u, v)
  <2>1. SUFFICES ASSUME NEW j \in 1 .. n, NEW k \in 1 .. Len(q) - n PROVE u[j].seq < v[k].seq
    BY <1>4 DEF Precedes
  <2>2. j < n + k
    BY <1>3, <2>1
  <2> QED BY <1>4, <1>7, <2>1, <2>2 DEF Rising
<1>12. FeedOrder'
  BY <1>1, <1>5, <1>8, <1>9, <1>10, <1>11 DEF FeedOrder
<1> QED BY <1>6, <1>12

(* What was on its way lands or is lost, with the buffer or without it.       *)
LEMMA LandStep ==
  ASSUME FeedType, FeedOrder, Inserts \/ Discards \/ RunClosed \/ WorkerDies
  PROVE  FeedType' /\ FeedOrder'
<1>1. /\ table' \in {table, table \o inflight} /\ inflight' = <<>> /\ UNCHANGED <<lines, cursor, shown>>
      /\ \/ UNCHANGED <<run, buffer>> /\ inflight # <<>>
         \/ UNCHANGED buffer /\ buffer.queue = <<>> /\ run' = "closed"
         \/ run' = "closed" /\ buffer' = [buffer EXCEPT !.queue = <<>>]
  BY DEF Inserts, Discards, RunClosed, WorkerDies, Cut, readerVars
<1>2. <<>> \in Seq(FeedLine) /\ DOMAIN <<>> = {} /\ Len(<<>>) = 0 /\ QueueMax \in Nat
  BY EmptySeq, FeedAssumption
<1>3. /\ table' \in Seq(FeedLine) /\ Rising(table') /\ ReadUpTo(table') /\ NumberedBy(buffer.seq, table')
      /\ Precedes(table', buffer.queue)
  BY <1>1, TableGrows DEF FeedOrder
<1>4. /\ buffer' \in [seq : Nat, queue : Seq(FeedLine)] /\ buffer'.seq = buffer.seq
      /\ buffer'.queue \in {buffer.queue, <<>>} /\ Len(buffer'.queue) <= QueueMax
  <2>1. buffer \in [seq : Nat, queue : Seq(FeedLine)] /\ Len(buffer.queue) <= QueueMax
    BY DEF FeedType
  <2>2. CASE UNCHANGED buffer
    BY <2>1, <2>2
  <2>3. CASE buffer' = [buffer EXCEPT !.queue = <<>>]
    <3>1. buffer'.queue = <<>> /\ buffer'.seq = buffer.seq /\ buffer' \in [seq : Nat, queue : Seq(FeedLine)]
      BY <1>2, <2>1, <2>3
    <3>2. Len(buffer'.queue) = 0
      BY <1>2, <3>1
    <3> QED BY <1>2, <3>1, <3>2
  <2> QED BY <1>1, <2>2, <2>3
<1>5. run' = "closed" => buffer'.queue = <<>>
  BY <1>1 DEF FeedType
<1>6. FeedType'
  BY <1>1, <1>2, <1>3, <1>4, <1>5 DEF FeedType
<1>7. Rising(buffer'.queue) /\ Precedes(table', buffer'.queue) /\ NumberedBy(buffer.seq, buffer'.queue)
  BY <1>2, <1>3, <1>4 DEF FeedOrder, Rising, Precedes, NumberedBy
<1>8. FeedOrder'
  BY <1>1, <1>2, <1>3, <1>4, <1>7 DEF FeedOrder, ReadUpTo, Rising, Precedes, NumberedBy
<1> QED BY <1>6, <1>8

(* A page is an initial part of what is ahead of the cursor: a row up to the  *)
(* last one of the page has no more rows ahead of it than that one.           *)
LEMMA ReadStep ==
  ASSUME FeedType, FeedOrder, GetRunEvents
  PROVE  FeedType' /\ FeedOrder'
<1> DEFINE after == {k \in DOMAIN table : table[k].seq > cursor}
           Ahead(k) == {j \in after : table[j].seq < table[k].seq \/ (table[j].seq = table[k].seq /\ j < k)}
           paged == {k \in after : Cardinality(Ahead(k)) < PageLimit}
           S == {r.seq : r \in Page}
<1>1. Page = {table[k] : k \in paged}
  BY DEF Page
<1>2. /\ Page # {} /\ shown' = shown \cup {r.id : r \in Page} /\ cursor' = Max(S)
      /\ UNCHANGED <<run, buffer, inflight, table, lines>>
  BY DEF GetRunEvents
<1>3. /\ table \in Seq(FeedLine) /\ Len(table) \in Nat /\ DOMAIN table = 1 .. Len(table)
      /\ \A k \in DOMAIN table : table[k].seq \in Nat /\ table[k].seq <= buffer.seq
      /\ cursor \in Nat /\ buffer.seq \in Nat /\ Rising(table)
  <2>1. table \in Seq(FeedLine) /\ cursor \in Nat /\ buffer.seq \in Nat /\ Rising(table) /\ NumberedBy(buffer.seq, table)
    BY DEF FeedType, FeedOrder
  <2>2. \A k \in DOMAIN table : table[k] \in FeedLine
    BY <2>1, LenProperties, ElementOfSeq
  <2> QED BY <2>1, <2>2, LenProperties DEF FeedLine, NumberedBy
<1>4. paged \subseteq DOMAIN table /\ S = {table[k].seq : k \in paged}
  BY <1>1
<1>5. cursor' \in S /\ \A x \in S : x <= cursor'
  <2>1. S \in SUBSET Nat /\ S # {} /\ \A x \in S : x <= buffer.seq
    BY <1>2, <1>3, <1>4
  <2> HIDE DEF S
  <2> QED BY <1>2, <1>3, <2>1, GreatestExists
<1>6. PICK m \in paged : cursor' = table[m].seq
  BY <1>4, <1>5
<1>7. cursor' \in Nat /\ m \in DOMAIN table /\ m \in after /\ Cardinality(Ahead(m)) < PageLimit
  BY <1>3, <1>6
<1>8. IsFiniteSet(after)
  <2>1. IsFiniteSet(1 .. Len(table))
    BY <1>3, FS_Interval
  <2>2. after \in SUBSET (1 .. Len(table))
    BY <1>3
  <2> HIDE DEF after
  <2> QED BY <2>1, <2>2, FS_Subset
<1>9. ASSUME NEW k \in DOMAIN table, table[k].seq <= cursor'
      PROVE  table[k].id \in shown'
  <2>1. CASE table[k].seq <= cursor
    BY <1>2, <2>1 DEF FeedOrder
  <2>2. CASE k = m
    BY <1>1, <1>2, <1>6, <2>2
  <2>3. CASE table[k].seq > cursor /\ k # m
    <3>1. k \in after
      BY <2>3
    <3>2. k \in Nat /\ m \in Nat /\ (k < m \/ m < k)
      BY <1>3, <1>7, <2>3
    <3>3. table[k].seq < table[m].seq
      BY <1>3, <1>6, <1>7, <1>9, <3>2 DEF Rising
    <3>4. Ahead(k) \in SUBSET Ahead(m)
      BY <1>3, <1>7, <3>3
    <3>5. Ahead(m) \in SUBSET after
      OBVIOUS
    <3> HIDE DEF after, Ahead
    <3>6. IsFiniteSet(Ahead(m)) /\ Cardinality(Ahead(k)) <= Cardinality(Ahead(m))
      BY <1>8, <3>4, <3>5, FS_Subset
    <3>7. Cardinality(Ahead(m)) \in Nat /\ Cardinality(Ahead(k)) \in Nat /\ PageLimit \in Nat
      BY <3>4, <3>6, FS_Subset, FS_CardinalityType, FeedAssumption
    <3>8. Cardinality(Ahead(k)) < PageLimit
      BY <1>7, <3>6, <3>7
    <3>9. k \in paged
      BY <3>1, <3>8
    <3> QED BY <1>1, <1>2, <3>9
  <2> QED BY <1>3, <2>1, <2>2, <2>3
<1>10. FeedType'
  BY <1>2, <1>7 DEF FeedType
<1>11. FeedOrder'
  BY <1>2, <1>6, <1>7, <1>9 DEF FeedOrder
<1> QED BY <1>10, <1>11

LEMMA FeedStep == FeedInv /\ [FNext]_fvars => FeedInv'
<1> SUFFICES ASSUME FeedInv, [FNext]_fvars PROVE FeedInv'
  OBVIOUS
<1>1. CASE OpenRun
  BY <1>1, OpenStep
<1>2. CASE UNCHANGED fvars
  BY <1>2 DEF fvars, FeedInv, FeedType, FeedOrder, Rising, Precedes, NumberedBy
<1>3. ASSUME ~OpenRun, ~UNCHANGED fvars, ~unseeded'
      PROVE  FeedType' /\ FeedOrder'
  <2>1. FNext
    BY <1>3
  <2>2. UNCHANGED unseeded
    BY <1>3, <2>1 DEF FNext, EnterStage, TakeRow, FlushBudget, Takes, Inserts, Discards, CloseRun, RunClosed,
                      WorkerDies, GetRunEvents
  <2>3. FeedType /\ FeedOrder
    BY <1>3, <2>2 DEF FeedInv
  <2>4. CASE EnterStage
    <3>1. Emit(Boundary(TRUE)) /\ Boundary(TRUE) \in Nat /\ run = "open" /\ UNCHANGED <<run, inflight, table, cursor, shown>>
      BY <2>4, BoundaryNat DEF EnterStage, readerVars
    <3> QED BY <2>3, <3>1, EmitStep
  <2>5. CASE CloseRun
    <3>1. Emit(Boundary(FALSE)) /\ Boundary(FALSE) \in Nat /\ run = "open" /\ run' = "closing" /\ Cut
          /\ UNCHANGED <<cursor, shown>>
      BY <2>5, BoundaryNat DEF CloseRun, readerVars
    <3> QED BY <2>3, <3>1, EmitStep DEF Cut
  <2>6. CASE TakeRow \/ FlushBudget
    <3>1. run = "open" /\ UNCHANGED <<run, inflight, table, cursor, shown>> /\ (Emit(1) \/ UNCHANGED <<buffer, lines>>)
      BY <2>6 DEF TakeRow, FlushBudget, readerVars
    <3>2. CASE Emit(1)
      BY <2>3, <3>1, <3>2, EmitStep
    <3>3. CASE UNCHANGED <<buffer, lines>>
      BY <2>3, <3>1, <3>3 DEF FeedType, FeedOrder, Rising, Precedes, NumberedBy
    <3> QED BY <3>1, <3>2, <3>3
  <2> QED BY <1>3, <2>1, <2>3, <2>4, <2>5, <2>6, TakeStep, LandStep, ReadStep DEF FNext
<1> QED BY <1>1, <1>2, <1>3 DEF FeedInv

(* A reader that follows the feed page by page has been shown every stored    *)
(* line at or before its cursor, for any bounds of the buffer, the batches    *)
(* and the pages and any number of executions, deaths and lost batches.       *)
THEOREM CursorNeverSkipsHolds == FSpec => []CursorNeverSkips
<1>1. FeedInv => CursorNeverSkips
  BY DEF FeedInv, FeedOrder, CursorNeverSkips
<1> QED BY <1>1, FeedInit, FeedStep, PTL DEF FSpec

---------------------------------------------------------------------------
(* The verification stages (Verification).  From adjudication on, what was    *)
(* dropped is what the verdicts say: the only later verdicts are those of the *)
(* re-entry, and it adjudicates again.                                        *)
SettledStages == {"coverage", "conflict", "scrub", "done"}
VerdictsSettled == stage \in SettledStages => dropped = AdjudicateAll(verdicts)

LEMMA SettledStep == VerdictsSettled /\ [VNext]_vvars => VerdictsSettled'
<1> SUFFICES ASSUME VerdictsSettled, [VNext]_vvars PROVE VerdictsSettled'
  OBVIOUS
<1>1. CASE Merge \/ Gate \/ VerifyBatch \/ SkipTheRest
  BY <1>1 DEF Merge, Gate, VerifyBatch, SkipTheRest, VerdictsSettled, SettledStages
<1>2. CASE Adjudicate
  BY <1>2 DEF Adjudicate, VerdictsSettled, AdjudicateAll, Refuted
<1>3. CASE Reenter
  BY <1>3 DEF Reenter, AfterReentry, VerdictsSettled, AdjudicateAll, Refuted
<1>4. CASE ReentryBlocked \/ Settle \/ Conflict \/ Scrub
  BY <1>4 DEF ReentryBlocked, Settle, Conflict, Scrub, VerdictsSettled, SettledStages, AdjudicateAll, Refuted
<1>5. CASE UNCHANGED vvars
  BY <1>5 DEF vvars, VerdictsSettled, AdjudicateAll, Refuted
<1> QED BY <1>1, <1>2, <1>3, <1>4, <1>5 DEF VNext

(* What was dropped as refuted is what the verdicts say once the stage is     *)
(* settled, for any claims, partition into units, batch size, number of       *)
(* skeptics a claim and bound on the re-entries.                              *)
THEOREM VerdictsDecideHolds == VSpec => []VerdictsDecide
<1>1. VInit => VerdictsSettled
  BY DEF VInit, VerdictsSettled, SettledStages
<1>2. VerdictsSettled => VerdictsDecide
  BY DEF VerdictsSettled, VerdictsDecide, SettledStages, AdjudicateAll, Refuted
<1> QED BY <1>1, <1>2, SettledStep, PTL DEF VSpec

LEMMA TraceStep == DroppedLeavesNoTrace /\ [VNext]_vvars => DroppedLeavesNoTrace'
<1> SUFFICES ASSUME DroppedLeavesNoTrace, [VNext]_vvars PROVE DroppedLeavesNoTrace'
  OBVIOUS
<1>1. CASE Scrub
  <2>1. UNCHANGED <<dropped, losers>> /\ Removed = dropped \cup losers
    BY <1>1 DEF Scrub, Removed
  <2>2. stage' = "done" => prose' \cap {SentenceOf[c] : c \in Removed} = {}
    BY <1>1 DEF Scrub, Purge
  <2> QED BY <2>1, <2>2 DEF DroppedLeavesNoTrace
<1>2. CASE Merge \/ Gate \/ VerifyBatch \/ SkipTheRest \/ Adjudicate \/ Reenter \/ ReentryBlocked \/ Settle \/ Conflict
  <2>1. stage' # "done"
    BY <1>2 DEF Merge, Gate, VerifyBatch, SkipTheRest, Adjudicate, Reenter, ReentryBlocked, Settle, Conflict
  <2> QED BY <2>1 DEF DroppedLeavesNoTrace
<1>3. CASE UNCHANGED vvars
  BY <1>3 DEF vvars, DroppedLeavesNoTrace
<1> QED BY <1>1, <1>2, <1>3 DEF VNext

(* No report handed to the writer holds the evidence of a claim that fell,    *)
(* whatever spans the model named and whatever the conflict pass picked.      *)
THEOREM DroppedLeavesNoTraceHolds == VSpec => []DroppedLeavesNoTrace
<1>1. VInit => DroppedLeavesNoTrace
  BY DEF VInit, DroppedLeavesNoTrace
<1> QED BY <1>1, TraceStep, PTL DEF VSpec

---------------------------------------------------------------------------
(* The report (Report).  The rows of a table that cite sources each have a    *)
(* number, and the number leads to one of the row's own sources.              *)
KnownFacts(rows) == \A r \in rows : r.fact \in Fact
TableOfClaims(tab) == DOMAIN tab \in SUBSET Nat /\ KnownFacts(ToSet(tab))

LEMMA LinkedFinite ==
  ASSUME NEW row, row.fact \in Fact
  PROVE  Linked(row) \in SUBSET DOMAIN SourceRank
BY ReportAssumption DEF Linked, Walked

LEMMA FirstSourceLinked ==
  ASSUME NEW row, row.fact \in Fact, Linked(row) # {}
  PROVE  FirstSource(row) \in Linked(row)
<1> DEFINE S == {SourceRank[v] : v \in Linked(row)}
<1>1. Linked(row) \in SUBSET DOMAIN SourceRank /\ \A u \in DOMAIN SourceRank : SourceRank[u] \in Nat
  BY LinkedFinite, ReportAssumption
<1>2. PICK n \in S : \A m \in S : n <= m
  <2>1. S \in SUBSET Nat /\ S # {}
    BY <1>1
  <2> HIDE DEF S
  <2> QED BY <2>1, LeastExists
<1>3. \E u \in Linked(row) : \A v \in Linked(row) : SourceRank[u] <= SourceRank[v]
  BY <1>2
<1> QED BY <1>3 DEF FirstSource

LEMMA FirstSeenThere ==
  ASSUME NEW tab, TableOfClaims(tab), NEW u \in Sources(tab)
  PROVE  FirstSeen(tab, u) \in DOMAIN tab /\ FirstSeen(tab, u) \in Nat
<1> DEFINE S == {i \in DOMAIN tab : u \in Linked(tab[i])}
<1>1. PICK i \in S : \A j \in S : i <= j
  <2>1. S \in SUBSET Nat /\ S # {}
    BY DEF TableOfClaims, Sources, ToSet
  <2> HIDE DEF S
  <2> QED BY <2>1, LeastExists
<1>2. \E k \in DOMAIN tab : u \in Linked(tab[k]) /\ \A j \in DOMAIN tab : u \in Linked(tab[j]) => k <= j
  BY <1>1
<1>3. FirstSeen(tab, u) \in DOMAIN tab
  BY <1>2 DEF FirstSeen
<1> QED BY <1>3 DEF TableOfClaims

(* Every source of a table has a number of its own, and stands at it.         *)
LEMMA SourceNumbered ==
  ASSUME NEW tab, TableOfClaims(tab), NEW u \in Sources(tab)
  PROVE  NumberOfSource(tab, u) \in DOMAIN Numbered(tab) /\ Numbered(tab)[NumberOfSource(tab, u)] = u
<1> DEFINE S == Sources(tab)
           R == {p \in S \X S : SeenBefore(tab, p[1], p[2])}
           B(v) == {x \in S : <<x, v>> \in R}
<1>1. S \in SUBSET DOMAIN SourceRank
  BY LinkedFinite DEF Sources, TableOfClaims, KnownFacts
<1>2. IsFiniteSet(S)
  BY <1>1, ReportAssumption, FS_Subset
<1>3. \A v \in S : FirstSeen(tab, v) \in Nat /\ SourceRank[v] \in Nat
  BY <1>1, FirstSeenThere, ReportAssumption
<1>4. \A v \in S : <<v, v>> \notin R
  BY <1>3 DEF SeenBefore
<1>5. \A v, w, x \in S : <<v, w>> \in R /\ <<w, x>> \in R => <<v, x>> \in R
  BY <1>3 DEF SeenBefore
<1>6. \A v, w \in S : v = w \/ <<v, w>> \in R \/ <<w, v>> \in R
  BY <1>1, <1>3, ReportAssumption DEF SeenBefore
<1>7. \A v \in S : NumberOfSource(tab, v) = 1 + Cardinality(B(v))
  <2>1. SUFFICES ASSUME NEW v \in S PROVE NumberOfSource(tab, v) = 1 + Cardinality(B(v))
    OBVIOUS
  <2>2. B(v) = {x \in Sources(tab) : SeenBefore(tab, x, v)}
    OBVIOUS
  <2> QED BY <2>2 DEF NumberOfSource
<1> HIDE DEF R
<1>8. \A v \in S : /\ Cardinality(B(v)) \in 0 .. Cardinality(S) - 1
                   /\ \A w \in S : Cardinality(B(v)) = Cardinality(B(w)) => v = w
  <2> HIDE DEF S
  <2> QED BY <1>2, <1>4, <1>5, <1>6, RanksDiffer
<1>9. Cardinality(S) \in Nat
  BY <1>2, FS_CardinalityType
<1> HIDE DEF B
<1>10. NumberOfSource(tab, u) \in 1 .. Cardinality(S)
  BY <1>7, <1>8, <1>9
<1>11. \A v \in S : NumberOfSource(tab, v) = NumberOfSource(tab, u) => v = u
  BY <1>7, <1>8
<1>12. Numbered(tab)[NumberOfSource(tab, u)] = CHOOSE v \in S : NumberOfSource(tab, v) = NumberOfSource(tab, u)
  BY <1>10 DEF Numbered
<1>13. (CHOOSE v \in S : NumberOfSource(tab, v) = NumberOfSource(tab, u)) = u
  BY <1>11
<1> QED BY <1>10, <1>12, <1>13 DEF Numbered

LEMMA ClaimNumbered ==
  ASSUME NEW tab, TableOfClaims(tab), NEW row \in ToSet(tab), Linked(row) # {}
  PROVE  /\ NumberOf(tab, row) \in DOMAIN Numbered(tab)
         /\ Numbered(tab)[NumberOf(tab, row)] \in Linked(row)
<1>1. FirstSource(row) \in Linked(row) /\ FirstSource(row) \in Sources(tab)
  BY FirstSourceLinked DEF TableOfClaims, KnownFacts, Sources
<1> QED BY <1>1, SourceNumbered DEF NumberOf

(* An anchor the writer was shown for a claim stands for that claim alone, so *)
(* the number it resolves to is the claim's.                                  *)
Lead(d) == \A c \in d.cites : c.n \in DOMAIN d.sources /\ d.sources[c.n] \in Linked(c.claim)

LEMMA AnchorsLead ==
  ASSUME NEW tab, TableOfClaims(tab), NEW row \in Ledger(tab), row.prefix \in DOMAIN AnchorNumbers(tab)
  PROVE  /\ AnchorNumbers(tab)[row.prefix] \in DOMAIN Numbered(tab)
         /\ Numbered(tab)[AnchorNumbers(tab)[row.prefix]] \in Linked(row)
<1> DEFINE numberable == {r \in ToSet(tab) : Linked(r) # {}}
           H == Holders(numberable, row.prefix)
<1>1. /\ row \in ToSet(tab) /\ row \in Holders(ToSet(tab), row.prefix)
      /\ \A q \in ToSet(tab) : q.prefix = row.prefix => q = row
  BY DEF Ledger, Holders
<1>2. /\ row.prefix \in {p \in Prefix : Holders(numberable, p) # {}}
      /\ AnchorNumbers(tab)[row.prefix] = NumberOf(tab, CHOOSE r \in H : TRUE)
  BY DEF AnchorNumbers
<1>3. H # {} /\ \A r \in H : r = row /\ Linked(r) # {}
  BY <1>1, <1>2 DEF Holders
<1>4. (CHOOSE r \in H : TRUE) = row /\ Linked(row) # {}
  BY <1>3
<1> QED BY <1>1, <1>2, <1>4, ClaimNumbered

LEMMA DocumentsCite ==
  ASSUME TableOfClaims(claimRows), NEW b, NEW s, NEW d \in Documents(b, s)
  PROVE  Lead(d)
<1>1. PICK x \in CitationContext :
           \E placed \in SUBSET x.ledger : d.cites = Cites(placed, x.numbers) /\ d.sources = x.sources
  BY DEF Documents
<1>2. CASE x = NoContext
  <2>1. x.ledger = {}
    BY <1>2 DEF NoContext
  <2>2. d.cites = {}
    BY <1>1, <2>1 DEF Cites
  <2> QED BY <2>2 DEF Lead
<1>3. CASE x = [ledger |-> Ledger(claimRows), numbers |-> AnchorNumbers(claimRows), sources |-> Numbered(claimRows)]
  <2>1. x.ledger = Ledger(claimRows) /\ x.numbers = AnchorNumbers(claimRows) /\ x.sources = Numbered(claimRows)
    BY <1>3
  <2>2. ASSUME NEW c \in d.cites
        PROVE  \E r \in Ledger(claimRows) : /\ r.prefix \in DOMAIN AnchorNumbers(claimRows)
                                            /\ c.claim = r /\ c.n = AnchorNumbers(claimRows)[r.prefix]
    BY <1>1, <2>1 DEF Cites
  <2> QED BY <1>1, <2>1, <2>2, AnchorsLead DEF Lead
<1> QED BY <1>1, <1>2, <1>3 DEF CitationContext

ReportInv ==
    /\ TableOfClaims(claimRows)
    /\ handed.survivors \in SUBSET Fact
    /\ \A b \in bundle : b.survivors \in SUBSET Fact
    /\ \A d \in document : Lead(d)

LEMMA ReportStep == ReportInv /\ [WNext]_wvars => ReportInv'
<1> SUFFICES ASSUME ReportInv, [WNext]_wvars PROVE ReportInv'
  OBVIOUS
<1>1. CASE Persist
  <2>1. UNCHANGED <<handed, bundle, document>>
    BY <1>1 DEF Persist
  <2>2. CASE UNCHANGED claimRows
    BY <2>1, <2>2 DEF ReportInv, TableOfClaims
  <2>3. CASE \E order \in SetToSeqs(handed.survivors), prefixes \in [handed.survivors -> Prefix] :
                claimRows' \in Tables(order, prefixes)
    <3>1. PICK order \in SetToSeqs(handed.survivors), prefixes \in [handed.survivors -> Prefix] :
                claimRows' \in Tables(order, prefixes)
      BY <2>3
    <3> DEFINE S == ToSet(claimRows) \cup NewRows(order, prefixes)
    <3>2. claimRows' \in [1 .. Cardinality(S) -> S]
      BY <3>1 DEF Tables, SetToSeqs
    <3>3. \A i \in DOMAIN order : order[i] \in Fact
      BY <3>1 DEF SetToSeqs, ReportInv
    <3>4. \A r \in S : r.fact \in Fact
      BY <3>3 DEF NewRows, ReportInv, TableOfClaims, KnownFacts
    <3> HIDE DEF S
    <3>5. DOMAIN claimRows' \in SUBSET Nat
      BY <3>2
    <3>6. ToSet(claimRows') \in SUBSET S
      BY <3>2 DEF ToSet
    <3>7. TableOfClaims(claimRows')
      BY <3>4, <3>5, <3>6 DEF TableOfClaims, KnownFacts
    <3> QED BY <2>1, <3>7 DEF ReportInv
  <2> QED BY <1>1, <2>2, <2>3 DEF Persist
<1>2. CASE Cache
  BY <1>2 DEF Cache, ReportInv, TableOfClaims
<1>3. CASE Write
  <2>1. PICK d \in Documents(handed, {}) : document' = {d}
    BY <1>3 DEF Write
  <2>2. Lead(d)
    BY <2>1, DocumentsCite DEF ReportInv
  <2> QED BY <1>3, <2>1, <2>2 DEF Write, ReportInv, TableOfClaims
<1>4. CASE Executes
  <2>1. UNCHANGED <<claimRows, bundle>>
    BY <1>4 DEF Executes
  <2>2. CASE \E b \in bundle : handed' = b /\ \E d \in Documents(b, spec) : document' = {d}
    <3>1. PICK b \in bundle : handed' = b /\ \E d \in Documents(b, spec) : document' = {d}
      BY <2>2
    <3>2. PICK d \in Documents(b, spec) : document' = {d}
      BY <3>1
    <3>3. Lead(d)
      BY DocumentsCite DEF ReportInv
    <3> QED BY <2>1, <3>1, <3>2, <3>3 DEF ReportInv, TableOfClaims
  <2>3. CASE (\E s \in SUBSET Fact, g \in SUBSET {"gap"} : handed' = [survivors |-> s, gaps |-> g]) /\ UNCHANGED document
    <3>1. handed'.survivors \in SUBSET Fact
      BY <2>3
    <3> QED BY <2>1, <2>3, <3>1 DEF ReportInv, TableOfClaims
  <2> QED BY <1>4, <2>2, <2>3 DEF Executes
<1>5. CASE UNCHANGED <<claimRows, handed, bundle, document>>
  BY <1>5 DEF ReportInv, TableOfClaims
<1>6. Proposes \/ Pause \/ EngineDies \/ Shaped \/ (\E a \in Asker : AsksProposal(a) \/ BuysProposal(a)) \/ UNCHANGED wvars
        => UNCHANGED <<claimRows, handed, bundle, document>>
  BY DEF Proposes, Pause, EngineDies, Shaped, AsksProposal, BuysProposal, wvars
<1> QED BY <1>1, <1>2, <1>3, <1>4, <1>5, <1>6 DEF WNext

(* A number in a report leads to a source of the claim it is anchored at.     *)
THEOREM CitationsLeadHolds == WSpec => []CitationsLead
<1>1. WInit => ReportInv
  <2>1. SUFFICES ASSUME WInit PROVE ReportInv
    OBVIOUS
  <2>2. DOMAIN <<>> = {}
    BY EmptySeq
  <2>3. claimRows = <<>> /\ handed = [survivors |-> {}, gaps |-> {}] /\ bundle = {} /\ document = {}
    BY <2>1 DEF WInit
  <2>4. TableOfClaims(claimRows)
    BY <2>2, <2>3 DEF TableOfClaims, KnownFacts, ToSet
  <2> QED BY <2>3, <2>4 DEF ReportInv
<1>2. ReportInv => CitationsLead
  BY DEF ReportInv, Lead, CitationsLead
<1> QED BY <1>1, <1>2, ReportStep, PTL DEF WSpec

---------------------------------------------------------------------------
(* The proposal.  A request that buys holds the run's lock, and no request's  *)
(* proposal was stored before it took it.                                     *)
Locked ==
    /\ proposals \in [engine : Nat, requests : {0, 1}] /\ asker \in [Asker -> {"waiting", "buying", "done"}]
    /\ \A a \in Asker : asker[a] = "buying" => runLock = a /\ proposals.requests = 0

LEMMA LockedStep == Locked /\ [WNext]_wvars => Locked'
<1> SUFFICES ASSUME Locked, [WNext]_wvars PROVE Locked'
  OBVIOUS
<1>1. CASE UNCHANGED <<proposals, asker, runLock>>
  BY <1>1 DEF Locked
<1>2. Persist \/ Cache \/ Proposes \/ Write \/ EngineDies \/ Shaped \/ Executes \/ UNCHANGED wvars
        => UNCHANGED <<proposals, asker, runLock>>
  BY DEF Persist, Cache, Proposes, Write, EngineDies, Shaped, Executes, wvars
<1>3. CASE Pause
  <2>1. /\ proposals' \in {proposals, [proposals EXCEPT !.engine = @ + 1]} /\ UNCHANGED <<asker, runLock>>
    BY <1>3 DEF Pause
  <2>2. proposals' \in [engine : Nat, requests : {0, 1}] /\ proposals'.requests = proposals.requests
    BY <2>1 DEF Locked
  <2> QED BY <2>1, <2>2 DEF Locked
<1>4. ASSUME NEW a \in Asker, AsksProposal(a)
      PROVE  Locked'
  <2>1. runLock = "free" /\ UNCHANGED proposals
    BY <1>4 DEF AsksProposal, Unlocked
  <2>2. \A b \in Asker : asker[b] # "buying"
    BY <2>1, ReportAssumption DEF Locked
  <2>3. CASE asker' = [asker EXCEPT ![a] = "done"] /\ UNCHANGED runLock
    BY <2>1, <2>2, <2>3 DEF Locked
  <2>4. CASE asker' = [asker EXCEPT ![a] = "buying"] /\ runLock' = a /\ proposals = NoProposals
    BY <2>1, <2>2, <2>4 DEF Locked, NoProposals
  <2> QED BY <1>4, <2>3, <2>4 DEF AsksProposal
<1>5. ASSUME NEW a \in Asker, BuysProposal(a)
      PROVE  Locked'
  <2>1. /\ asker[a] = "buying" /\ asker' = [asker EXCEPT ![a] = "done"]
        /\ proposals' \in {proposals, [proposals EXCEPT !.requests = @ + 1]}
    BY <1>5 DEF BuysProposal
  <2>2. proposals.requests = 0 /\ \A b \in Asker \ {a} : asker[b] # "buying"
    BY <2>1 DEF Locked
  <2>3. proposals' \in [engine : Nat, requests : {0, 1}]
    BY <2>1, <2>2 DEF Locked
  <2>4. \A b \in Asker : asker'[b] # "buying"
    BY <2>1, <2>2 DEF Locked
  <2>5. asker' \in [Asker -> {"waiting", "buying", "done"}]
    BY <2>1 DEF Locked
  <2> QED BY <2>3, <2>4, <2>5 DEF Locked
<1> QED BY <1>1, <1>2, <1>3, <1>4, <1>5 DEF WNext

(* However many requests ask, and whatever the engine does meanwhile, no two  *)
(* of them buy a proposal at a time and none buys when one of them has stored *)
(* its own.                                                                   *)
THEOREM ProposalBoughtOnceHolds == WSpec => []ProposalBoughtOnce
<1>1. WInit => Locked
  BY DEF WInit, Locked, NoProposals
<1>2. Locked => ProposalBoughtOnce
  BY DEF Locked, ProposalBoughtOnce
<1> QED BY <1>1, <1>2, LockedStep, PTL DEF WSpec

---------------------------------------------------------------------------
(* Claims (Claims).  A claim is a record, a list of them a sequence; what the *)
(* merge has made of the first n claims says for each of them who stated it,  *)
(* and whose attribution stands.                                              *)
IsClaim(c) ==
    c \in [text : {c.text}, found : {c.found}, urls : {c.urls}, single : BOOLEAN,
           facet : {c.facet}, group : {c.group}, source : {c.source}]
AreClaims(cs) == IsList(cs) /\ \A k \in DOMAIN cs : IsClaim(cs[k])
Holds(a, b) == b.found \subseteq a.found /\ b.urls \subseteq a.urls /\ (b.single => a.single)

(* What merging the first n claims leaves: each text once, all its witnesses, *)
(* and of the first that stated it the attribution.                           *)
Merged(d, cs, n) ==
    /\ AreClaims(d)
    /\ \A i, j \in DOMAIN d : SameText(d[i], d[j]) => i = j
    /\ \A k \in 1 .. n : Norm(cs[k].text) # "" => \E j \in DOMAIN d : SameText(d[j], cs[k]) /\ Holds(d[j], cs[k])
    /\ \A j \in DOMAIN d : \E k \in 1 .. n :
          /\ SameText(d[j], cs[k]) /\ Attribution(d[j]) = Attribution(cs[k]) /\ Norm(cs[k].text) # ""
          /\ \A i \in 1 .. k - 1 : ~SameText(cs[i], cs[k])

LEMMA MergeIntoKeeps ==
  ASSUME NEW a, NEW c, IsClaim(a), IsClaim(c)
  PROVE  LET m == MergeInto(a, c)
         IN  IsClaim(m) /\ m.text = a.text /\ Attribution(m) = Attribution(a) /\ Holds(m, a) /\ Holds(m, c)
<1> DEFINE m == MergeInto(a, c)
<1>1. PICK t, x, g, o : a \in [text : {t}, found : {a.found}, urls : {a.urls}, single : BOOLEAN, facet : {x}, group : {g}, source : {o}]
  BY DEF IsClaim
<1>2. PICK f, u : f = a.found \cup c.found /\ u = a.urls \cup c.urls
  OBVIOUS
<1>3. PICK s : s = (a.single \/ c.single) /\ s \in BOOLEAN
  BY DEF IsClaim
<1>4. m = [a EXCEPT !.found = f, !.urls = u, !.single = s]
  BY <1>2, <1>3 DEF MergeInto
<1>5. [a EXCEPT !.found = f, !.urls = u, !.single = s]
         \in [text : {t}, found : {f}, urls : {u}, single : {s}, facet : {x}, group : {g}, source : {o}]
  BY <1>1
<1> HIDE DEF m
<1>6. /\ m.text = t /\ m.found = f /\ m.urls = u /\ m.single = s /\ m.facet = x /\ m.group = g /\ m.source = o
  BY <1>4, <1>5
<1>7. IsClaim(m)
  BY <1>3, <1>4, <1>5, <1>6 DEF IsClaim
<1>8. m.text = a.text /\ Attribution(m) = Attribution(a)
  BY <1>1, <1>6 DEF Attribution
<1>9. Holds(m, a) /\ Holds(m, c)
  BY <1>2, <1>3, <1>6 DEF Holds
<1> QED BY <1>6, <1>7, <1>8, <1>9 DEF m

LEMMA JoinedKeeps ==
  ASSUME NEW cs, AreClaims(cs), NEW n \in 1 .. Len(cs), NEW d, Merged(d, cs, n - 1)
  PROVE  Merged(Joined(d, cs[n]), cs, n)
<1> DEFINE c == cs[n]
           same == {k \in DOMAIN d : SameText(d[k], c)}
           e == Joined(d, c)
<1>1. Len(cs) \in Nat /\ DOMAIN cs = 1 .. Len(cs) /\ n \in Nat /\ IsClaim(c)
  BY LenProperties DEF AreClaims, IsList
<1>2. d \in Seq(Range(d)) /\ Len(d) \in Nat /\ DOMAIN d = 1 .. Len(d) /\ d \in [1 .. Len(d) -> Range(d)]
  BY LenProperties DEF Merged, AreClaims, IsList
<1>3. \A k \in 1 .. n : k = n \/ k \in 1 .. n - 1
  BY <1>1
<1>4. CASE Norm(c.text) = ""
  <2>1. e = d
    BY <1>4 DEF Joined
  <2>2. \A k \in 1 .. n : Norm(cs[k].text) # "" => k \in 1 .. n - 1
    BY <1>3, <1>4
  <2>3. 1 .. n - 1 \in SUBSET (1 .. n)
    BY <1>1
  <2> HIDE DEF e, c
  <2> QED BY <2>1, <2>2, <2>3 DEF Merged, c, e
<1>5. CASE Norm(c.text) # "" /\ same = {}
  <2>1. e = Append(d, c)
    BY <1>5 DEF Joined, SameText
  <2> DEFINE X == Range(d) \cup {c}
  <2>2. d \in Seq(X) /\ c \in X
    <3>1. d \in [1 .. Len(d) -> X]
      BY <1>2
    <3> QED BY <1>2, <3>1, SeqDef
  <2> HIDE DEF c, e, X
  <2>3. /\ e \in Seq(X) /\ Len(e) = Len(d) + 1 /\ e[Len(d) + 1] = c /\ \A k \in 1 .. Len(d) : e[k] = d[k]
    BY <2>1, <2>2, AppendProperties
  <2>4. DOMAIN e = 1 .. Len(d) + 1
    BY <2>3, LenProperties
  <2>5. IsList(e)
    <3>1. e \in [1 .. Len(d) + 1 -> X]
      BY <2>3, LenProperties
    <3>2. e \in [1 .. Len(d) + 1 -> Range(e)]
      BY <2>4, <3>1 DEF Range
    <3> QED BY <1>2, <3>2, SeqDef DEF IsList
  <2>6. \A j \in DOMAIN e : (j \in DOMAIN d /\ e[j] = d[j]) \/ (j = Len(d) + 1 /\ e[j] = c)
    BY <1>2, <2>3, <2>4
  <2>7. AreClaims(e)
    BY <1>1, <2>5, <2>6 DEF AreClaims, Merged
  <2>8. \A i, j \in DOMAIN e : SameText(e[i], e[j]) => i = j
    <3>1. \A i \in DOMAIN d : ~SameText(d[i], c) /\ ~SameText(c, d[i])
      BY <1>5 DEF SameText
    <3>2. ASSUME NEW i \in DOMAIN e, NEW j \in DOMAIN e, SameText(e[i], e[j]) PROVE i = j
      <4>1. CASE i \in DOMAIN d /\ e[i] = d[i] /\ j \in DOMAIN d /\ e[j] = d[j]
        BY <3>2, <4>1 DEF Merged
      <4>2. CASE i = Len(d) + 1 /\ j = Len(d) + 1
        BY <4>2
      <4> QED BY <2>6, <3>1, <3>2, <4>1, <4>2
    <3> QED BY <3>2
  <2>9. ASSUME NEW k \in 1 .. n, Norm(cs[k].text) # ""
        PROVE  \E j \in DOMAIN e : SameText(e[j], cs[k]) /\ Holds(e[j], cs[k])
    <3>1. CASE k = n
      <4>1. Len(d) + 1 \in DOMAIN e /\ e[Len(d) + 1] = cs[k]
        BY <1>2, <2>3, <2>4, <3>1 DEF c
      <4> QED BY <4>1 DEF SameText, Holds
    <3>2. CASE k \in 1 .. n - 1
      <4>1. PICK j \in DOMAIN d : SameText(d[j], cs[k]) /\ Holds(d[j], cs[k])
        BY <2>9, <3>2 DEF Merged
      <4>2. j \in DOMAIN e /\ e[j] = d[j]
        BY <1>2, <2>3, <2>4
      <4> QED BY <4>1, <4>2
    <3> QED BY <1>3, <3>1, <3>2
  <2>10. ASSUME NEW j \in DOMAIN e
         PROVE  \E k \in 1 .. n : /\ SameText(e[j], cs[k]) /\ Attribution(e[j]) = Attribution(cs[k]) /\ Norm(cs[k].text) # ""
                                  /\ \A i \in 1 .. k - 1 : ~SameText(cs[i], cs[k])
    <3>1. CASE j \in DOMAIN d /\ e[j] = d[j]
      <4>1. PICK k \in 1 .. n - 1 : /\ SameText(d[j], cs[k]) /\ Attribution(d[j]) = Attribution(cs[k]) /\ Norm(cs[k].text) # ""
                                    /\ \A i \in 1 .. k - 1 : ~SameText(cs[i], cs[k])
        BY <3>1 DEF Merged
      <4>2. k \in 1 .. n
        BY <1>1
      <4> QED BY <3>1, <4>1, <4>2
    <3>2. CASE e[j] = c
      <4>1. ASSUME NEW i \in 1 .. n - 1 PROVE ~SameText(cs[i], c)
        <5>1. SUFFICES ASSUME SameText(cs[i], c) PROVE FALSE
          OBVIOUS
        <5>2. PICK p \in DOMAIN d : SameText(d[p], cs[i])
          BY <1>5, <5>1 DEF Merged, SameText
        <5> QED BY <1>5, <5>1, <5>2 DEF SameText
      <4>2. n \in 1 .. n /\ SameText(c, cs[n]) /\ Attribution(c) = Attribution(cs[n])
        BY <1>1 DEF SameText, c
      <4> QED BY <1>5, <3>2, <4>1, <4>2 DEF c
    <3> QED BY <2>6, <3>1, <3>2
  <2> QED BY <2>7, <2>8, <2>9, <2>10 DEF Merged, e, c
<1>6. CASE Norm(c.text) # "" /\ same # {}
  <2> DEFINE p == CHOOSE k \in same : TRUE
  <2>1. p \in same
    BY <1>6
  <2>2. e = [d EXCEPT ![p] = MergeInto(d[p], c)]
    BY <1>6 DEF Joined, SameText
  <2> HIDE DEF p
  <2>3. p \in DOMAIN d /\ SameText(d[p], c) /\ IsClaim(d[p])
    BY <2>1 DEF Merged, AreClaims
  <2>4. PICK m : m = MergeInto(d[p], c)
    OBVIOUS
  <2>5. IsClaim(m) /\ m.text = d[p].text /\ Attribution(m) = Attribution(d[p]) /\ Holds(m, d[p]) /\ Holds(m, c)
    BY <1>1, <2>3, <2>4, MergeIntoKeeps
  <2> HIDE DEF c, e, same
  <2>6. DOMAIN e = DOMAIN d /\ e[p] = m /\ \A j \in DOMAIN d : j # p => e[j] = d[j]
    BY <1>2, <2>2, <2>3, <2>4
  <2>7. \A j \in DOMAIN e : /\ IsClaim(e[j]) /\ e[j].text = d[j].text /\ Attribution(e[j]) = Attribution(d[j]) /\ Holds(e[j], d[j])
    <3>1. \A j \in DOMAIN d : IsClaim(d[j]) /\ Holds(d[j], d[j])
      BY DEF Merged, AreClaims, Holds
    <3> QED BY <2>5, <2>6, <3>1
  <2>8. IsList(e)
    <3>1. e = [j \in 1 .. Len(d) |-> e[j]]
      BY <1>2, <2>2
    <3>2. e \in [1 .. Len(d) -> Range(e)]
      BY <1>2, <2>6, <3>1 DEF Range
    <3> QED BY <1>2, <3>2, SeqDef DEF IsList
  <2>9. AreClaims(e)
    BY <2>7, <2>8 DEF AreClaims
  <2>10. \A i, j \in DOMAIN e : SameText(e[i], e[j]) => i = j
    BY <2>6, <2>7 DEF Merged, SameText
  <2>11. ASSUME NEW k \in 1 .. n, Norm(cs[k].text) # ""
         PROVE  \E j \in DOMAIN e : SameText(e[j], cs[k]) /\ Holds(e[j], cs[k])
    <3>1. CASE k = n
      BY <2>3, <2>5, <2>6, <2>7, <3>1 DEF SameText, c
    <3>2. CASE k \in 1 .. n - 1
      <4>1. PICK j \in DOMAIN d : SameText(d[j], cs[k]) /\ Holds(d[j], cs[k])
        BY <2>11, <3>2 DEF Merged
      <4>2. j \in DOMAIN e /\ e[j].text = d[j].text /\ Holds(e[j], d[j])
        BY <2>6, <2>7
      <4> QED BY <4>1, <4>2 DEF SameText, Holds
    <3> QED BY <1>3, <3>1, <3>2
  <2>12. ASSUME NEW j \in DOMAIN e
         PROVE  \E k \in 1 .. n : /\ SameText(e[j], cs[k]) /\ Attribution(e[j]) = Attribution(cs[k]) /\ Norm(cs[k].text) # ""
                                  /\ \A i \in 1 .. k - 1 : ~SameText(cs[i], cs[k])
    <3>1. PICK k \in 1 .. n - 1 : /\ SameText(d[j], cs[k]) /\ Attribution(d[j]) = Attribution(cs[k]) /\ Norm(cs[k].text) # ""
                                  /\ \A i \in 1 .. k - 1 : ~SameText(cs[i], cs[k])
      BY <2>6 DEF Merged
    <3>2. k \in 1 .. n
      BY <1>1
    <3> QED BY <2>7, <3>1, <3>2 DEF SameText
  <2> QED BY <2>9, <2>10, <2>11, <2>12 DEF Merged, e, c
<1> QED BY <1>4, <1>5, <1>6

(* Where the claims of a list and all that merging makes of them lie.         *)
Carrier(cs) ==
    [text : {cs[k].text : k \in DOMAIN cs}, found : SUBSET UNION {cs[k].found : k \in DOMAIN cs},
     urls : SUBSET UNION {cs[k].urls : k \in DOMAIN cs}, single : BOOLEAN, facet : {cs[k].facet : k \in DOMAIN cs},
     group : {cs[k].group : k \in DOMAIN cs}, source : {cs[k].source : k \in DOMAIN cs}]

LEMMA CarrierCloses ==
  ASSUME NEW cs, AreClaims(cs)
  PROVE  /\ \A k \in DOMAIN cs : cs[k] \in Carrier(cs)
         /\ \A a, c \in Carrier(cs) : MergeInto(a, c) \in Carrier(cs)
<1> DEFINE X == {cs[k].text : k \in DOMAIN cs}
           F == UNION {cs[k].found : k \in DOMAIN cs}
           U == UNION {cs[k].urls : k \in DOMAIN cs}
           P == {cs[k].facet : k \in DOMAIN cs}
           G == {cs[k].group : k \in DOMAIN cs}
           O == {cs[k].source : k \in DOMAIN cs}
<1>1. ASSUME NEW k \in DOMAIN cs
      PROVE  cs[k] \in Carrier(cs)
  <2>1. IsClaim(cs[k])
    BY DEF AreClaims
  <2>2. cs[k].found \in SUBSET F /\ cs[k].urls \in SUBSET U
    OBVIOUS
  <2>3. cs[k].text \in X /\ cs[k].facet \in P /\ cs[k].group \in G /\ cs[k].source \in O
    OBVIOUS
  <2>4. PICK c : c = cs[k]
    OBVIOUS
  <2> HIDE DEF X, F, U, P, G, O
  <2>5. c \in [text : X, found : SUBSET F, urls : SUBSET U, single : BOOLEAN, facet : P, group : G, source : O]
    BY <2>1, <2>2, <2>3, <2>4 DEF IsClaim
  <2> QED BY <2>4, <2>5 DEF Carrier, X, F, U, P, G, O
<1>2. ASSUME NEW a \in Carrier(cs), NEW c \in Carrier(cs)
      PROVE  MergeInto(a, c) \in Carrier(cs)
  <2> DEFINE R == [text : X, found : SUBSET F, urls : SUBSET U, single : BOOLEAN, facet : P, group : G, source : O]
  <2>1. Carrier(cs) = R
    BY DEF Carrier
  <2> HIDE DEF X, F, U, P, G, O
  <2>2. a \in R /\ c \in R
    BY <2>1
  <2>3. PICK f, u : f = a.found \cup c.found /\ u = a.urls \cup c.urls
    OBVIOUS
  <2>4. PICK s : s = (a.single \/ c.single) /\ s \in BOOLEAN
    OBVIOUS
  <2>5. f \in SUBSET F /\ u \in SUBSET U
    BY <2>2, <2>3
  <2>6. [a EXCEPT !.found = f, !.urls = u, !.single = s] \in R
    BY <2>2, <2>4, <2>5
  <2> HIDE DEF R
  <2> QED BY <2>1, <2>3, <2>4, <2>6 DEF MergeInto
<1> QED BY <1>1, <1>2

LEMMA JoinedStays ==
  ASSUME NEW C, \A a, c \in C : MergeInto(a, c) \in C, NEW d \in Seq(C), NEW c \in C
  PROVE  Joined(d, c) \in Seq(C)
<1> DEFINE same == {k \in DOMAIN d : Norm(d[k].text) = Norm(c.text)}
           p == CHOOSE k \in same : TRUE
<1>1. Append(d, c) \in Seq(C)
  BY AppendProperties
<1>2. ASSUME same # {}
      PROVE  [d EXCEPT ![p] = MergeInto(@, c)] \in Seq(C)
  <2>1. p \in same
    BY <1>2
  <2> HIDE DEF p
  <2>2. p \in DOMAIN d
    BY <2>1
  <2> HIDE DEF same
  <2>3. Len(d) \in Nat /\ d \in [1 .. Len(d) -> C]
    BY LenProperties
  <2>4. PICK m \in C : m = MergeInto(d[p], c)
    BY <2>2, <2>3
  <2>5. [d EXCEPT ![p] = m] \in [1 .. Len(d) -> C]
    BY <2>3
  <2>6. [d EXCEPT ![p] = m] \in Seq(C)
    BY <2>3, <2>5, SeqDef
  <2> QED BY <2>4, <2>6
<1> QED BY <1>1, <1>2 DEF Joined

LEMMA DedupeUnfolds ==
  ASSUME NEW cs, AreClaims(cs)
  PROVE  /\ DedupedUpTo(cs)[0] = <<>>
         /\ \A k \in 1 .. Len(cs) : DedupedUpTo(cs)[k] = Joined(DedupedUpTo(cs)[k - 1], cs[k])
<1> DEFINE n == Len(cs)
           start == <<>>
           C == Carrier(cs)
           T == Seq(C)
           Then(k, s) == Joined(s, cs[k])
           step == [k \in 1 .. n |-> [s \in T |-> Then(k, s)]]
           Is(f) == f = [k \in 0 .. n |-> IF k = 0 THEN start ELSE Then(k, f[k - 1])]
           h == DedupedUpTo(cs)
<1>1. n \in Nat /\ DOMAIN cs = 1 .. n
  BY LenProperties DEF AreClaims, IsList
<1>2. ASSUME NEW k \in 1 .. n, NEW s \in T PROVE Then(k, s) \in T
  <2>1. cs[k] \in C /\ \A a, c \in C : MergeInto(a, c) \in C
    BY <1>1, CarrierCloses
  <2> HIDE DEF C
  <2> QED BY <2>1, JoinedStays
<1>3. start \in T
  OBVIOUS
<1>4. DedupedUpTo(cs) = CHOOSE f : Is(f)
  BY DEF DedupedUpTo
<1> HIDE DEF n, start, T, Then
<1>5. step \in [1 .. n -> [T -> T]] /\ \A k \in 1 .. n, s \in T : step[k][s] = Then(k, s)
  BY <1>2
<1> HIDE DEF step
<1>6. PICK g : Runs(g, T, start, n, step)
  BY <1>1, <1>3, <1>5, RecursionExists
<1>7. Is(g)
  <2>1. g = [k \in 0 .. n |-> g[k]] /\ g[0] = start
    BY <1>6 DEF Runs
  <2>2. ASSUME NEW k \in 1 .. n PROVE g[k] = Then(k, g[k - 1])
    BY <1>1, <1>5, <1>6 DEF Runs
  <2>3. n \in Nat
    BY <1>1
  <2>4. \A k \in 0 .. n : g[k] = IF k = 0 THEN start ELSE Then(k, g[k - 1])
    BY <2>1, <2>2, <2>3
  <2> HIDE DEF Then
  <2> QED BY <2>1, <2>4
<1>8. Is(h)
  <2> HIDE DEF Is
  <2> QED BY <1>4, <1>7
<1> HIDE DEF h
<1>9. h[0] = start /\ \A k \in 1 .. n : h[k] = Then(k, h[k - 1])
  BY <1>1, <1>8
<1> QED BY <1>9 DEF h, n, start, Then

LEMMA DedupeKeeps ==
  ASSUME NEW cs, AreClaims(cs)
  PROVE  Merged(DedupeClaims(cs), cs, Len(cs))
<1> DEFINE n == Len(cs)
           h == DedupedUpTo(cs)
           S == {k \in 0 .. n : Merged(h[k], cs, k)}
<1>1. n \in Nat
  BY LenProperties DEF AreClaims, IsList
<1>2. h[0] = <<>> /\ \A k \in 1 .. n : h[k] = Joined(h[k - 1], cs[k])
  BY DedupeUnfolds
<1> HIDE DEF h
<1>3. 0 \in S
  <2>1. \A k \in 1 .. 0 : FALSE
    OBVIOUS
  <2>2. DOMAIN <<>> = {} /\ IsList(<<>>)
    BY EmptySeq DEF IsList
  <2>3. Merged(<<>>, cs, 0)
    BY <2>1, <2>2 DEF Merged, AreClaims
  <2> QED BY <1>1, <1>2, <2>3
<1>4. ASSUME NEW k \in 1 .. n, k - 1 \in S
      PROVE  k \in S
  <2>1. Merged(h[k - 1], cs, k - 1)
    BY <1>4
  <2>2. Merged(Joined(h[k - 1], cs[k]), cs, k)
    BY <2>1, JoinedKeeps
  <2> QED BY <1>1, <1>2, <2>2
<1>5. n \in S
  <2> HIDE DEF S, n
  <2>1. \A k \in 0 .. n : k \in S
    BY <1>1, <1>3, <1>4, Induction
  <2>2. n \in 0 .. n
    BY <1>1
  <2> QED BY <2>1, <2>2
<1> QED BY <1>5 DEF h, DedupeClaims

(* Lists: what the parser cuts out of a report, and what is put together.     *)
LEMMA OnlyList ==
  ASSUME NEW s, IsList(s), NEW kinds
  PROVE  IsList(Only(s, kinds))
<1> DEFINE at == {k \in DOMAIN s : s[k].kind \in kinds}
           m == Cardinality(at)
           o == Only(s, kinds)
<1>1. m \in Nat
  <2>1. PICK n \in Nat : DOMAIN s = 1 .. n
    BY ListIs
  <2>2. IsFiniteSet(1 .. n)
    BY UpToCounted
  <2>3. IsFiniteSet(at)
    BY <2>1, <2>2, FS_Subset
  <2> QED BY <2>3, FS_CardinalityType
<1>2. o = [n \in 1 .. m |-> s[CHOOSE k \in at : Cardinality({j \in at : j < k}) = n - 1]]
  BY DEF Only
<1> HIDE DEF at, m, o
<1>3. DOMAIN o = 1 .. m /\ o = [k \in 1 .. m |-> o[k]]
  BY <1>2
<1>4. IsList(o)
  BY <1>1, <1>3, IsListFrom
<1> QED BY <1>4 DEF o

LEMMA FirstList ==
  ASSUME NEW s, IsList(s), NEW most \in Nat
  PROVE  IsList(FirstOf(s, most))
<1> DEFINE n == IF Len(s) > most THEN most ELSE Len(s)
           X == Range(s)
<1>1. n \in Nat /\ n <= Len(s) /\ Len(s) \in Nat
  BY ListIs
<1>2. s \in Seq(X)
  BY DEF IsList
<1> HIDE DEF n, X
<1>3. \A k \in 1 .. n : k \in 1 .. Len(s)
  BY <1>1
<1>4. SubSeq(s, 1, n) \in Seq(X)
  <2>1. s \in [1 .. Len(s) -> X]
    BY <1>2, LenProperties
  <2>2. \A k \in 1 .. n : s[k] \in X
    BY <1>3, <2>1
  <2> QED BY <1>1, <1>2, <2>2, SubSeqProperties
<1>5. IsList(SubSeq(s, 1, n))
  BY <1>4, ListOf
<1> QED BY <1>5 DEF FirstOf, n

Chained(c, a, b) ==
    /\ Len(c) = Len(a) + Len(b)
    /\ \A k \in DOMAIN a : k \in DOMAIN c /\ c[k] = a[k]
    /\ \A k \in DOMAIN b : Len(a) + k \in DOMAIN c /\ c[Len(a) + k] = b[k]
    /\ \A k \in DOMAIN c : k \in DOMAIN a \/ \E j \in DOMAIN b : k = Len(a) + j
LEMMA ConcatClaims ==
  ASSUME NEW a, NEW b, AreClaims(a), AreClaims(b)
  PROVE  AreClaims(a \o b) /\ Chained(a \o b, a, b)
<1> DEFINE X == Range(a) \cup Range(b)
           c == a \o b
<1>1. /\ Len(a) \in Nat /\ DOMAIN a = 1 .. Len(a) /\ Len(b) \in Nat /\ DOMAIN b = 1 .. Len(b)
      /\ a = [k \in 1 .. Len(a) |-> a[k]] /\ b = [k \in 1 .. Len(b) |-> b[k]]
  BY LenProperties DEF AreClaims, IsList
<1>2. a \in Seq(X) /\ b \in Seq(X)
  <2>1. a \in [1 .. Len(a) -> X] /\ b \in [1 .. Len(b) -> X]
    BY <1>1 DEF Range
  <2> QED BY <1>1, <2>1, SeqDef
<1> HIDE DEF X, c
<1>3. /\ c \in Seq(X) /\ Len(c) = Len(a) + Len(b)
      /\ \A i \in 1 .. Len(a) + Len(b) : c[i] = IF i <= Len(a) THEN a[i] ELSE b[i - Len(a)]
  BY <1>2, ConcatProperties DEF c
<1>4. DOMAIN c = 1 .. Len(a) + Len(b)
  BY <1>3, LenProperties
<1>5. IsList(c)
  BY <1>3, ListOf
<1>6. \A k \in DOMAIN a : k \in DOMAIN c /\ c[k] = a[k]
  BY <1>1, <1>3, <1>4
<1>7. \A k \in DOMAIN b : Len(a) + k \in DOMAIN c /\ c[Len(a) + k] = b[k]
  <2> SUFFICES ASSUME NEW k \in DOMAIN b PROVE Len(a) + k \in DOMAIN c /\ c[Len(a) + k] = b[k]
    OBVIOUS
  <2>1. k \in 1 .. Len(b)
    BY <1>1
  <2>2. PICK i \in 1 .. Len(a) + Len(b) : i = Len(a) + k /\ ~(i <= Len(a)) /\ i - Len(a) = k
    BY <1>1, <2>1
  <2> QED BY <1>3, <1>4, <2>2
<1>8. \A k \in DOMAIN c : k \in DOMAIN a \/ \E j \in DOMAIN b : k = Len(a) + j
  <2> SUFFICES ASSUME NEW k \in DOMAIN c, k \notin DOMAIN a PROVE \E j \in DOMAIN b : k = Len(a) + j
    OBVIOUS
  <2>1. k - Len(a) \in DOMAIN b /\ k = Len(a) + (k - Len(a))
    BY <1>1, <1>4
  <2> QED BY <2>1
<1>9. \A k \in DOMAIN c : IsClaim(c[k])
  BY <1>6, <1>7, <1>8 DEF AreClaims
<1> QED BY <1>3, <1>5, <1>6, <1>7, <1>8, <1>9 DEF AreClaims, Chained, c

LEMMA NormalisedIs ==
  ASSUME NEW l, NEW r, NEW source
  PROVE  IsClaim(NormaliseFactClaim(l, r, source))
BY DEF NormaliseFactClaim, IsClaim

LEMMA ClaimsOfAre ==
  ASSUME NEW s, IsList(s), NEW r
  PROVE  AreClaims(ClaimsOf(s, r))
<1> DEFINE c == ClaimsOf(s, r)
<1>1. Len(s) \in Nat /\ DOMAIN s = 1 .. Len(s)
  BY ListIs
<1>2. DOMAIN c = 1 .. Len(s) /\ c = [k \in 1 .. Len(s) |-> c[k]]
      /\ \A k \in DOMAIN c : c[k] = NormaliseFactClaim(s[k], r, "list")
  BY <1>1 DEF ClaimsOf
<1> HIDE DEF c
<1>3. IsList(c)
  BY <1>1, <1>2, IsListFrom
<1> QED BY <1>2, <1>3, NormalisedIs DEF AreClaims, c

LEMMA ClaimsOfUnitAre ==
  ASSUME NEW u, IsList(u.rows)
  PROVE  AreClaims(ClaimsOfUnit(u))
<1> DEFINE c == ClaimsOfUnit(u)
           r == [prov |-> u.prov, facet |-> "general", group |-> 0]
           L(k) == DistilledLine(u.rows[k])
<1>1. Len(u.rows) \in Nat /\ DOMAIN u.rows = 1 .. Len(u.rows)
  BY ListIs
<1> HIDE DEF r, L
<1>2. DOMAIN c = 1 .. Len(u.rows) /\ c = [k \in 1 .. Len(u.rows) |-> c[k]]
      /\ \A k \in DOMAIN c : c[k] = NormaliseFactClaim(L(k), r, "fallback")
  BY <1>1 DEF ClaimsOfUnit, r, L
<1> HIDE DEF c
<1>3. IsList(c)
  BY <1>1, <1>2, IsListFrom
<1> QED BY <1>2, <1>3, NormalisedIs DEF AreClaims, c

(* The units of the distiller: each with the rows it stated so far.           *)
IsUnit(u) == u \in [prov : {u.prov}, n : {u.n}, st : {u.st}, rows : {u.rows}] /\ IsList(u.rows)
AreUnits(us) == IsList(us) /\ \A k \in DOMAIN us : IsUnit(us[k])

LEMMA DistilledUnfolds ==
  ASSUME NEW us, AreUnits(us)
  PROVE  /\ DistilledUpTo(us)[0] = <<>>
         /\ \A k \in 1 .. Len(us) : DistilledUpTo(us)[k] = DistilledUpTo(us)[k - 1] \o ClaimsOfUnit(us[k])
<1> DEFINE n == Len(us)
           start == <<>>
           C == UNION {Range(ClaimsOfUnit(us[k])) : k \in DOMAIN us}
           T == Seq(C)
           Then(k, s) == s \o ClaimsOfUnit(us[k])
           step == [k \in 1 .. n |-> [s \in T |-> Then(k, s)]]
           Is(f) == f = [k \in 0 .. n |-> IF k = 0 THEN start ELSE Then(k, f[k - 1])]
           h == DistilledUpTo(us)
<1>1. n \in Nat
  BY ListIs DEF AreUnits
<1>2. ASSUME NEW k \in 1 .. n, NEW s \in T PROVE Then(k, s) \in T
  <2>1. k \in DOMAIN us /\ IsList(us[k].rows)
    BY ListIs DEF AreUnits, IsUnit
  <2>2. PICK c : c = ClaimsOfUnit(us[k])
    OBVIOUS
  <2>3. IsList(c)
    BY <2>1, <2>2, ClaimsOfUnitAre DEF AreClaims
  <2>4. Range(c) \subseteq C
    BY <2>1, <2>2
  <2> HIDE DEF C
  <2>5. c \in [1 .. Len(c) -> C] /\ Len(c) \in Nat
    BY <2>3, <2>4, ListIs, LenProperties DEF IsList
  <2>6. c \in Seq(C)
    BY <2>5, SeqDef
  <2> QED BY <2>2, <2>6, ConcatProperties
<1>3. start \in T
  OBVIOUS
<1>4. DistilledUpTo(us) = CHOOSE f : Is(f)
  BY DEF DistilledUpTo
<1> HIDE DEF n, start, T, Then
<1>5. step \in [1 .. n -> [T -> T]] /\ \A k \in 1 .. n, s \in T : step[k][s] = Then(k, s)
  BY <1>2
<1> HIDE DEF step
<1>6. PICK g : Runs(g, T, start, n, step)
  BY <1>1, <1>3, <1>5, RecursionExists
<1>7. Is(g)
  <2>1. g = [k \in 0 .. n |-> g[k]] /\ g[0] = start
    BY <1>6 DEF Runs
  <2>2. ASSUME NEW k \in 1 .. n PROVE g[k] = Then(k, g[k - 1])
    BY <1>1, <1>5, <1>6 DEF Runs
  <2>3. \A k \in 0 .. n : g[k] = IF k = 0 THEN start ELSE Then(k, g[k - 1])
    BY <1>1, <2>1, <2>2
  <2> HIDE DEF Then
  <2> QED BY <2>1, <2>3
<1>8. Is(h)
  <2> HIDE DEF Is
  <2> QED BY <1>4, <1>7
<1> HIDE DEF h
<1>9. h[0] = start /\ \A k \in 1 .. n : h[k] = Then(k, h[k - 1])
  BY <1>1, <1>8
<1> QED BY <1>9 DEF h, n, start, Then

LEMMA DistilledAre ==
  ASSUME NEW us, AreUnits(us)
  PROVE  AreClaims(DistilledUpTo(us)[Len(us)])
<1> DEFINE n == Len(us)
           h == DistilledUpTo(us)
           S == {k \in 0 .. n : AreClaims(h[k])}
<1>1. n \in Nat
  BY ListIs DEF AreUnits
<1>2. h[0] = <<>> /\ \A k \in 1 .. n : h[k] = h[k - 1] \o ClaimsOfUnit(us[k])
  BY DistilledUnfolds
<1> HIDE DEF h
<1>3. 0 \in S
  <2>1. DOMAIN <<>> = {} /\ IsList(<<>>)
    BY EmptySeq DEF IsList
  <2> QED BY <1>1, <1>2, <2>1 DEF AreClaims
<1>4. ASSUME NEW k \in 1 .. n, k - 1 \in S
      PROVE  k \in S
  <2>1. AreClaims(h[k - 1])
    BY <1>4
  <2>2. k \in DOMAIN us /\ IsList(us[k].rows)
    BY ListIs DEF AreUnits, IsUnit
  <2>3. AreClaims(ClaimsOfUnit(us[k]))
    BY <2>2, ClaimsOfUnitAre
  <2>4. AreClaims(h[k - 1] \o ClaimsOfUnit(us[k]))
    BY <2>1, <2>3, ConcatClaims
  <2>5. AreClaims(h[k])
    BY <1>2, <2>4
  <2> HIDE DEF n
  <2>6. k \in 0 .. n
    BY <1>1
  <2> QED BY <2>5, <2>6
<1>5. n \in S
  <2> HIDE DEF S, n
  <2>1. \A k \in 0 .. n : k \in S
    BY <1>1, <1>3, <1>4, Induction
  <2>2. n \in 0 .. n
    BY <1>1
  <2> QED BY <2>1, <2>2
<1> QED BY <1>5 DEF h

LEMMA UnitsOfAre ==
  ASSUME NEW r, IsList(r.lines), NEW m
  PROVE  AreUnits(UnitsOf(r, m))
<1> DEFINE s == StripFactBlock(r)
           n == (Len(s) + ChunkLines - 1) \div ChunkLines
           us == UnitsOf(r, m)
<1>1. Len(s) \in Nat
  BY OnlyList, ListIs DEF StripFactBlock
<1>2. n \in Nat
  <2>1. PICK a \in Nat : a = Len(s) + ChunkLines - 1
    BY <1>1, ClaimsAssumption
  <2>2. a \div ChunkLines \in Nat
    BY <2>1, ClaimsAssumption
  <2> QED BY <2>1, <2>2
<1>3. DOMAIN Chunks(s) = 1 .. n
  BY DEF Chunks
<1> HIDE DEF n, s
<1>4. DOMAIN us = 1 .. n /\ us = [k \in 1 .. n |-> us[k]]
      /\ \A k \in DOMAIN us : us[k] = [prov |-> r.prov, n |-> m, st |-> "queued", rows |-> <<>>]
  BY <1>3 DEF UnitsOf, s
<1> HIDE DEF us
<1>5. IsList(us)
  BY <1>2, <1>4, IsListFrom
<1>6. IsList(<<>>)
  BY EmptySeq DEF IsList
<1>7. \A k \in DOMAIN us : IsUnit(us[k])
  <2> DEFINE e == <<>>
  <2> HIDE DEF e
  <2>1. \A k \in DOMAIN us : us[k] = [prov |-> r.prov, n |-> m, st |-> "queued", rows |-> e]
    BY <1>4 DEF e
  <2>2. IsList(e)
    BY <1>6 DEF e
  <2> QED BY <2>1, <2>2 DEF IsUnit
<1> QED BY <1>5, <1>7 DEF AreUnits, us

LEMMA ConcatUnits ==
  ASSUME NEW a, NEW b, AreUnits(a), AreUnits(b)
  PROVE  AreUnits(a \o b)
<1> DEFINE X == Range(a) \cup Range(b)
           c == a \o b
<1>1. /\ Len(a) \in Nat /\ DOMAIN a = 1 .. Len(a) /\ Len(b) \in Nat /\ DOMAIN b = 1 .. Len(b)
      /\ a = [k \in 1 .. Len(a) |-> a[k]] /\ b = [k \in 1 .. Len(b) |-> b[k]]
  BY LenProperties DEF AreUnits, IsList
<1>2. a \in Seq(X) /\ b \in Seq(X)
  <2>1. a \in [1 .. Len(a) -> X] /\ b \in [1 .. Len(b) -> X]
    BY <1>1 DEF Range
  <2> QED BY <1>1, <2>1, SeqDef
<1>3. \A u \in X : IsUnit(u)
  BY DEF AreUnits, Range
<1> HIDE DEF X, c
<1>4. c \in Seq(X)
  BY <1>2, ConcatProperties DEF c
<1>5. IsList(c) /\ \A k \in DOMAIN c : c[k] \in X
  BY <1>4, ListOf, LenProperties
<1> QED BY <1>3, <1>5 DEF AreUnits, c

LEMMA UnitChanges ==
  ASSUME NEW us, AreUnits(us), NEW u \in DOMAIN us, NEW w, IsUnit(w)
  PROVE  LET vs == [us EXCEPT ![u] = w]
         IN  AreUnits(vs) /\ DOMAIN vs = DOMAIN us
<1> DEFINE vs == [us EXCEPT ![u] = w]
<1>1. PICK n \in Nat : DOMAIN us = 1 .. n
  BY ListIs DEF AreUnits
<1>2. DOMAIN vs = 1 .. n /\ vs = [k \in 1 .. n |-> vs[k]] /\ vs[u] = w /\ \A k \in 1 .. n : k # u => vs[k] = us[k]
  <2>1. us = [k \in 1 .. n |-> us[k]]
    BY <1>1, LenProperties DEF AreUnits, IsList
  <2> QED BY <1>1, <2>1
<1> HIDE DEF vs
<1>3. IsList(vs)
  BY <1>2, IsListFrom
<1>4. \A k \in DOMAIN vs : IsUnit(vs[k])
  BY <1>1, <1>2 DEF AreUnits
<1> QED BY <1>1, <1>2, <1>3, <1>4 DEF AreUnits, vs

---------------------------------------------------------------------------
(* The claims stage as a whole.                                               *)
ClaimsInv ==
    /\ cphase \in {"start", "reading", "collected"}
    /\ cphase # "start" => haul \in Hauls /\ unread \in Nat \ {0}
    /\ AreClaims(listed)
    /\ AreUnits(unit)
    /\ cphase = "collected" => /\ claims = DedupeClaims(listed \o DedupeClaims(Distilled))
                               /\ \A u \in DOMAIN unit : unit[u].st = "done"

LEMMA ClaimsInitially == CInit => ClaimsInv
<1> SUFFICES ASSUME CInit PROVE ClaimsInv
  OBVIOUS
<1>1. DOMAIN <<>> = {} /\ IsList(<<>>)
  BY EmptySeq DEF IsList
<1> QED BY <1>1 DEF CInit, ClaimsInv, AreClaims, AreUnits

LEMMA ReadKeeps == ClaimsInv /\ ReadReport => ClaimsInv'
<1> SUFFICES ASSUME ClaimsInv, ReadReport PROVE ClaimsInv'
  OBVIOUS
<1> DEFINE r == Report(unread)
           p == ParseFactList(r.lines)
<1>1. IsList(r.given) /\ IsList(r.lines)
  <2>1. haul \in Seq(Range(haul)) /\ unread \in Nat \ {0} /\ unread <= Len(haul)
    BY ClaimsAssumption DEF ClaimsInv, ReadReport
  <2>2. unread \in DOMAIN haul
    BY <2>1, LenProperties
  <2>3. haul \in Hauls /\ r \in Range(haul)
    BY <2>2 DEF ClaimsInv, ReadReport, Report, Range
  <2> HIDE DEF r
  <2> QED BY <2>3, ClaimsAssumption DEF IsList
<1>2. \A ls : IsList(ls) => IsList(ParseFactList(ls).facts)
  <2> SUFFICES ASSUME NEW ls, IsList(ls) PROVE IsList(ParseFactList(ls).facts)
    OBVIOUS
  <2>1. IsList(FactLines(ls))
    BY OnlyList DEF FactLines
  <2>2. IsList(FirstOf(FactLines(ls), MaxFacts))
    BY <2>1, FirstList, ClaimsAssumption
  <2> QED BY <2>2 DEF ParseFactList
<1> HIDE DEF r
<1>3. /\ cphase' = cphase /\ haul' = haul /\ claims' = claims /\ unread' = unread + 1 /\ cphase = "reading"
  BY DEF ReadReport
<1>4. \/ unit' = unit \o UnitsOf(r, unread) /\ UNCHANGED listed
      \/ /\ UNCHANGED unit
         /\ \E facts : IsList(facts) /\ listed' = listed \o ClaimsOf(facts, r)
  <2>1. \A again \in RetryFactList(r) : IsList(again)
    <3>1. IsList(<<>>)
      BY EmptySeq DEF IsList
    <3> QED BY <3>1, ClaimsAssumption DEF RetryFactList, IsList
  <2>2. IsList(p.facts)
    BY <1>1, <1>2
  <2>3. IsList(<<>>)
    BY EmptySeq DEF IsList
  <2> DEFINE Lists(facts) == listed' = listed \o ClaimsOf(facts, r) /\ UNCHANGED unit
  <2>4. \/ Lists(r.given) \/ Lists(<<>>) \/ Lists(p.facts)
        \/ \E most \in 0 .. Len(r.given) - 1 : Lists(FirstOf(r.given, most))
        \/ \E most \in 0 .. Len(p.facts) - 1 : Lists(FirstOf(p.facts, most))
        \/ \E again \in RetryFactList(r) :
              \/ Lists(ParseFactList(again).facts)
              \/ unit' = unit \o UnitsOf(r, unread) /\ UNCHANGED listed
    BY DEF ReadReport, r
  <2> HIDE DEF Lists, p
  <2>5. \A facts : IsList(facts) /\ Lists(facts) =>
            UNCHANGED unit /\ \E f : IsList(f) /\ listed' = listed \o ClaimsOf(f, r)
    BY DEF Lists
  <2>6. \A f : IsList(f) => \A most \in 0 .. Len(f) - 1 : IsList(FirstOf(f, most))
    BY FirstList
  <2> QED BY <1>1, <1>2, <2>1, <2>2, <2>3, <2>4, <2>5, <2>6
<1>5. AreClaims(listed')
  <2>1. CASE UNCHANGED listed
    BY <2>1 DEF ClaimsInv
  <2>2. ASSUME NEW facts, IsList(facts), listed' = listed \o ClaimsOf(facts, r)
        PROVE  AreClaims(listed')
    <3>1. AreClaims(listed) /\ AreClaims(ClaimsOf(facts, r))
      BY <2>2, ClaimsOfAre DEF ClaimsInv
    <3> QED BY <2>2, <3>1, ConcatClaims
  <2> QED BY <1>4, <2>1, <2>2
<1>6. AreUnits(unit')
  <2>1. AreUnits(UnitsOf(r, unread))
    BY <1>1, UnitsOfAre
  <2> QED BY <1>4, <2>1, ConcatUnits DEF ClaimsInv
<1> QED BY <1>3, <1>5, <1>6 DEF ClaimsInv

LEMMA ClaimsStep == ClaimsInv /\ [CNext]_cvars => ClaimsInv'
<1> SUFFICES ASSUME ClaimsInv, [CNext]_cvars PROVE ClaimsInv'
  OBVIOUS
<1>1. CASE Collect
  <2>1. cphase' = "reading" /\ haul' \in Hauls /\ unread' = 1 /\ listed' = listed /\ unit' = unit
    BY <1>1 DEF Collect
  <2> QED BY <2>1 DEF ClaimsInv
<1>2. CASE ReadReport
  BY <1>2, ReadKeeps
<1>3. CASE MergeFacts
  <2>1. /\ cphase' = "collected" /\ haul' = haul /\ unread' = unread /\ listed' = listed /\ unit' = unit
        /\ cphase = "reading" /\ claims' = DedupeClaims(listed \o DedupeClaims(Distilled))
        /\ \A u \in DOMAIN unit : unit[u].st = "done"
    BY <1>3 DEF MergeFacts
  <2>2. Distilled' = Distilled
    BY <2>1 DEF Distilled
  <2> QED BY <2>1, <2>2 DEF ClaimsInv
<1>4. ASSUME NEW u \in DOMAIN unit, StartUnit(u) \/ DistillUnit(u)
      PROVE  ClaimsInv'
  <2>1. /\ cphase' = cphase /\ haul' = haul /\ unread' = unread /\ listed' = listed /\ claims' = claims
    BY <1>4 DEF StartUnit, DistillUnit
  <2>2. unit[u].st # "done" /\ cphase # "collected"
    BY <1>4 DEF StartUnit, DistillUnit, ClaimsInv
  <2>3. \E w : IsUnit(w) /\ unit' = [unit EXCEPT ![u] = w]
    <3>1. PICK a : a = unit[u]
      OBVIOUS
    <3>2. IsUnit(a)
      BY <3>1 DEF ClaimsInv, AreUnits
    <3>3. CASE StartUnit(u)
      <4>1. unit' = [unit EXCEPT ![u] = [a EXCEPT !.st = "running"]]
        BY <3>1, <3>3 DEF StartUnit
      <4>2. PICK w : w = [a EXCEPT !.st = "running"]
        OBVIOUS
      <4>3. w \in [prov : {a.prov}, n : {a.n}, st : {"running"}, rows : {a.rows}]
        BY <3>2, <4>2 DEF IsUnit
      <4>4. IsUnit(w)
        BY <3>2, <4>3 DEF IsUnit
      <4> QED BY <4>1, <4>2, <4>4
    <3>4. CASE DistillUnit(u)
      <4>1. PICK rows \in SeqOf(DistilledTexts, MaxDistilled) :
                unit' = [unit EXCEPT ![u] = [a EXCEPT !.st = "done", !.rows = rows]]
        BY <3>1, <3>4 DEF DistillUnit
      <4>2. IsList(rows)
        <5>1. PICK m \in 0 .. MaxDistilled : rows \in [1 .. m -> DistilledTexts]
          BY DEF SeqOf
        <5>2. m \in Nat
          BY ClaimsAssumption
        <5>3. rows \in Seq(DistilledTexts)
          BY <5>1, <5>2, SeqDef
        <5> QED BY <5>3, ListOf
      <4>3. PICK w : w = [a EXCEPT !.st = "done", !.rows = rows]
        OBVIOUS
      <4>4. w \in [prov : {a.prov}, n : {a.n}, st : {"done"}, rows : {rows}]
        BY <3>2, <4>3 DEF IsUnit
      <4>5. IsUnit(w)
        BY <4>2, <4>4 DEF IsUnit
      <4> QED BY <4>1, <4>3, <4>5
    <3> QED BY <1>4, <3>3, <3>4
  <2>4. AreUnits(unit')
    <3>1. PICK us : us = unit
      OBVIOUS
    <3>2. PICK w : IsUnit(w) /\ unit' = [us EXCEPT ![u] = w]
      BY <2>3, <3>1
    <3>3. AreUnits(us) /\ u \in DOMAIN us
      BY <3>1 DEF ClaimsInv
    <3>4. AreUnits([us EXCEPT ![u] = w])
      BY <3>2, <3>3, UnitChanges
    <3> QED BY <3>2, <3>4
  <2> QED BY <2>1, <2>2, <2>4 DEF ClaimsInv
<1>5. CASE UNCHANGED cvars
  <2>1. Distilled' = Distilled
    BY <1>5 DEF cvars, Distilled
  <2> QED BY <1>5, <2>1 DEF cvars, ClaimsInv
<1> QED BY <1>1, <1>2, <1>3, <1>4, <1>5 DEF CNext

LEMMA AttributedFirst ==
  ASSUME NEW a, NEW b, AreClaims(a), AreClaims(b), NEW d, Merged(d, a \o b, Len(a \o b))
  PROVE  \A j \in DOMAIN d, i \in DOMAIN a : SameText(a[i], d[j]) /\ FirstIn(a, i) => Attribution(d[j]) = Attribution(a[i])
<1> SUFFICES ASSUME NEW j \in DOMAIN d, NEW i \in DOMAIN a, SameText(a[i], d[j]), FirstIn(a, i)
             PROVE  Attribution(d[j]) = Attribution(a[i])
  OBVIOUS
<1> DEFINE cs == a \o b
<1>1. Len(a) \in Nat /\ DOMAIN a = 1 .. Len(a) /\ Len(b) \in Nat
  BY ListIs DEF AreClaims
<1>2. Chained(cs, a, b)
  BY ConcatClaims
<1> HIDE DEF cs
<1>3. PICK k \in 1 .. Len(cs) : /\ SameText(d[j], cs[k]) /\ Attribution(d[j]) = Attribution(cs[k])
                               /\ \A m \in 1 .. k - 1 : ~SameText(cs[m], cs[k])
  BY DEF Merged, cs
<1>4. Len(cs) \in Nat
  BY <1>1, <1>2 DEF Chained
<1>5. SameText(cs[i], cs[k])
  BY <1>2, <1>3 DEF SameText, Chained
<1>6. ~(i \in 1 .. k - 1)
  BY <1>3, <1>5
<1>7. k \in DOMAIN a /\ k <= i
  BY <1>1, <1>4, <1>6
<1>8. cs[k] = a[k] /\ SameText(a[k], a[i])
  BY <1>2, <1>5, <1>7 DEF SameText, Chained
<1>9. k = i
  <2>1. ~(k \in 1 .. i - 1)
    BY <1>8 DEF FirstIn
  <2> QED BY <1>1, <1>7, <2>1
<1> QED BY <1>3, <1>8, <1>9

LEMMA ClaimsAttributed ==
  ASSUME ClaimsInv, cphase = "collected"
  PROVE  \A j \in DOMAIN claims, i \in DOMAIN listed :
             SameText(listed[i], claims[j]) /\ FirstIn(listed, i) => Attribution(claims[j]) = Attribution(listed[i])
<1>1. PICK D : D = DedupeClaims(Distilled)
  OBVIOUS
<1>2. AreClaims(listed) /\ AreClaims(Distilled) /\ claims = DedupeClaims(listed \o D)
  BY <1>1, DistilledAre DEF ClaimsInv, Distilled
<1>3. AreClaims(D)
  BY <1>1, <1>2, DedupeKeeps DEF Merged
<1>4. Merged(claims, listed \o D, Len(listed \o D))
  BY <1>2, <1>3, ConcatClaims, DedupeKeeps
<1> QED BY <1>2, <1>3, <1>4, AttributedFirst

LEMMA ClaimsInvImplies == ClaimsInv => WitnessesKept
<1> SUFFICES ASSUME ClaimsInv, cphase = "collected", NEW k \in DOMAIN Stated, Norm(Stated[k].text) # ""
             PROVE  LET same == {j \in DOMAIN claims : SameText(claims[j], Stated[k])}
                    IN  /\ Cardinality(same) = 1
                        /\ \A j \in same :
                              /\ Stated[k].found \subseteq claims[j].found
                              /\ Stated[k].urls \subseteq claims[j].urls
                              /\ Stated[k].single => claims[j].single
                              /\ k \in DOMAIN listed /\ FirstIn(listed, k) => Attribution(claims[j]) = Attribution(Stated[k])
  BY DEF WitnessesKept
<1> DEFINE D == DedupeClaims(Distilled)
           cs == listed \o D
           s == Stated[k]
           same == {j \in DOMAIN claims : SameText(claims[j], s)}
<1>1. AreClaims(listed) /\ AreClaims(Distilled)
  BY DistilledAre DEF ClaimsInv, Distilled
<1>2. Merged(D, Distilled, Len(Distilled)) /\ AreClaims(D)
  BY <1>1, DedupeKeeps DEF Merged
<1>3. claims = DedupeClaims(cs)
  BY DEF ClaimsInv
<1> HIDE DEF D
<1>4. AreClaims(cs) /\ Merged(claims, cs, Len(cs))
  <2>1. AreClaims(cs)
    BY <1>1, <1>2, ConcatClaims
  <2> HIDE DEF cs
  <2> QED BY <1>3, <2>1, DedupeKeeps
<1>5. Chained(Stated, listed, Distilled) /\ Chained(cs, listed, D)
  BY <1>1, <1>2, ConcatClaims DEF Stated
<1>6. \E i \in DOMAIN cs : SameText(cs[i], s) /\ Holds(cs[i], s)
  <2>1. CASE k \in DOMAIN listed
    <3>1. s = listed[k]
      BY <1>5, <2>1 DEF Chained
    <3>2. k \in DOMAIN cs /\ cs[k] = listed[k]
      BY <1>5, <2>1 DEF Chained
    <3> HIDE DEF s, cs
    <3> QED BY <3>1, <3>2 DEF SameText, Holds
  <2>2. ASSUME NEW m \in DOMAIN Distilled, k = Len(listed) + m
        PROVE  \E i \in DOMAIN cs : SameText(cs[i], s) /\ Holds(cs[i], s)
    <3>1. s = Distilled[m]
      BY <1>5, <2>2 DEF Chained
    <3>2. m \in 1 .. Len(Distilled)
      BY <1>1, ListIs DEF AreClaims
    <3>3. PICK j \in DOMAIN D : SameText(D[j], s) /\ Holds(D[j], s)
      BY <1>2, <3>1, <3>2 DEF Merged
    <3>4. Len(listed) + j \in DOMAIN cs /\ cs[Len(listed) + j] = D[j]
      BY <1>5 DEF Chained
    <3> QED BY <3>3, <3>4
  <2>3. k \in DOMAIN listed \/ \E m \in DOMAIN Distilled : k = Len(listed) + m
    BY <1>5 DEF Chained
  <2> QED BY <2>1, <2>2, <2>3
<1> HIDE DEF cs, s
<1>7. PICK i \in DOMAIN cs : SameText(cs[i], s) /\ Holds(cs[i], s)
  BY <1>6
<1>8. i \in 1 .. Len(cs) /\ Norm(cs[i].text) # ""
  BY <1>4, <1>7, ListIs DEF AreClaims, SameText, s
<1>9. PICK j \in DOMAIN claims : SameText(claims[j], cs[i]) /\ Holds(claims[j], cs[i])
  BY <1>4, <1>8 DEF Merged
<1>10. SameText(claims[j], s) /\ Holds(claims[j], s)
  BY <1>7, <1>9 DEF SameText, Holds
<1>11. same = {j}
  <2>1. \A x, y \in DOMAIN claims : SameText(claims[x], claims[y]) => x = y
    BY <1>4 DEF Merged, SameText
  <2>2. j \in DOMAIN claims /\ SameText(claims[j], s)
    BY <1>9, <1>10
  <2>3. ASSUME NEW x \in DOMAIN claims, SameText(claims[x], s)
        PROVE  x = j
    BY <2>1, <2>2, <2>3 DEF SameText
  <2> QED BY <2>2, <2>3
<1>12. Cardinality(same) = 1
  BY <1>11, FS_Singleton
<1>13. ASSUME k \in DOMAIN listed, FirstIn(listed, k)
       PROVE  Attribution(claims[j]) = Attribution(s)
  <2>1. s = listed[k]
    BY <1>5, <1>13 DEF Chained, s
  <2>2. SameText(listed[k], claims[j])
    BY <1>10, <2>1 DEF SameText
  <2>3. Attribution(claims[j]) = Attribution(listed[k])
    BY <1>13, <2>2, ClaimsAttributed
  <2> QED BY <2>1, <2>3
<1>14. \A n \in same : /\ s.found \subseteq claims[n].found
                       /\ s.urls \subseteq claims[n].urls
                       /\ s.single => claims[n].single
                       /\ k \in DOMAIN listed /\ FirstIn(listed, k) => Attribution(claims[n]) = Attribution(s)
  BY <1>10, <1>11, <1>13 DEF Holds
<1> QED BY <1>12, <1>14 DEF s

(* However many streams report, what a stream stated is in exactly one of the *)
(* claims, with this stream and its links, its doubt, and the words, the area *)
(* and the group of the first fact list that stated it (steps.py              *)
(* collect_provider_facts, _dedupe_claims).                                   *)
THEOREM WitnessesKeptHolds == CSpec => []WitnessesKept
<1>1. CSpec => []ClaimsInv
  BY ClaimsInitially, ClaimsStep, PTL DEF CSpec
<1> QED BY <1>1, ClaimsInvImplies, PTL
=============================================================================
