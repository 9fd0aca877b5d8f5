------------------------------- MODULE RunFeed -------------------------------
(***************************************************************************)
(* The activity feed of a run: stages emit lines into a bounded buffer, a  *)
(* drain task inserts them in batches, a reader pages through the table    *)
(* with a cursor.  `seq` is numbered in process and is not unique in the   *)
(* table, so an execution that resumes a run must continue its numbering.  *)
(* Executions of a run follow one another here, as SingleExecution of      *)
(* RunQueue has it.                                                        *)
(***************************************************************************)
EXTENDS Integers, Sequences, FiniteSets, SequencesExt

CONSTANTS
    Stages,                 \* the stages of an execution, in order
    RowsPerStage,           \* MAX_ROWS_PER_STAGE of a RowBudget
    QueueMax, Batch,        \* of the buffer and of one INSERT
    PageLimit,
    MaxLines, MaxExecutionsOfRun, MaxLosses

ASSUME FeedAssumption == QueueMax \in Nat /\ Batch \in Nat \ {0} /\ PageLimit \in Nat \ {0}

VARIABLES
    run,        \* "closed", "open" or "closing"
    buffer,     \* [seq, queue]: the last number given and the lines waiting
    inflight,   \* the lines a writer took and has not committed
    entered,    \* number of stages entered by this execution
    budget,     \* [used, elided] of the stage's row budget
    table,      \* run_event, in order of commit
    lines,      \* lines ever numbered; a line's identity
    executions, losses,
    unseeded,   \* an execution could not read where its predecessor stopped
    cursor, shown

fvars == <<run, buffer, inflight, entered, budget, table, lines, executions, losses, unseeded, cursor, shown>>
readerVars == <<cursor, shown>>

FInit ==
    /\ run = "closed" /\ buffer = [seq |-> 0, queue |-> <<>>] /\ inflight = <<>>
    /\ entered = 0 /\ budget = [used |-> 0, elided |-> 0]
    /\ table = <<>> /\ lines = 0 /\ executions = 0 /\ losses = 0 /\ unseeded = FALSE
    /\ cursor = 0 /\ shown = {}

MaxSeq == IF table = <<>> THEN 0 ELSE Max({table[k].seq : k \in DOMAIN table})
FromOne == 0
StartSeq == MaxSeq          \* COALESCE(MAX(seq), 0)
OpenRun ==
    /\ run = "closed" /\ executions < MaxExecutionsOfRun
    /\ \E read \in BOOLEAN :
        /\ read \/ losses < MaxLosses
        /\ buffer' = [seq |-> IF read THEN StartSeq ELSE 0, queue |-> <<>>]
        /\ unseeded' = (unseeded \/ (~read /\ table # <<>>))
        /\ losses' = IF read THEN losses ELSE losses + 1
    /\ run' = "open" /\ executions' = executions + 1
    /\ entered' = 0 /\ budget' = [used |-> 0, elided |-> 0]
    /\ UNCHANGED <<inflight, table, lines, readerVars>>

(* emit() of some lines: a full queue drops a line, its number is spent.      *)
Line(i) == [seq |-> buffer.seq + i, id |-> lines + i]
Emitted(n) ==
    [seq |-> buffer.seq + n,
     queue |-> buffer.queue \o [i \in 1 .. IF QueueMax - Len(buffer.queue) < n
                                            THEN QueueMax - Len(buffer.queue) ELSE n |-> Line(i)]]
Emit(n) == lines + n <= MaxLines /\ buffer' = Emitted(n) /\ lines' = lines + n

(* A stage boundary closes the stage before with a summary, opens the next    *)
(* with a divider and says how many rows its budget held back.                *)
Boundary(next) == (IF entered > 0 THEN 1 ELSE 0) + (IF next THEN 1 ELSE 0)
EnterStage ==
    /\ run = "open" /\ entered < Len(Stages) /\ budget.elided = 0
    /\ Emit(Boundary(TRUE)) /\ entered' = entered + 1 /\ budget' = [used |-> 0, elided |-> 0]
    /\ UNCHANGED <<run, inflight, table, executions, losses, unseeded, readerVars>>
TakeRow ==
    /\ run = "open" /\ entered > 0
    /\ IF budget.used < RowsPerStage
       THEN Emit(1) /\ budget' = [budget EXCEPT !.used = @ + 1]
       ELSE budget.elided = 0 /\ budget' = [budget EXCEPT !.elided = 1] /\ UNCHANGED <<buffer, lines>>
    /\ UNCHANGED <<run, inflight, entered, table, executions, losses, unseeded, readerVars>>
FlushBudget ==
    /\ run = "open" /\ budget.elided > 0 /\ Emit(1) /\ budget' = [budget EXCEPT !.elided = 0]
    /\ UNCHANGED <<run, inflight, entered, table, executions, losses, unseeded, readerVars>>

(* _flush_once: the drain task's, and the closer's after it.                  *)
Takes ==
    /\ run \in {"open", "closing"} /\ inflight = <<>> /\ buffer.queue # <<>>
    /\ LET n == IF Len(buffer.queue) < Batch THEN Len(buffer.queue) ELSE Batch
       IN  /\ inflight' = SubSeq(buffer.queue, 1, n)
           /\ buffer' = [buffer EXCEPT !.queue = SubSeq(@, n + 1, Len(@))]
    /\ UNCHANGED <<run, entered, budget, table, lines, executions, losses, unseeded, readerVars>>
Inserts ==
    /\ inflight # <<>> /\ table' = table \o inflight /\ inflight' = <<>>
    /\ UNCHANGED <<run, buffer, entered, budget, lines, executions, losses, unseeded, readerVars>>
Discards ==             \* a failing batch is not retried
    /\ inflight # <<>> /\ losses < MaxLosses /\ losses' = losses + 1 /\ inflight' = <<>>
    /\ UNCHANGED <<run, buffer, entered, budget, table, lines, executions, unseeded, readerVars>>
Cut == table' \in {table, table \o inflight} /\ inflight' = <<>>     \* an INSERT cancelled on its way
CloseRun ==             \* the last stage's summary, then the buffer is closed
    /\ run = "open" /\ Emit(Boundary(FALSE)) /\ run' = "closing" /\ Cut
    /\ UNCHANGED <<entered, budget, executions, losses, unseeded, readerVars>>
RunClosed ==
    /\ run = "closing" /\ inflight = <<>> /\ buffer.queue = <<>> /\ run' = "closed"
    /\ UNCHANGED <<buffer, inflight, entered, budget, table, lines, executions, losses, unseeded, readerVars>>
WorkerDies ==
    /\ run # "closed" /\ losses < MaxLosses /\ losses' = losses + 1 /\ run' = "closed" /\ Cut
    /\ buffer' = [buffer EXCEPT !.queue = <<>>]
    /\ UNCHANGED <<entered, budget, lines, executions, unseeded, readerVars>>

(* One page: the rows after the cursor in order of seq.                       *)
Page ==
    LET after == {k \in DOMAIN table : table[k].seq > cursor}
        Ahead(k) == {j \in after : table[j].seq < table[k].seq \/ (table[j].seq = table[k].seq /\ j < k)}
    IN  {table[k] : k \in {k \in after : Cardinality(Ahead(k)) < PageLimit}}
GetRunEvents ==
    /\ Page # {} /\ shown' = shown \cup {r.id : r \in Page} /\ cursor' = Max({r.seq : r \in Page})
    /\ UNCHANGED <<run, buffer, inflight, entered, budget, table, lines, executions, losses, unseeded>>

FNext ==
    \/ OpenRun \/ EnterStage \/ TakeRow \/ FlushBudget \/ Takes \/ Inserts \/ Discards
    \/ CloseRun \/ RunClosed \/ WorkerDies \/ GetRunEvents
FSpec == FInit /\ [][FNext]_fvars

---------------------------------------------------------------------------
(* A reader that follows the feed page by page has been shown every stored    *)
(* line at or before its cursor, through deaths, lost batches and resumed     *)
(* executions: no line is committed behind a cursor that already passed it.   *)
(* (An execution that cannot read MAX(seq) numbers from one again.)           *)
CursorNeverSkips == ~unseeded => \A k \in DOMAIN table : table[k].seq <= cursor => table[k].id \in shown
=============================================================================
