------------------------------ MODULE StageFeed ------------------------------
(***************************************************************************)
(* The card of one stage: rows that concurrent sessions declare and        *)
(* update, and a debounced writer task that stores a snapshot of them.     *)
(* Closing cancels the writer, even in the middle of its write, and        *)
(* flushes what is left, unless it is cancelled itself.                    *)
(***************************************************************************)
EXTENDS Integers, Sequences

CONSTANTS MaxItems, MaxChanges, MaxMissed

Vocabulary == {"running", "done"}                   \* part of _STATUS_VOCAB
Given == Vocabulary \cup {"nonsense"}

VARIABLES
    items, overflow, dirty, closedFeed,
    pending,        \* a change that passed _live and waits for the lock, or "none"
    writerTask,     \* "none", "sleeping" or "writing"
    closer,         \* "idle", "flushing", "writing" or "done"
    snapshot,       \* what the task that holds the lock is writing
    card,           \* what the run row shows
    missed,         \* the last write did not land, or the close was cut short
    changes, misses

sfvars == <<items, overflow, dirty, closedFeed, pending, writerTask, closer, snapshot, card, missed, changes, misses>>
writing == <<writerTask, closer, snapshot, card, missed, misses>>

SFInit ==
    /\ items = <<>> /\ overflow = 0 /\ dirty = FALSE /\ closedFeed = FALSE
    /\ pending = <<>> /\ writerTask = "none" /\ closer = "idle"
    /\ snapshot = <<>> /\ card = <<>> /\ missed = FALSE /\ changes = 0 /\ misses = 0

Held == writerTask = "writing" \/ closer = "writing"        \* the feed's lock
Snapshot == items \o [k \in 1 .. IF overflow > 0 THEN 1 ELSE 0 |-> "more"]
ClampStatus(s) == IF s \in Vocabulary THEN s ELSE "pending"

(* A change is <<0, s>> to add a row, <<h, s>> to update the row of handle h. *)
Calls ==                \* declare, add, update, mark_retry: dropped once closed
    /\ ~closedFeed /\ pending = <<>> /\ changes < MaxChanges /\ changes' = changes + 1
    /\ \E h \in 0 .. MaxItems, s \in Given : pending' = <<h, s>>
    /\ UNCHANGED <<items, overflow, dirty, closedFeed, writing>>
EnsureWriter == writerTask' = IF writerTask = "none" THEN "sleeping" ELSE writerTask
AppendRow(s) ==
    IF Len(items) >= MaxItems THEN overflow' = overflow + 1 /\ UNCHANGED items
    ELSE items' = Append(items, ClampStatus(s)) /\ UNCHANGED overflow
UpdateRow(h, s) == items' = [items EXCEPT ![h] = ClampStatus(s)] /\ UNCHANGED overflow
Applies ==
    /\ pending # <<>> /\ ~Held /\ pending' = <<>>
    /\ LET h == pending[1] IN
        \/ h = 0 /\ AppendRow(pending[2]) /\ dirty' = TRUE /\ EnsureWriter
        \/ h \in DOMAIN items /\ UpdateRow(h, pending[2]) /\ dirty' = TRUE /\ EnsureWriter
        \/ h # 0 /\ h \notin DOMAIN items /\ UNCHANGED <<items, overflow, dirty, writerTask>>
    /\ UNCHANGED <<closedFeed, closer, snapshot, card, missed, changes, misses>>

WriterWakes ==          \* after the debounce, under the lock
    /\ writerTask = "sleeping" /\ ~Held
    /\ IF dirty THEN writerTask' = "writing" /\ snapshot' = Snapshot /\ dirty' = FALSE
                ELSE writerTask' = "none" /\ UNCHANGED <<snapshot, dirty>>
    /\ UNCHANGED <<items, overflow, closedFeed, pending, closer, card, missed, changes, misses>>
Lands ==                \* set_stage swallows its own failure
    \/ card' = snapshot /\ missed' = FALSE /\ UNCHANGED misses
    \/ misses < MaxMissed /\ misses' = misses + 1 /\ missed' = TRUE /\ UNCHANGED card
WriterWrites ==
    /\ writerTask = "writing" /\ Lands /\ writerTask' = "none"
    /\ UNCHANGED <<items, overflow, dirty, closedFeed, pending, closer, snapshot, changes>>

DirtyAsBefore == dirty
DirtyAfterCancel == dirty \/ writerTask = "writing"     \* a cancelled write is still owed
CloseCancels ==
    /\ ~closedFeed /\ closer = "idle" /\ closer' = "flushing"
    /\ writerTask' = "none" /\ dirty' = DirtyAfterCancel
    /\ card' \in IF writerTask = "writing" THEN {card, snapshot} ELSE {card}
    /\ UNCHANGED <<items, overflow, closedFeed, pending, snapshot, missed, changes, misses>>
CloseFlushes ==
    /\ closer = "flushing" /\ ~Held
    /\ IF dirty THEN closer' = "writing" /\ snapshot' = Snapshot /\ dirty' = FALSE /\ UNCHANGED closedFeed
                ELSE closer' = "done" /\ closedFeed' = TRUE /\ UNCHANGED <<snapshot, dirty>>
    /\ UNCHANGED <<items, overflow, pending, writerTask, card, missed, changes, misses>>
CloseWrites ==
    /\ closer = "writing" /\ Lands /\ closer' = "done" /\ closedFeed' = TRUE
    /\ UNCHANGED <<items, overflow, dirty, pending, writerTask, snapshot, changes>>
CloseIsCancelled ==     \* with its run: inert all the same, what it owed is lost
    /\ closer \in {"flushing", "writing"} /\ misses < MaxMissed /\ misses' = misses + 1
    /\ closer' = "done" /\ closedFeed' = TRUE
    /\ dirty' = (dirty \/ closer = "writing")
    /\ card' \in IF closer = "writing" THEN {card, snapshot} ELSE {card}
    /\ missed' = (card' # Snapshot)
    /\ UNCHANGED <<items, overflow, pending, writerTask, snapshot, changes>>

SFNext ==
    \/ Calls \/ Applies \/ WriterWakes \/ WriterWrites
    \/ CloseCancels \/ CloseFlushes \/ CloseWrites \/ CloseIsCancelled
SFSpec == SFInit /\ [][SFNext]_sfvars

---------------------------------------------------------------------------
(* A change that reached the rows reaches the card: unless its write was lost,*)
(* a card that lags is being written or somebody is going to write it,        *)
(* whichever of the sessions, the debounced writer and the close came last.   *)
FeedCatchesUp ==
    \/ card = Snapshot
    \/ missed
    \/ Held
    \/ dirty /\ (writerTask = "sleeping" \/ closer = "flushing")
=============================================================================
