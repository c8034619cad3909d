------------------------------- MODULE TickWriter -------------------------------
(***************************************************************************)
(* The collector's way from the socket to the database: a bounded deque that   *)
(* the socket thread appends to and never waits on, and a writer thread that     *)
(* takes batches from it and retries each until the database has it, or until      *)
(* the third failure once the collector is stopping.  A failed write may have        *)
(* been committed all the same.  Ticks are numbered in the order they arrive.         *)
(***************************************************************************)
EXTENDS Integers, Sequences, FiniteSets, SequencesExt

CONSTANTS
    QueueMax,          \* queue_max
    BatchSize,         \* batch_size
    OverflowPolicy,    \* "drop_oldest" or "drop_newest"
    MaxTicks,          \* bound: ticks that arrive
    MaxOutages         \* bound: times the database goes away or loses an answer

VARIABLES
    arrived,     \* ticks that have arrived
    dq,          \* _dq
    flush,       \* _flush
    stopping,    \* _stop
    writer,      \* what the writer thread does: wait, drain, write, or done
    final,       \* whether it is in the drain that follows the loop
    batch,       \* the batch it writes
    attempt,     \* failed attempts at it, counted up to the third
    db,          \* whether the database answers
    outages,     \* outages so far
    stored,      \* rows of option_ticks, in the order they were written
    dropped,     \* ticks counted in dropped_ticks
    late         \* history: ticks that arrived after stop()

vars == <<arrived, dq, flush, stopping, writer, final, batch, attempt, db, outages, stored, dropped, late>>
dbVars == <<db, outages>>
writerVars == <<writer, final, batch, attempt, stored>>

GiveUpAfter == 3

TypeOK ==
    /\ arrived \in 0..MaxTicks
    /\ dq \in Seq(1..MaxTicks) /\ Len(dq) <= QueueMax
    /\ flush \in BOOLEAN /\ stopping \in BOOLEAN /\ final \in BOOLEAN
    /\ writer \in {"wait", "drain", "write", "done"}
    /\ batch \in Seq(1..MaxTicks) /\ Len(batch) <= BatchSize
    /\ attempt \in 0..GiveUpAfter
    /\ db \in {"up", "down"} /\ outages \in 0..MaxOutages
    /\ stored \in Seq(1..MaxTicks)
    /\ dropped \subseteq 1..MaxTicks /\ late \subseteq 1..MaxTicks

Init ==
    /\ arrived = 0 /\ dq = <<>> /\ flush = FALSE /\ stopping = FALSE
    /\ writer = "wait" /\ final = FALSE /\ batch = <<>> /\ attempt = 0
    /\ db = "up" /\ outages = 0
    /\ stored = <<>> /\ dropped = {} /\ late = {}

--------------------------------------------------------------------------------
\* Slip: a full deque is cut without counting what it held.
Appended_uncounted(t) ==
    IF Len(dq) < QueueMax THEN [dq |-> Append(dq, t), shed |-> {}]
    ELSE [dq |-> Append(Tail(dq), t), shed |-> {}]
\* Slip: the deque's bound is not enforced.
Appended_unbounded(t) == [dq |-> Append(dq, t), shed |-> {}]
\* The deque with tick t in it, and what is shed for it.
Appended(t) ==
    IF Len(dq) < QueueMax THEN [dq |-> Append(dq, t), shed |-> {}]
    ELSE IF OverflowPolicy = "drop_oldest"
         THEN [dq |-> Append(Tail(dq), t), shed |-> {Head(dq)}]
         ELSE [dq |-> dq, shed |-> {t}]

\* enqueue(), on the socket thread; the socket may still deliver after stop().
Enqueue ==
    LET t == arrived + 1
        new == Appended(t)
    IN  /\ arrived < MaxTicks
        /\ arrived' = t
        /\ dq' = new.dq
        /\ dropped' = dropped \cup new.shed
        /\ flush' = (flush \/ (t \notin new.shed /\ Len(new.dq) >= BatchSize))
        /\ late' = IF stopping THEN late \cup {t} ELSE late
        /\ UNCHANGED <<stopping, writerVars, dbVars>>

\* stop(): whether or not a drain is asked for, the loop ends with one.
Stop ==
    /\ ~stopping
    /\ stopping' = TRUE /\ flush' = TRUE
    /\ UNCHANGED <<arrived, dq, writerVars, dbVars, dropped, late>>

\* The loop waits for the flush event or for its timeout, whichever comes first.
Wait ==
    /\ writer = "wait"
    /\ writer' = "drain"
    /\ flush' = FALSE
    /\ UNCHANGED <<arrived, dq, stopping, final, batch, attempt, dbVars, stored, dropped, late>>

\* Slip: the newest tick is taken first.
TakeBatch_requeues ==
    /\ writer = "drain" /\ dq # <<>>
    /\ batch' = SubSeq(dq, Len(dq), Len(dq))
    /\ dq' = SubSeq(dq, 1, Len(dq) - 1)
    /\ writer' = "write" /\ attempt' = 0
    /\ UNCHANGED <<arrived, flush, stopping, final, dbVars, stored, dropped, late>>
\* _drain_and_write: the next batch, until the deque is empty.
TakeBatch ==
    LET n == IF Len(dq) < BatchSize THEN Len(dq) ELSE BatchSize
    IN  /\ writer = "drain" /\ dq # <<>>
        /\ batch' = SubSeq(dq, 1, n)
        /\ dq' = SubSeq(dq, n + 1, Len(dq))
        /\ writer' = "write" /\ attempt' = 0
        /\ UNCHANGED <<arrived, flush, stopping, final, dbVars, stored, dropped, late>>

\* The drain ends.  The loop sees _stop only here, and one more drain follows.
Drained ==
    /\ writer = "drain" /\ dq = <<>>
    /\ writer' = IF final THEN "done" ELSE IF stopping THEN "drain" ELSE "wait"
    /\ final' = (final \/ stopping)
    /\ UNCHANGED <<arrived, dq, flush, stopping, batch, attempt, dbVars, stored, dropped, late>>

Written ==
    /\ writer = "write" /\ db = "up"
    /\ stored' = stored \o batch
    /\ writer' = "drain" /\ batch' = <<>> /\ attempt' = 0
    /\ UNCHANGED <<arrived, dq, flush, stopping, final, dbVars, dropped, late>>

\* Slip: a batch is retried for ever, also at shutdown.
GivesUp_never(n) == FALSE
\* _write_with_retry after an exception: another try, unless the collector is stopping
\* and this was the third.
GivesUp(n) == stopping /\ n >= GiveUpAfter

Failed ==
    LET n == IF attempt < GiveUpAfter THEN attempt + 1 ELSE attempt
    IN  IF GivesUp(n)
        THEN /\ dropped' = dropped \cup ToSet(batch)
             /\ writer' = "drain" /\ batch' = <<>> /\ attempt' = 0
        ELSE /\ attempt' = n
             /\ UNCHANGED <<dropped, writer, batch>>

WriteFails ==
    /\ writer = "write" /\ db = "down"
    /\ Failed
    /\ UNCHANGED <<arrived, dq, flush, stopping, final, dbVars, stored, late>>

\* The batch is committed and the answer is lost.
AnswerLost ==
    /\ writer = "write" /\ db = "up" /\ outages < MaxOutages
    /\ outages' = outages + 1
    /\ stored' = stored \o batch
    /\ Failed
    /\ UNCHANGED <<arrived, dq, flush, stopping, final, db, late>>

\* The database goes away, and may come back.
DatabaseChanges ==
    /\ \/ db = "up" /\ outages < MaxOutages /\ db' = "down" /\ outages' = outages + 1
       \/ db = "down" /\ db' = "up" /\ UNCHANGED outages
    /\ UNCHANGED <<arrived, dq, flush, stopping, writerVars, dropped, late>>

Writer == Wait \/ TakeBatch \/ Drained \/ Written \/ WriteFails

Next == Enqueue \/ Stop \/ Writer \/ AnswerLost \/ DatabaseChanges

Spec == Init /\ [][Next]_vars

\* The writer thread runs.
Fairness == WF_vars(Writer)

--------------------------------------------------------------------------------
Stored == ToSet(stored)

\* Every tick that has arrived is somewhere, ...
NoneIsLost == ToSet(dq) \cup ToSet(batch) \cup Stored \cup dropped = 1..arrived

\* ... and a tick that is still on its way is in one place and not counted as dropped.
\* (A tick may be stored and also counted: the answer of its write was lost during
\* shutdown.)
NoneIsCountedEarly == (ToSet(dq) \cup ToSet(batch)) \cap dropped = {}

NothingVanishes == NoneIsLost /\ IsInjective(dq \o batch) /\ NoneIsCountedEarly

\* A tick never reaches the table before one that arrived earlier and will still be
\* written, whatever is shed, retried or written twice.
BatchComesFirst == \A s \in ToSet(batch), t \in ToSet(dq) : s < t
FirstWritesInOrder ==
    \A i, j \in DOMAIN stored :
        i < j /\ stored[j] < stored[i] => \E k \in 1..(i - 1) : stored[k] = stored[j]

StoredInOrder == BatchComesFirst /\ FirstWritesInOrder

\* Both, through overflow, retries, lost answers and shutdown (enqueue, _take_batch,
\* _write_with_retry).
TicksAreAccounted == NothingVanishes /\ StoredInOrder

\* What keeps it so: the deque and the batch are in order of arrival, nothing in the
\* table is later than what is queued, and a tick of the batch that is written again
\* had reached the table before everything later that is there.
Ascending(s) == \A i, j \in DOMAIN s : i < j => s[i] < s[j]

QueuesAreOrdered == Ascending(dq) /\ Ascending(batch) /\ (writer # "write" => batch = <<>>)

RetriesKeepOrder ==
    /\ \A s \in Stored, t \in ToSet(dq) : s < t
    /\ \A i \in DOMAIN stored, t \in ToSet(batch) :
          t < stored[i] => \E k \in 1..(i - 1) : stored[k] = t

\* Proved inductive in module MarketDataProofs.
WriterInv ==
    /\ TypeOK /\ NoneIsLost /\ NoneIsCountedEarly /\ BatchComesFirst /\ FirstWritesInOrder
    /\ QueuesAreOrdered /\ RetriesKeepOrder

\* Every tick that arrived before stop() is stored or counted as dropped, if the
\* database comes back for good, and also if it never does but the collector stops.
\* (Finitely many ticks arrive and a tick that has ended stays so.)
EveryTickEnds ==
    <>[](db = "up" \/ stopping) => []<>(1..arrived \subseteq late \cup Stored \cup dropped)

================================================================================
