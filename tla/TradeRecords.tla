------------------------------ MODULE TradeRecords ------------------------------
(***************************************************************************)
(* What a finished exit leaves behind besides its execution rows: the day's Excel     *)
(* report, rebuilt whole from the database, and one row of trade_history.  Exits of     *)
(* several instances finish on their own threads; the process may die anywhere, a file    *)
(* or a transaction may fail, and every failure is swallowed.  A backfill, in a process     *)
(* of its own, records what is missing while exits go on.                                    *)
(***************************************************************************)
EXTENDS Integers, FiniteSets

CONSTANTS
    Position, DayOf,   \* positions and their trade_date
    Pnls,              \* Pnls[p]: what the realized P&L of an exit may be
    LastDay,           \* bound: days
    MaxFaults          \* bound: crashes, failed saves and failed transactions

VARIABLES
    day,
    step,       \* step[p]: what the exit of p does next
    exit_at,    \* exit_completed_at, or 0
    pnl,        \* realized_pnl
    closed,     \* the positions whose state is CLOSED
    collected,  \* collected[p]: the rows read by the export of p
    report,     \* report[d]: the rows of the day's workbook
    torn,       \* the days whose workbook a crash lost while it was written
    rows,       \* rows[p]: trade_history rows of p
    inserting,  \* inserting[p]: whose transactions have inserted a row and not committed
    backfill,   \* what the backfill does next
    listed,     \* the positions that were CLOSED when it began
    todo,       \* those it has yet to record
    saved, botched,  \* history: exports that were saved; whether a record of this backfill failed
    faults

vars == <<day, step, exit_at, pnl, closed, collected, report, torn, rows, inserting, backfill, listed, todo,
          saved, botched, faults>>
db == <<exit_at, pnl, closed>>
file == <<collected, report, torn, saved>>
history == <<rows, inserting>>
other == <<backfill, listed, todo, botched>>

Backfill == "backfill"
Day == 1..LastDay
\* A workbook has one row for each position it reports, by exit time, with running totals.
IsReport(lines) == lines \in [DOMAIN lines -> [profit : Nat, loss : Nat]] /\ DOMAIN lines \subseteq Position
Nothing == [p \in {} |-> 0]

TypeOK ==
    /\ day \in Day
    /\ step \in [Position -> {"open", "commit", "export", "save", "look", "insert", "record", "over"}]
    /\ exit_at \in [Position -> Nat] /\ pnl \in [Position -> Int] /\ closed \subseteq Position
    /\ collected = [p \in Position |-> collected[p]] /\ \A p \in Position : IsReport(collected[p])
    /\ report = [d \in Day |-> report[d]] /\ \A d \in Day : IsReport(report[d])
    /\ torn \subseteq Day
    /\ rows \in [Position -> Nat]
    /\ inserting \in [Position -> SUBSET (Position \cup {Backfill})]
    /\ backfill \in {"idle", "look", "insert", "record", "finished"}
    /\ listed \subseteq closed /\ todo \subseteq listed
    /\ saved \subseteq Position /\ botched \in BOOLEAN /\ faults \in 0..MaxFaults

Init ==
    /\ day = 1
    /\ step = [p \in Position |-> "open"]
    /\ exit_at = [p \in Position |-> 0] /\ pnl = [p \in Position |-> 0] /\ closed = {}
    /\ collected = [p \in Position |-> Nothing] /\ report = [d \in Day |-> Nothing] /\ torn = {}
    /\ rows = [p \in Position |-> 0] /\ inserting = [p \in Position |-> {}]
    /\ backfill = "idle" /\ listed = {} /\ todo = {}
    /\ saved = {} /\ botched = FALSE /\ faults = 0

Fault == faults < MaxFaults /\ faults' = faults + 1
Goes(p, to) == step' = [step EXCEPT ![p] = to]

--------------------------------------------------------------------------------
(* The exit *)

\* Exits are numbered in the order of their times.
Latest == CHOOSE at \in {exit_at[q] : q \in Position} : \A q \in Position : exit_at[q] <= at

\* _finalize_closed: the exit time and the P&L are set, then committed with CLOSED.
Finalize(p) ==
    /\ step[p] = "open" /\ day = DayOf[p]
    /\ exit_at' = [exit_at EXCEPT ![p] = Latest + 1]
    /\ \E n \in Pnls[p] : pnl' = [pnl EXCEPT ![p] = n]
    /\ Goes(p, "commit")
    /\ UNCHANGED <<day, closed, file, history, other, faults>>
CommitClosed(p) ==
    /\ step[p] = "commit" /\ closed' = closed \cup {p}
    /\ Goes(p, "export")
    /\ UNCHANGED <<day, exit_at, pnl, file, history, other, faults>>

\* Reconciliation closes an entry that never filled: no exit, and no records.
Aborted(p) ==
    /\ step[p] = "open" /\ day = DayOf[p]
    /\ closed' = closed \cup {p}
    /\ Goes(p, "over")
    /\ UNCHANGED <<day, exit_at, pnl, file, history, other, faults>>

--------------------------------------------------------------------------------
(* The report *)

Gains == [p \in Position |-> IF pnl[p] > 0 THEN pnl[p] ELSE 0]
Losses == [p \in Position |-> IF pnl[p] < 0 THEN -pnl[p] ELSE 0]

\* The sum of the values of the positions in S.
Total(values, S) ==
    LET sum[T \in SUBSET Position] ==
            IF T = {} THEN 0 ELSE LET p == CHOOSE p \in T : TRUE IN values[p] + sum[T \ {p}]
    IN  sum[S]

\* What the totals of p run over: every earlier day, and the day's positions up to p.
UpTo(d, today, p) == {q \in closed : DayOf[q] < d} \cup {q \in today : exit_at[q] <= exit_at[p]}

\* _opening_cumulative and _collect_rows: the CLOSED positions of the day by exit time,
\* with totals that run on from every earlier day.  Aborted ones have no priced leg.
Rows(d) ==
    LET today == {p \in closed : DayOf[p] = d /\ exit_at[p] > 0}
    IN  [p \in today |-> [profit |-> Total(Gains, UpTo(d, today, p)),
                          loss |-> Total(Losses, UpTo(d, today, p))]]

\* Slip: the lock covers the writing and not the reading.
MayCollect_any == TRUE
\* _write_lock is free: no export is between its reading and its writing.
MayCollect == \A q \in Position : step[q] # "save"

\* export_day takes the lock and reads, ...
Collect(p) ==
    /\ step[p] = "export" /\ MayCollect
    /\ collected' = [collected EXCEPT ![p] = Rows(DayOf[p])]
    /\ Goes(p, "save")
    /\ UNCHANGED <<day, report, torn, saved, db, history, other, faults>>

EndsExport(p) == collected' = [collected EXCEPT ![p] = Nothing] /\ Goes(p, "look")

\* ... writes the workbook and lets go.
Save(p) ==
    /\ step[p] = "save" /\ EndsExport(p)
    /\ report' = [report EXCEPT ![DayOf[p]] = collected[p]]
    /\ torn' = torn \ {DayOf[p]}
    /\ saved' = saved \cup {p}
    /\ UNCHANGED <<day, db, history, other, faults>>

\* The file cannot be written (it may be open elsewhere), or the read fails.
ExportFails(p) ==
    /\ step[p] = "save" /\ EndsExport(p) /\ Fault
    /\ UNCHANGED <<day, report, torn, saved, db, history, other>>

--------------------------------------------------------------------------------
(* trade_history: one transaction of _record, of the exit of p or of the backfill *)

\* Slip: position_id is not unique.
KeyTaken_never(p) == FALSE
\* An insert waits for another transaction that has inserted the key, and fails once that
\* has committed.
KeyTaken(p) == inserting[p] # {} \/ rows[p] > 0

Insert(p, writer) ==
    /\ ~KeyTaken(p) /\ inserting' = [inserting EXCEPT ![p] = @ \cup {writer}]
    /\ UNCHANGED rows

\* _get_or_create: the IntegrityError, and the lookup after it.
FindsIt(p) == KeyTaken(p) /\ inserting[p] = {} /\ UNCHANGED history

Commit(p, writer) ==
    /\ rows' = [rows EXCEPT ![p] = @ + 1]
    /\ inserting' = [inserting EXCEPT ![p] = @ \ {writer}]

RollsBack(p, writer) ==
    /\ Fault /\ inserting' = [inserting EXCEPT ![p] = @ \ {writer}]
    /\ UNCHANGED rows

\* record_closed_position, after the export.
Look(p) ==
    /\ step[p] = "look" /\ Goes(p, IF rows[p] > 0 THEN "over" ELSE "insert")
    /\ UNCHANGED <<day, db, file, history, other, faults>>
InsertRow(p) ==
    /\ step[p] = "insert"
    /\ \/ Insert(p, p) /\ Goes(p, "record")
       \/ FindsIt(p) /\ Goes(p, "over")
    /\ UNCHANGED <<day, db, file, other, faults>>
Record(p) ==
    /\ step[p] = "record" /\ Goes(p, "over")
    /\ Commit(p, p)
    /\ UNCHANGED <<day, db, file, other, faults>>
RecordFails(p) ==
    /\ step[p] \in {"insert", "record"} /\ Goes(p, "over")
    /\ RollsBack(p, p)
    /\ UNCHANGED <<day, db, file, other>>

--------------------------------------------------------------------------------
(* The backfill *)

BackfillBegins ==
    /\ backfill = "idle" /\ backfill' = "look"
    /\ listed' = closed /\ todo' = {p \in closed : rows[p] = 0}
    /\ botched' = FALSE
    /\ UNCHANGED <<day, step, db, file, history, faults>>

Current == CHOOSE p \in todo : TRUE
NextOne == backfill' = "look" /\ todo' = todo \ {Current}

BackfillLooks ==
    /\ backfill = "look" /\ todo # {}
    /\ IF rows[Current] > 0 THEN NextOne ELSE backfill' = "insert" /\ UNCHANGED todo
    /\ UNCHANGED <<day, step, db, file, history, listed, botched, faults>>
BackfillInserts ==
    /\ backfill = "insert"
    /\ \/ Insert(Current, Backfill) /\ backfill' = "record" /\ UNCHANGED todo
       \/ FindsIt(Current) /\ NextOne
    /\ UNCHANGED <<day, step, db, file, listed, botched, faults>>
BackfillRecords ==
    /\ backfill = "record" /\ NextOne
    /\ Commit(Current, Backfill)
    /\ UNCHANGED <<day, step, db, file, listed, botched, faults>>
BackfillFails ==
    /\ backfill \in {"insert", "record"} /\ NextOne
    /\ RollsBack(Current, Backfill) /\ botched' = TRUE
    /\ UNCHANGED <<day, step, db, file, listed>>
BackfillEnds ==
    /\ backfill = "look" /\ todo = {} /\ backfill' = "finished"
    /\ UNCHANGED <<day, step, db, file, history, listed, todo, botched, faults>>

--------------------------------------------------------------------------------
\* The trading process dies.  An exit that had not committed is finished by the next
\* process; the records of one that had are not made up for, and a workbook that was
\* being written may be lost.
Crash ==
    /\ \E p \in Position : step[p] \notin {"open", "over"}
    /\ Fault
    /\ step' = [p \in Position |-> IF step[p] \in {"open", "commit"} THEN "open" ELSE "over"]
    /\ exit_at' = [p \in Position |-> IF step[p] = "commit" THEN 0 ELSE exit_at[p]]
    /\ pnl' = [p \in Position |-> IF step[p] = "commit" THEN 0 ELSE pnl[p]]
    /\ \E lost \in SUBSET {DayOf[p] : p \in {q \in Position : step[q] = "save"}} :
          /\ torn' = torn \cup lost
          /\ report' = [d \in Day |-> IF d \in lost THEN Nothing ELSE report[d]]
    /\ collected' = [p \in Position |-> Nothing]
    /\ inserting' = [p \in Position |-> inserting[p] \cap {Backfill}]
    /\ UNCHANGED <<day, closed, saved, rows, other>>

\* An exit takes seconds and none is under way at midnight.
Midnight ==
    /\ day < LastDay /\ day' = day + 1
    /\ \A p \in Position : step[p] \in {"open", "over"}
    /\ UNCHANGED <<step, db, file, history, other, faults>>

Exit(p) ==
    \/ Finalize(p) \/ CommitClosed(p) \/ Aborted(p)
    \/ Collect(p) \/ Save(p) \/ ExportFails(p)
    \/ Look(p) \/ InsertRow(p) \/ Record(p) \/ RecordFails(p)

Next ==
    \/ \E p \in Position : Exit(p)
    \/ BackfillBegins \/ BackfillLooks \/ BackfillInserts \/ BackfillRecords \/ BackfillFails \/ BackfillEnds
    \/ Crash \/ Midnight

Spec == Init /\ [][Next]_vars

--------------------------------------------------------------------------------
\* However exits and a backfill interleave, fail or die: a closed position has at most one
\* history row and no other has one; a backfill without a failure leaves none of the
\* positions it listed without a row (_get_or_create, _run).
HistoryIsOnce ==
    /\ \A p \in Position : rows[p] <= 1 /\ (rows[p] = 1 => p \in closed)
    /\ backfill = "finished" /\ ~botched => \A p \in listed : rows[p] = 1

\* However exports interleave: a position whose report was saved stays in the day's report,
\* unless a crash lost that; and each row carries the profit and loss of the earlier
\* days and of every exit reported up to it (export_day, _collect_rows).
ReportsAreTrue ==
    \A d \in Day \ torn :
        /\ {p \in saved : DayOf[p] = d} \subseteq DOMAIN report[d]
        /\ \A p \in DOMAIN report[d] :
              report[d][p].profit - report[d][p].loss = Total(pnl, UpTo(d, DOMAIN report[d], p))

\* What a finished exit leaves behind besides its execution rows is true.
RecordsAreTrue == HistoryIsOnce /\ ReportsAreTrue

================================================================================
