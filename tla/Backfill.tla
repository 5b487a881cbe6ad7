------------------------------ MODULE Backfill ------------------------------
(* scripts/backfill.py and data/backfill/nse_bhavcopy.py over the writer's tick *)
(* buffer: which dates a later run takes for loaded. The rows of a date are a   *)
(* few parts; a flush hands the buffer to an insert, of which the writer keeps  *)
(* the rows in a file when it fails (ClickHouseWriter models it in full).       *)
EXTENDS Integers, Sequences, FiniteSets

CONSTANTS
    LastDate,       \* the trading days of the range are 1..LastDate
    Parts,          \* the rows of a date are 1..Parts
    FlushSize,      \* FLUSH_BATCH_SIZE, in parts
    Attempts,       \* downloads tried
    MaxRuns,        \* bounds of the model: runs of the script,
    MaxErrors       \* queries, downloads and inserts that fail

ASSUME BackfillAssumption ==
    /\ LastDate \in Nat /\ Parts \in Nat \ {0} /\ FlushSize \in Nat \ {0}
    /\ Attempts \in Nat \ {0} /\ MaxRuns \in Nat /\ MaxErrors \in Nat

VARIABLES
    script,         \* where the script stands: its date, attempt and part
    buffer,         \* _ticks_buffer
    inserting,      \* inserting[w]: the batch of the script's or of the loop's insert
    table,          \* table[r]: copies of a row in trading.ticks
    file,           \* rows in data/failed_writes
    runs, errors,
    cut,            \* history: dates that an end of the process interrupted, or whose
                    \* rows were neither inserted nor saved
    doubtful        \* history: rows of a date that was loaded after a failed query,
                    \* or whose insert was tried again

backfillVars == <<script, buffer, inserting, table, file, runs, errors, cut, doubtful>>

Dates == 1..LastDate
Rows == Dates \X (1..Parts)
Off == [pc |-> "off", date |-> 0, attempt |-> 0, part |-> 0]
Stand(pc, d) == [pc |-> pc, date |-> d, attempt |-> 0, part |-> 0]
ByScript == "script"
ByLoop == "loop"

BackfillInit ==
    /\ script = Off /\ buffer = {} /\ inserting = [w \in {ByScript, ByLoop} |-> {}]
    /\ table = [r \in Rows |-> 0] /\ file = {} /\ runs = 0 /\ errors = 0
    /\ cut = {} /\ doubtful = {}

-----------------------------------------------------------------------------
DatesOf(S) == {r[1] : r \in S}
InMemory == buffer \cup inserting[ByScript] \cup inserting[ByLoop]
HasRows(d) == \E p \in 1..Parts : table[<<d, p>>] > 0

\* The next date, or the end: asyncio.run cancels the flush loop, whose insert
\* goes on in its thread but is neither tried again nor saved.
NextDate(d) == IF d < LastDate THEN Stand("check", d + 1) ELSE Stand("end", 0)

StartScript ==
    /\ script.pc = "off" /\ runs < MaxRuns /\ LastDate > 0
    /\ runs' = runs + 1 /\ script' = Stand("check", 1)
    /\ UNCHANGED <<buffer, inserting, table, file, errors, cut, doubtful>>

\* is_date_loaded: one row is enough.
CheckDate ==
    /\ script.pc = "check"
    /\ script' = IF HasRows(script.date) THEN NextDate(script.date)
                 ELSE Stand("download", script.date)
    /\ UNCHANGED <<buffer, inserting, table, file, runs, errors, cut, doubtful>>

\* A query that raises answers that the date is not loaded.
CheckFails ==
    /\ script.pc = "check" /\ errors < MaxErrors /\ errors' = errors + 1
    /\ script' = Stand("download", script.date)
    /\ doubtful' = doubtful \cup ({script.date} \X (1..Parts))
    /\ UNCHANGED <<buffer, inserting, table, file, runs, cut>>

\* download_bhavcopy: the rows, or none, for a 404.
Download ==
    /\ script.pc = "download"
    /\ \/ script' = [script EXCEPT !.pc = "write", !.part = 1]
       \/ script' = NextDate(script.date)
    /\ UNCHANGED <<buffer, inserting, table, file, runs, errors, cut, doubtful>>

DownloadFails ==
    /\ script.pc = "download" /\ errors < MaxErrors /\ errors' = errors + 1
    /\ script' = IF script.attempt + 1 < Attempts THEN [script EXCEPT !.attempt = @ + 1]
                 ELSE NextDate(script.date)
    /\ UNCHANGED <<buffer, inserting, table, file, runs, cut, doubtful>>

\* Slip: the rest of the date stays in the buffer.
WritePartOnly ==
    /\ script.pc = "write" /\ inserting[ByScript] = {}
    /\ LET rows == buffer \cup {<<script.date, script.part>>}
       IN  /\ IF Cardinality(rows) >= FlushSize
              THEN inserting' = [inserting EXCEPT ![ByScript] = rows] /\ buffer' = {}
              ELSE buffer' = rows /\ UNCHANGED inserting
           /\ script' = [script EXCEPT !.part = @ + 1,
                                       !.pc = IF script.part = Parts THEN "flush" ELSE @]
    /\ UNCHANGED <<table, file, runs, errors, cut, doubtful>>

\* write_tick, which flushes a full buffer; after the last row _flush_ticks.
WritePart ==
    /\ script.pc = "write" /\ inserting[ByScript] = {}
    /\ LET rows == buffer \cup {<<script.date, script.part>>}
           last == script.part = Parts
       IN  /\ IF Cardinality(rows) >= FlushSize \/ last
              THEN inserting' = [inserting EXCEPT ![ByScript] = rows] /\ buffer' = {}
              ELSE buffer' = rows /\ UNCHANGED inserting
           /\ script' = [script EXCEPT !.part = @ + 1, !.pc = IF last THEN "flush" ELSE @]
    /\ UNCHANGED <<table, file, runs, errors, cut, doubtful>>

DateDone ==
    /\ script.pc = "flush" /\ inserting[ByScript] = {}
    /\ script' = NextDate(script.date)
    /\ UNCHANGED <<buffer, inserting, table, file, runs, errors, cut, doubtful>>

-----------------------------------------------------------------------------
\* The flush loop of the writer, while the script awaits an insert.
LoopFlushes ==
    /\ inserting[ByLoop] = {} /\ buffer # {}
    /\ inserting' = [inserting EXCEPT ![ByLoop] = buffer] /\ buffer' = {}
    /\ UNCHANGED <<script, table, file, runs, errors, cut, doubtful>>

Inserted(w) == [inserting EXCEPT ![w] = {}]

Insert(w) ==
    /\ inserting[w] # {} /\ inserting' = Inserted(w)
    /\ table' = [r \in Rows |-> IF r \in inserting[w] THEN table[r] + 1 ELSE table[r]]
    /\ UNCHANGED <<script, buffer, file, runs, errors, cut, doubtful>>

\* The answer is lost and the insert is tried again.
InsertTwice(w) ==
    /\ inserting[w] # {} /\ errors < MaxErrors /\ errors' = errors + 1
    /\ inserting' = Inserted(w)
    /\ table' = [r \in Rows |-> IF r \in inserting[w] THEN table[r] + 2 ELSE table[r]]
    /\ doubtful' = doubtful \cup inserting[w]
    /\ UNCHANGED <<script, buffer, file, runs, cut>>

\* Every try failed, and _write_fallback, which swallows its own error, saves the
\* rows, or some, or none.
InsertFails(w) ==
    /\ inserting[w] # {} /\ errors < MaxErrors /\ errors' = errors + 1
    /\ \E saved \in SUBSET inserting[w] :
         /\ file' = file \cup saved
         /\ cut' = cut \cup DatesOf(inserting[w] \ saved)
    /\ inserting' = Inserted(w)
    /\ UNCHANGED <<script, buffer, table, runs, doubtful>>

\* The process ends, at the end of main or by a crash: an insert that runs may
\* still arrive, and what is in memory is gone.
EndProcess ==
    /\ script.pc # "off" /\ script' = Off
    /\ \E arrived \in SUBSET {ByScript, ByLoop} :
         table' = [r \in Rows |->
            table[r] + Cardinality({w \in arrived : r \in inserting[w]})]
    /\ buffer' = {} /\ inserting' = [w \in {ByScript, ByLoop} |-> {}]
    /\ cut' = cut \cup DatesOf(IF script.pc = "end" THEN inserting[ByLoop] ELSE InMemory)
                  \cup (IF script.pc = "write" THEN {script.date} ELSE {})
    /\ UNCHANGED <<file, runs, errors, doubtful>>

BackfillNext ==
    \/ StartScript \/ CheckDate \/ CheckFails \/ Download \/ DownloadFails
    \/ WritePart \/ DateDone \/ LoopFlushes \/ EndProcess
    \/ \E w \in {ByScript, ByLoop} : Insert(w) \/ InsertTwice(w) \/ InsertFails(w)

BackfillSpec == BackfillInit /\ [][BackfillNext]_backfillVars

-----------------------------------------------------------------------------
\* A date that a run passes as loaded has all of its rows, in the table or in the
\* file of failed writes, unless the process once ended while they were loaded or the
\* file could not be written, of which the script learns nothing; and no row is in the
\* table twice, unless its insert was tried again or the query that asks for its date
\* had failed.
LoadedOnce ==
    /\ \A d \in Dates : HasRows(d) =>
         \/ d \in cut
         \/ d = script.date /\ script.pc \in {"write", "flush"}
         \/ \A p \in 1..Parts : table[<<d, p>>] > 0 \/ <<d, p>> \in file \cup InMemory
    /\ \A r \in Rows : table[r] > 1 => r \in doubtful
=============================================================================
