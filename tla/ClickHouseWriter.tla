-------------------------- MODULE ClickHouseWriter --------------------------
(* data/storage/clickhouse_writer.py: rows buffered in memory, batches taken    *)
(* by the flush loop or by the coroutine that fills a buffer, inserts with      *)
(* retries, and the file a batch goes to when they fail. The lock is held over  *)
(* no await: what it guards is one step here.                                   *)
EXTENDS Naturals, FiniteSets

CONSTANTS
    Rows,         \* distinct rows
    Producers,    \* coroutines that call the writer
    FlushLoop,    \* the task of _flush_loop
    BatchSize,    \* FLUSH_BATCH_SIZE
    MaxRetries    \* MAX_RETRIES

ASSUME WriterAssumption ==
    /\ IsFiniteSet(Rows)
    /\ FlushLoop \notin Producers
    /\ BatchSize \in Nat \ {0} /\ MaxRetries \in Nat \ {0}

Tasks == Producers \cup {FlushLoop}

\* The buffers in the order of _flush_all; 1 holds the ticks.
Buffers == 1..3

VARIABLES
    buffer,       \* buffer[b]: the rows of _ticks_, _order_book_, _features_buffer
    looping,      \* connect has started the flush loop
    turn,         \* the last buffer _flush_all flushed; 0: the loop sleeps
    phase,        \* phase[k]: "idle", "inserting" (in the executor) or "sleeping"
    batch,        \* batch[k]: the data of _execute_with_retry
    attempt,      \* attempt[k]
    accepted,     \* history: rows given to the writer
    stored,       \* stored[r]: copies of the row in ClickHouse
    spilled,      \* rows in a file of data/failed_writes
    excused,      \* history: rows whose fallback failed, whose task was cancelled
                  \* or whose process ended while it held them
    unsure        \* history: rows of an insert that raised after it was applied

memory == <<buffer, looping, turn>>
jobs   == <<phase, batch, attempt>>
kept   == <<stored, spilled, excused, unsure>>
vars   == <<memory, jobs, accepted, kept>>

Init ==
    /\ buffer = [b \in Buffers |-> {}] /\ looping = FALSE /\ turn = 0
    /\ phase = [k \in Tasks |-> "idle"]
    /\ batch = [k \in Tasks |-> {}] /\ attempt = [k \in Tasks |-> 0]
    /\ accepted = {} /\ stored = [r \in Rows |-> 0]
    /\ spilled = {} /\ excused = {} /\ unsure = {}

-----------------------------------------------------------------------------
Execute(k, data) ==
    /\ phase' = [phase EXCEPT ![k] = "inserting"]
    /\ batch' = [batch EXCEPT ![k] = data]
    /\ attempt' = [attempt EXCEPT ![k] = 0]

Finish(k) ==
    /\ phase' = [phase EXCEPT ![k] = "idle"]
    /\ batch' = [batch EXCEPT ![k] = {}]
    /\ UNCHANGED attempt

Accept(data) ==
    /\ data # {} /\ data \cap accepted = {}
    /\ accepted' = accepted \cup data

Connect ==
    /\ ~looping /\ looping' = TRUE
    /\ UNCHANGED <<buffer, turn, jobs, accepted, kept>>

\* Slip: the buffer is flushed by the loop alone.
WriteTickOnly(p, r) ==
    /\ phase[p] = "idle" /\ Accept({r})
    /\ buffer' = [buffer EXCEPT ![1] = @ \cup {r}]
    /\ UNCHANGED <<looping, turn, jobs, kept>>

\* The append, the test of the length and the taking of the batch: no await
\* separates them.
WriteTick(p, r) ==
    /\ phase[p] = "idle" /\ Accept({r})
    /\ LET ticks == buffer[1] \cup {r} IN
        IF Cardinality(ticks) >= BatchSize
        THEN buffer' = [buffer EXCEPT ![1] = {}] /\ Execute(p, ticks)
        ELSE buffer' = [buffer EXCEPT ![1] = ticks] /\ UNCHANGED jobs
    /\ UNCHANGED <<looping, turn, kept>>

\* write_order_book, write_feature_batch.
WriteBuffered(p, b, data) ==
    /\ phase[p] = "idle" /\ Accept(data)
    /\ \/ b = 2 /\ Cardinality(data) = 1
       \/ b = 3
    /\ buffer' = [buffer EXCEPT ![b] = @ \cup data]
    /\ UNCHANGED <<looping, turn, jobs, kept>>

\* write_fill, write_order, write_pnl_snapshot.
WriteDirect(p, r) ==
    /\ phase[p] = "idle" /\ Accept({r})
    /\ Execute(p, {r})
    /\ UNCHANGED <<memory, kept>>

\* Slip: the batch is read again after the insert, so it is not yet removed.
TakeNoClear(k, b) ==
    /\ buffer[b] # {} /\ Execute(k, buffer[b])
    /\ UNCHANGED buffer

Take(k, b) ==
    /\ buffer[b] # {} /\ Execute(k, buffer[b])
    /\ buffer' = [buffer EXCEPT ![b] = {}]

\* _flush_ticks, called by the backfill.
FlushTicks(p) ==
    /\ phase[p] = "idle" /\ Take(p, 1)
    /\ UNCHANGED <<looping, turn, accepted, kept>>

\* _flush_all takes the next buffer that is not empty, or goes back to sleep.
FlushAll ==
    /\ looping /\ phase[FlushLoop] = "idle"
    /\ LET rest == {b \in Buffers : b > turn /\ buffer[b] # {}} IN
        \/ \E b \in rest :
            /\ \A c \in rest : b <= c
            /\ turn' = b /\ Take(FlushLoop, b)
        \/ rest = {} /\ turn # 0 /\ turn' = 0 /\ UNCHANGED <<buffer, jobs>>
    /\ UNCHANGED <<looping, accepted, kept>>

-----------------------------------------------------------------------------
AddCopies(data) == stored' = [r \in Rows |-> stored[r] + IF r \in data THEN 1 ELSE 0]

\* Slip: no return after the insert, so that the for goes on.
InsertOkNoReturn(k) ==
    /\ phase[k] = "inserting"
    /\ AddCopies(batch[k])
    /\ IF attempt[k] + 1 = MaxRetries THEN Finish(k)
       ELSE attempt' = [attempt EXCEPT ![k] = @ + 1] /\ UNCHANGED <<phase, batch>>
    /\ UNCHANGED <<memory, accepted, spilled, excused, unsure>>

InsertOk(k) ==
    /\ phase[k] = "inserting"
    /\ AddCopies(batch[k]) /\ Finish(k)
    /\ UNCHANGED <<memory, accepted, spilled, excused, unsure>>

\* The insert raises, and the server may have applied it.
Raises(k) ==
    /\ phase[k] = "inserting"
    /\ \/ UNCHANGED <<stored, unsure>>
       \/ AddCopies(batch[k]) /\ unsure' = unsure \cup batch[k]

InsertFails(k) ==
    /\ Raises(k) /\ attempt[k] < MaxRetries - 1
    /\ phase' = [phase EXCEPT ![k] = "sleeping"]
    /\ UNCHANGED <<memory, batch, attempt, accepted, spilled, excused>>

\* Slips: attempt is compared with MAX_RETRIES, so that the for ends without the
\* fallback; the last exception is raised again and ends the flush loop.
GiveUpSilently(k) ==
    /\ Raises(k) /\ attempt[k] = MaxRetries - 1
    /\ Finish(k)
    /\ UNCHANGED <<memory, accepted, spilled, excused>>
GiveUpRaising(k) ==
    /\ Raises(k) /\ attempt[k] = MaxRetries - 1
    /\ spilled' = spilled \cup batch[k]
    /\ phase' = [phase EXCEPT ![k] = IF k = FlushLoop THEN "dead" ELSE "idle"]
    /\ batch' = [batch EXCEPT ![k] = {}]
    /\ UNCHANGED <<memory, attempt, accepted, excused>>

\* _write_fallback writes all the rows, or some of them before it fails.
GiveUp(k) ==
    /\ Raises(k) /\ attempt[k] = MaxRetries - 1
    /\ \E written \in SUBSET batch[k] :
        /\ spilled' = spilled \cup written
        /\ excused' = excused \cup (batch[k] \ written)
    /\ Finish(k)
    /\ UNCHANGED <<memory, accepted>>

Retry(k) ==
    /\ phase[k] = "sleeping"
    /\ phase' = [phase EXCEPT ![k] = "inserting"]
    /\ attempt' = [attempt EXCEPT ![k] = @ + 1]
    /\ UNCHANGED <<memory, batch, accepted, kept>>

\* A caller is cancelled at its await, as EventBus.stop does to a handler. The
\* thread of the executor ends its insert or not.
Cancel(p) ==
    /\ phase[p] # "idle"
    /\ excused' = excused \cup batch[p]
    /\ \/ UNCHANGED stored
       \/ phase[p] = "inserting" /\ AddCopies(batch[p])
    /\ Finish(p)
    /\ UNCHANGED <<memory, accepted, spilled, unsure>>

Held == (UNION {buffer[b] : b \in Buffers}) \cup (UNION {batch[k] : k \in Tasks})

\* The process ends, by a crash or in order: nothing flushes the buffers. A
\* thread may have applied its insert.
Crash ==
    /\ excused' = excused \cup Held
    /\ \E done \in SUBSET {k \in Tasks : phase[k] = "inserting"} :
        AddCopies(UNION {batch[k] : k \in done})
    /\ buffer' = [b \in Buffers |-> {}] /\ looping' = FALSE /\ turn' = 0
    /\ phase' = [k \in Tasks |-> "idle"]
    /\ batch' = [k \in Tasks |-> {}] /\ attempt' = [k \in Tasks |-> 0]
    /\ UNCHANGED <<accepted, spilled, unsure>>

-----------------------------------------------------------------------------
Step(k) == InsertOk(k) \/ InsertFails(k) \/ GiveUp(k) \/ Retry(k)

Call(p) ==
    \/ \E r \in Rows : WriteTick(p, r) \/ WriteDirect(p, r)
    \/ \E b \in Buffers, data \in SUBSET Rows : WriteBuffered(p, b, data)
    \/ FlushTicks(p) \/ Cancel(p)

Next ==
    \/ Connect \/ FlushAll \/ Crash
    \/ \E p \in Producers : Call(p)
    \/ \E k \in Tasks : Step(k)

\* The sleeps and the client's timeouts end; the loop is scheduled.
Fairness == WF_vars(FlushAll) /\ \A k \in Tasks : WF_vars(Step(k))

Spec == Init /\ [][Next]_vars /\ Fairness

-----------------------------------------------------------------------------
\* The shape of every variable. A write never leaves a full batch of ticks behind,
\* also when every task that could flush it is retrying.
TypeOK ==
    /\ buffer \in [Buffers -> SUBSET Rows] /\ Cardinality(buffer[1]) < BatchSize
    /\ looping \in BOOLEAN /\ turn \in 0..3
    /\ phase \in [Tasks -> {"idle", "inserting", "sleeping"}]
    /\ batch \in [Tasks -> SUBSET Rows]
    /\ attempt \in [Tasks -> 0..MaxRetries - 1]
    /\ accepted \subseteq Rows /\ stored \in [Rows -> Nat]
    /\ spilled \subseteq Rows /\ excused \subseteq Rows /\ unsure \subseteq Rows

\* A row given to the writer is in memory, in ClickHouse or in a file, unless its
\* fallback failed, its caller was cancelled or the process ended.
NoSilentLoss ==
    accepted \subseteq Held \cup {r \in Rows : stored[r] > 0} \cup spilled \cup excused

\* A row is in ClickHouse twice, or in a file as well, only after an insert that
\* raised although it had been applied.
CopiesAreUnsure ==
    \A r \in Rows : stored[r] + (IF r \in spilled THEN 1 ELSE 0) > 1 => r \in unsure

\* Once the flush loop runs, every row leaves the memory.
RowsLeaveMemory == \A r \in Rows : looping /\ r \in Held ~> r \notin Held
=============================================================================
