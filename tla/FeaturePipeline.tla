--------------------------- MODULE FeaturePipeline ---------------------------
(* The ticks of one symbol through features/pipeline.py and then through the    *)
(* machine-learning strategy, which reads the features back from Redis one by   *)
(* one; and the rows of the features on their way to ClickHouse. A value is     *)
(* told by the tick that it was computed for.                                   *)
EXTENDS Integers, FiniteSets

CONSTANTS
    FeatureCount,   \* features of the registry, in its order
    Loops,          \* dispatch loops of the event bus
    MinHistory,     \* _min_history
    MaxTicks,       \* bounds of the model: ticks,
    MaxFaults       \* features not computed, writes that raise, expiries, crashes

ASSUME PipelineAssumption ==
    /\ FeatureCount \in Nat \ {0} /\ MinHistory \in Nat
    /\ MaxTicks \in Nat /\ MaxFaults \in Nat

VARIABLES
    tickCount,      \* ticks dispatched so far
    rows,           \* rows of the tick buffer
    stored,         \* stored[f]: features:<symbol>:<f>, 0 when there is none
    pass,           \* pass[l]: the tick of the loop, what it has yet to write and to
                    \* read, and what it read
    position,       \* whether _open_positions has the symbol
    batch,          \* _features_batch
    flushing,       \* the batch that is handed to the writer
    saved,          \* rows the writer has
    faults,
    basis,          \* history: what the last entry or exit was based on
    made, lost,     \* history: rows appended to the batch, and lost by a crash
    open, forgotten \* history: entries less exits, and positions a crash forgot

pipelineHistory == <<basis, made, lost, open, forgotten>>
pipelineRows == <<batch, flushing, saved>>
pipelineVars ==
    <<tickCount, rows, stored, pass, position, pipelineRows, faults, pipelineHistory>>

Features == 1..FeatureCount
SpreadZ == 1
Unread == [f \in Features |-> 0]
NoPass == [pc |-> "idle", tick |-> 0, writes |-> {}, reads |-> {}, read |-> Unread,
           disturbed |-> FALSE]
NoBasis == [tick |-> 0, read |-> Unread, spread |-> 0, disturbed |-> FALSE]

PipelineInit ==
    /\ tickCount = 0 /\ rows = 0 /\ stored = Unread
    /\ pass = [l \in Loops |-> NoPass] /\ position = FALSE
    /\ batch = {} /\ flushing = {} /\ saved = {} /\ faults = 0
    /\ basis = NoBasis /\ made = {} /\ lost = {} /\ open = 0 /\ forgotten = 0

-----------------------------------------------------------------------------
IsAt(l, pc) == pass[l].pc = pc
ToStrategy(p) == [p EXCEPT !.pc = "read", !.writes = {}, !.reads = Features]

\* What another loop writes or loses disturbs every pass that is under way.
Disturb(l, p) ==
    pass' = [m \in Loops |->
               IF m = l THEN p
               ELSE [pass[m] EXCEPT !.disturbed = @ \/ pass[m].pc # "idle"]]

\* Append the tick and compute every feature; one that raises, or lacks
\* history, is left out.
OnTick(l, failed) ==
    /\ IsAt(l, "idle") /\ tickCount < MaxTicks
    /\ faults + Cardinality(failed) <= MaxFaults /\ faults' = faults + Cardinality(failed)
    /\ tickCount' = tickCount + 1 /\ rows' = rows + 1
    /\ LET p == [NoPass EXCEPT !.tick = tickCount']
       IN  IF rows' < MinHistory
           THEN pass' = [pass EXCEPT ![l] = [ToStrategy(p) EXCEPT !.disturbed = TRUE]]
           ELSE pass' = [pass EXCEPT ![l] =
                           [p EXCEPT !.pc = "write", !.writes = Features \ failed,
                                     !.disturbed = failed # {}]]
    /\ UNCHANGED <<stored, position, pipelineRows, pipelineHistory>>

NextToWrite(l, f) ==
    /\ IsAt(l, "write") /\ f \in pass[l].writes
    /\ \A g \in pass[l].writes : f <= g

\* Slip: the handler returns when the first feature is written.
WriteFirstFeature(l, f) ==
    /\ NextToWrite(l, f)
    /\ stored' = [stored EXCEPT ![f] = pass[l].tick]
    /\ Disturb(l, ToStrategy(pass[l]))
    /\ UNCHANGED <<tickCount, rows, position, pipelineRows, faults, pipelineHistory>>

\* set_feature, and the row for the batch.
WriteFeature(l, f) ==
    /\ NextToWrite(l, f)
    /\ stored' = [stored EXCEPT ![f] = pass[l].tick]
    /\ LET row == <<pass[l].tick, f>>
       IN  batch' = batch \cup {row} /\ made' = made \cup {row}
    /\ Disturb(l, [pass[l] EXCEPT !.writes = @ \ {f}])
    /\ UNCHANGED <<tickCount, rows, position, flushing, saved, faults, basis, lost, open, forgotten>>

\* The pipeline's handler returns, and the strategy's is called.
EndWrites(l) ==
    /\ IsAt(l, "write") /\ pass[l].writes = {}
    /\ pass' = [pass EXCEPT ![l] = ToStrategy(pass[l])]
    /\ UNCHANGED <<tickCount, rows, stored, position, pipelineRows, faults, pipelineHistory>>

\* set_feature raises: the handler ends, and the strategy's is called.
WriteFeatureFails(l) ==
    /\ IsAt(l, "write") /\ pass[l].writes # {} /\ faults < MaxFaults
    /\ faults' = faults + 1
    /\ pass' = [pass EXCEPT ![l] = [ToStrategy(pass[l]) EXCEPT !.disturbed = TRUE]]
    /\ UNCHANGED <<tickCount, rows, stored, position, pipelineRows, pipelineHistory>>

\* get_all_features, one key; a feature that has expired counts as 0.
ReadFeature(l, f) ==
    /\ IsAt(l, "read") /\ f \in pass[l].reads
    /\ pass' = [pass EXCEPT ![l] =
                   [pass[l] EXCEPT !.read = [pass[l].read EXCEPT ![f] = stored[f]],
                                   !.reads = @ \ {f},
                                   !.pc = IF pass[l].reads = {f} THEN "spread" ELSE "read"]]
    /\ UNCHANGED <<tickCount, rows, stored, position, pipelineRows, faults, pipelineHistory>>

\* The strategy is halted, it is too early or too late, the prediction is not
\* confident, the spread too wide, or the position is kept.
NoSignal(l) ==
    /\ pass[l].pc \in {"read", "spread"}
    /\ pass[l].pc = "read" => pass[l].reads = Features
    /\ pass' = [pass EXCEPT ![l] = NoPass]
    /\ UNCHANGED <<tickCount, rows, stored, position, pipelineRows, faults, pipelineHistory>>

\* Slip: the position was looked up before the features, when another loop may have
\* been about to change it.
SignalOnEarlier(l) ==
    /\ IsAt(l, "spread")
    /\ \E seen \in BOOLEAN :
         /\ seen # position => pass[l].disturbed
         /\ position' = ~seen
         /\ open' = IF seen THEN open - 1 ELSE open + 1
    /\ pass' = [pass EXCEPT ![l] = NoPass]
    /\ UNCHANGED <<tickCount, rows, stored, pipelineRows, faults, basis, made, lost, forgotten>>

\* The read of the spread is the last await: an entry when no position is open, and
\* the stop loss of the position otherwise.
Signal(l) ==
    /\ IsAt(l, "spread")
    /\ position' = ~position
    /\ open' = IF position THEN open - 1 ELSE open + 1
    /\ basis' = [tick |-> pass[l].tick, read |-> pass[l].read, spread |-> stored[SpreadZ],
                 disturbed |-> pass[l].disturbed]
    /\ pass' = [pass EXCEPT ![l] = NoPass]
    /\ UNCHANGED <<tickCount, rows, stored, pipelineRows, faults, made, lost, forgotten>>

-----------------------------------------------------------------------------
\* Slip: the batch is cleared when the writer has it.
CopyBatchOnly ==
    /\ batch # {} /\ flushing = {} /\ flushing' = batch
    /\ UNCHANGED <<tickCount, rows, stored, pass, position, batch, saved, faults, pipelineHistory>>

\* _flush_loop copies and clears the batch and awaits the writer, which only
\* appends to its own buffer.
StartFlush ==
    /\ batch # {} /\ flushing = {}
    /\ flushing' = batch /\ batch' = {}
    /\ UNCHANGED <<tickCount, rows, stored, pass, position, saved, faults, pipelineHistory>>

EndFlush ==
    /\ flushing # {} /\ flushing' = {}
    /\ saved' = saved \cup flushing
    /\ UNCHANGED <<tickCount, rows, stored, pass, position, batch, faults, pipelineHistory>>

\* FEATURE_TTL has passed since the feature was written.
FeatureExpires(f) ==
    /\ stored[f] # 0 /\ faults < MaxFaults /\ faults' = faults + 1
    /\ stored' = [stored EXCEPT ![f] = 0]
    /\ pass' = [m \in Loops |-> [pass[m] EXCEPT !.disturbed = @ \/ pass[m].pc # "idle"]]
    /\ UNCHANGED <<tickCount, rows, position, pipelineRows, pipelineHistory>>

\* The process starts again: Redis keeps the features, and nobody the position.
CrashPipeline ==
    /\ faults < MaxFaults /\ faults' = faults + 1
    /\ rows' = 0 /\ pass' = [l \in Loops |-> NoPass] /\ position' = FALSE
    /\ lost' = lost \cup batch \cup flushing /\ batch' = {} /\ flushing' = {}
    /\ forgotten' = IF position THEN forgotten + 1 ELSE forgotten
    /\ UNCHANGED <<tickCount, stored, saved, basis, made, open>>

PipelineNext ==
    \/ \E l \in Loops :
         \/ \E failed \in SUBSET Features : OnTick(l, failed)
         \/ \E f \in Features : WriteFeature(l, f) \/ ReadFeature(l, f)
         \/ EndWrites(l) \/ WriteFeatureFails(l) \/ NoSignal(l) \/ Signal(l)
    \/ \E f \in Features : FeatureExpires(f)
    \/ StartFlush \/ EndFlush \/ CrashPipeline

PipelineSpec == PipelineInit /\ [][PipelineNext]_pipelineVars

-----------------------------------------------------------------------------
\* A signal rests on features that were all computed for the tick it answers,
\* unless another dispatch loop wrote in between, or one of them was not computed
\* or written for that tick, or expired.
OneTickFeatures ==
    basis.disturbed \/ (basis.spread = basis.tick
                        /\ \A f \in Features : basis.read[f] = basis.tick)

\* Every row that was made is in one place: the batch, the flush or the writer,
\* or a crash has lost it.
RowsAccounted ==
    /\ made = batch \cup flushing \cup saved \cup lost
    /\ Cardinality(made) = Cardinality(batch) + Cardinality(flushing)
                           + Cardinality(saved) + Cardinality(lost)

\* Entries and exits alternate whatever loops run: what is open is the position
\* the strategy knows of and those a crash made it forget.
EntriesAlternate == open = forgotten + (IF position THEN 1 ELSE 0)
=============================================================================
