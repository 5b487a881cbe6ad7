----------------------- MODULE ClickHouseWriterProofs -----------------------
(* Theorems about ClickHouseWriter for any rows, callers, batch size and number *)
(* of attempts: no row is lost silently, and no row is copied without a cause.  *)
EXTENDS ClickHouseWriter, FiniteSetTheorems, TLAPS

\* The part of TypeOK that says where every variable ranges.
Types ==
    /\ buffer \in [Buffers -> SUBSET Rows]
    /\ looping \in BOOLEAN /\ turn \in 0..3
    /\ phase \in [Tasks -> {"idle", "inserting", "sleeping"}]
    /\ batch \in [Tasks -> SUBSET Rows]
    /\ attempt \in [Tasks -> 0..MaxRetries - 1]
    /\ accepted \subseteq Rows /\ stored \in [Rows -> Nat]
    /\ spilled \subseteq Rows /\ excused \subseteq Rows /\ unsure \subseteq Rows

BoundedTicks == Cardinality(buffer[1]) < BatchSize

\* An idle task holds no batch, and one that sleeps has an attempt left.
Phases ==
    \A k \in Tasks : /\ phase[k] = "idle" => batch[k] = {}
                     /\ phase[k] = "sleeping" => attempt[k] < MaxRetries - 1

\* A row in memory was accepted, and lies in one place.
InOnePlace ==
    /\ \A b \in Buffers : buffer[b] \subseteq accepted
    /\ \A k \in Tasks : batch[k] \subseteq accepted
    /\ \A b, c \in Buffers : b # c => buffer[b] \cap buffer[c] = {}
    /\ \A b \in Buffers, k \in Tasks : buffer[b] \cap batch[k] = {}
    /\ \A j, k \in Tasks : j # k => batch[j] \cap batch[k] = {}

Kept(r) == stored[r] > 0 \/ r \in spilled

\* A row that is kept although it is still in memory, or was never accepted, was
\* in an insert whose outcome is unknown; so was a row that is kept twice.
KeptOnce ==
    /\ \A r \in Rows : Kept(r) => r \in accepted
    /\ \A r \in Held : Kept(r) => r \in unsure
    /\ CopiesAreUnsure

IInv == Types /\ Phases /\ InOnePlace /\ KeptOnce /\ NoSilentLoss

-----------------------------------------------------------------------------
\* To be in memory is to be in a buffer or in a batch.
LEMMA HeldIs ==
    /\ \A r : r \in Held <=> \/ \E b \in Buffers : r \in buffer[b]
                             \/ \E k \in Tasks : r \in batch[k]
    /\ \A r : r \in Held' <=> \/ \E b \in Buffers : r \in buffer'[b]
                              \/ \E k \in Tasks : r \in batch'[k]
  BY DEF Held

\* What an insert does to the copies.
LEMMA CopiesAdded ==
    ASSUME Types, NEW data, AddCopies(data)
    PROVE  /\ stored' \in [Rows -> Nat]
           /\ \A r \in Rows : /\ r \in data => stored'[r] = stored[r] + 1
                              /\ r \notin data => stored'[r] = stored[r]
  BY DEF AddCopies, Types

\* A batch that is taken is in one place afterwards.
LEMMA BatchTaken ==
    ASSUME Types, NEW k \in Tasks, NEW data \in SUBSET Rows, Execute(k, data)
    PROVE  /\ phase' \in [Tasks -> {"idle", "inserting", "sleeping"}]
           /\ batch' \in [Tasks -> SUBSET Rows] /\ attempt' \in [Tasks -> 0..MaxRetries - 1]
           /\ phase'[k] = "inserting" /\ batch'[k] = data
           /\ \A j \in Tasks \ {k} : /\ phase'[j] = phase[j] /\ batch'[j] = batch[j]
                                     /\ attempt'[j] = attempt[j]
  BY WriterAssumption DEF Types, Execute

LEMMA BatchDone ==
    ASSUME Types, NEW k \in Tasks, Finish(k)
    PROVE  /\ phase' \in [Tasks -> {"idle", "inserting", "sleeping"}]
           /\ batch' \in [Tasks -> SUBSET Rows] /\ attempt' \in [Tasks -> 0..MaxRetries - 1]
           /\ phase'[k] = "idle" /\ batch'[k] = {}
           /\ \A j \in Tasks \ {k} : /\ phase'[j] = phase[j] /\ batch'[j] = batch[j]
                                     /\ attempt'[j] = attempt[j]
  BY DEF Types, Finish

LEMMA IdleHoldsNothing ==
    ASSUME IInv, NEW k \in Tasks, phase[k] = "idle"
    PROVE  batch[k] = {}
<1>1. Phases
  BY DEF IInv
<1>2. QED
  BY <1>1 DEF Phases

-----------------------------------------------------------------------------
\* The steps of the first kind accept rows or move them within the memory: the
\* rows of new come in, nothing goes out, nothing is kept.
Grows(new) ==
    /\ new \subseteq Rows /\ new \cap accepted = {} /\ accepted' = accepted \cup new
    /\ \A r : r \in Held' <=> r \in Held \/ r \in new
    /\ UNCHANGED kept

\* The steps of the second kind keep rows or give them up.
Shrinks ==
    /\ accepted' = accepted
    /\ \A b \in Buffers : buffer'[b] \subseteq buffer[b]
    /\ \A k \in Tasks : batch'[k] \subseteq batch[k]
    /\ stored' \in [Rows -> Nat] /\ spilled' \subseteq Rows
    /\ spilled \subseteq spilled' /\ excused \subseteq excused' /\ unsure \subseteq unsure'
    /\ \A r \in Rows : \/ stored'[r] = stored[r]
                       \/ r \in Held /\ stored'[r] = stored[r] + 1
    /\ \A r \in spilled' \ spilled : r \in Held
    /\ \A r \in Held : r \in Held' \/ Kept(r)' \/ r \in excused'
    /\ \A r \in Held : stored'[r] # stored[r] => r \in unsure' \/ r \notin Held'
    /\ \A r \in spilled' \ spilled :
           r \notin Held' /\ (stored'[r] # stored[r] => r \in unsure')

LEMMA GrowsKeeps ==
    ASSUME IInv, NEW new, Grows(new)
    PROVE  KeptOnce' /\ NoSilentLoss'
<1> USE DEF IInv, Types
<1>1. stored' = stored /\ spilled' = spilled /\ unsure' = unsure /\ excused' = excused
  BY DEF Grows, kept
<1>2. \A r \in Rows : Kept(r)' <=> Kept(r)
  BY <1>1 DEF Kept
<1>3. \A r \in Rows : Kept(r)' => r \in accepted'
  BY <1>2 DEF Grows, KeptOnce
<1>4. \A r \in Held' : Kept(r)' => r \in unsure'
  <2> SUFFICES ASSUME NEW r \in Held', Kept(r)' PROVE r \in unsure'
    OBVIOUS
  <2>1. Kept(r)
    BY <1>1 DEF Kept
  <2>2. CASE r \in Held
    BY <2>1, <2>2, <1>1 DEF KeptOnce
  <2>3. CASE r \in new
    BY <2>1, <2>3 DEF Grows, KeptOnce, Kept
  <2>4. QED
    BY <2>2, <2>3 DEF Grows
<1>5. CopiesAreUnsure'
  BY <1>1 DEF CopiesAreUnsure, KeptOnce
<1>6. NoSilentLoss'
  BY <1>1 DEF NoSilentLoss, Grows
<1>7. QED
  BY <1>3, <1>4, <1>5, <1>6 DEF KeptOnce

LEMMA ShrinksKeeps ==
    ASSUME IInv, Shrinks
    PROVE  InOnePlace' /\ KeptOnce' /\ NoSilentLoss'
<1> USE DEF IInv
<1>1. InOnePlace'
  BY DEF InOnePlace, Shrinks
<1>2. Held' \subseteq Held
  BY HeldIs DEF Shrinks
<1>3. Held \subseteq accepted
  BY HeldIs DEF InOnePlace
<1>4. \A r \in Rows : Kept(r)' => r \in accepted'
  BY <1>3 DEF Shrinks, KeptOnce, Kept, Types
<1>5. \A r \in Held' : Kept(r)' => r \in unsure'
  <2> SUFFICES ASSUME NEW r \in Held', Kept(r)' PROVE r \in unsure'
    OBVIOUS
  <2>1. r \in Held /\ r \in Rows
    BY <1>2, <1>3 DEF Types
  <2>2. CASE Kept(r)
    BY <2>1, <2>2 DEF Shrinks, KeptOnce
  <2>3. CASE ~Kept(r)
    BY <2>1, <2>3 DEF Shrinks, Kept
  <2>4. QED
    BY <2>2, <2>3
<1>6. CopiesAreUnsure'
  <2> SUFFICES ASSUME NEW r \in Rows,
                      stored'[r] + (IF r \in spilled' THEN 1 ELSE 0) > 1
               PROVE  r \in unsure'
    BY DEF CopiesAreUnsure
  <2>1. stored[r] \in Nat /\ stored'[r] \in Nat
    BY DEF Types, Shrinks
  <2>2. CASE r \in Held /\ Kept(r)
    BY <2>2 DEF Shrinks, KeptOnce
  <2>3. CASE r \in Held /\ ~Kept(r)
    <3>1. stored[r] = 0 /\ r \notin spilled
      BY <2>1, <2>3 DEF Kept
    <3>2. stored'[r] <= 1
      BY <3>1, <2>1 DEF Shrinks
    <3>3. r \in spilled' /\ stored'[r] # stored[r]
      BY <3>1, <3>2, <2>1
    <3>4. QED
      BY <3>1, <3>3 DEF Shrinks
  <2>4. CASE r \notin Held
    <3>1. stored'[r] = stored[r] /\ (r \in spilled' <=> r \in spilled)
      BY <2>4 DEF Shrinks
    <3>2. r \in unsure
      BY <3>1 DEF KeptOnce, CopiesAreUnsure
    <3>3. QED
      BY <3>2 DEF Shrinks
  <2>5. QED
    BY <2>2, <2>3, <2>4
<1>7. NoSilentLoss'
  <2> SUFFICES ASSUME NEW r \in accepted, r \notin Held', r \notin excused'
               PROVE  r \in Rows /\ (stored'[r] > 0 \/ r \in spilled')
    BY DEF NoSilentLoss, Shrinks
  <2>1. r \in Rows
    BY DEF Types
  <2>2. CASE r \in Held
    BY <2>1, <2>2 DEF Shrinks, Kept
  <2>3. CASE r \notin Held
    <3>1. stored[r] > 0 \/ r \in spilled
      BY <2>3 DEF NoSilentLoss, Shrinks
    <3>2. QED
      BY <2>1, <2>3, <3>1 DEF Shrinks
  <2>4. QED
    BY <2>2, <2>3
<1>8. QED
  BY <1>1, <1>4, <1>5, <1>6, <1>7 DEF KeptOnce

-----------------------------------------------------------------------------
\* The steps of the first kind, one by one: types, idle tasks, places, and the
\* rows they accept.
Rest == Types' /\ Phases' /\ InOnePlace' /\ \E new : Grows(new)

LEMMA ConnectStep == ASSUME IInv, Connect PROVE Rest
<1>1. Types' /\ Phases' /\ InOnePlace'
  BY DEF IInv, Connect, Types, Phases, InOnePlace, jobs, kept
<1>2. Grows({})
  BY HeldIs DEF Connect, Grows, jobs, IInv, Types
<1>3. QED
  BY <1>1, <1>2 DEF Rest

LEMMA RetryStep == ASSUME IInv, NEW k \in Tasks, Retry(k) PROVE Rest
<1>1. attempt[k] < MaxRetries - 1
  BY DEF IInv, Retry, Phases
<1>2. Types'
  BY <1>1, WriterAssumption DEF IInv, Retry, Types, memory, kept
<1>3. Phases' /\ InOnePlace'
  BY DEF IInv, Retry, Types, Phases, InOnePlace, memory
<1>4. Grows({})
  BY HeldIs DEF Retry, Grows, memory, IInv, Types
<1>5. QED
  BY <1>2, <1>3, <1>4 DEF Rest

LEMMA WriteTickStep ==
    ASSUME IInv, NEW p \in Producers, NEW r \in Rows, WriteTick(p, r) PROVE Rest
<1> DEFINE ticks == buffer[1] \cup {r}
<1>0. p \in Tasks /\ 1 \in Buffers /\ ticks \in SUBSET Rows
  BY DEF Tasks, Buffers, IInv, Types
<1>1. r \notin accepted /\ accepted' = accepted \cup {r}
  BY DEF WriteTick, Accept
<1>2. CASE buffer' = [buffer EXCEPT ![1] = {}] /\ Execute(p, ticks)
  <2> HIDE DEF ticks
  <2>1. /\ phase' \in [Tasks -> {"idle", "inserting", "sleeping"}]
        /\ batch' \in [Tasks -> SUBSET Rows] /\ attempt' \in [Tasks -> 0..MaxRetries - 1]
        /\ phase'[p] = "inserting" /\ batch'[p] = ticks
        /\ \A j \in Tasks \ {p} : /\ phase'[j] = phase[j] /\ batch'[j] = batch[j]
                                  /\ attempt'[j] = attempt[j]
    BY <1>0, <1>2, BatchTaken DEF IInv
  <2>2. /\ buffer'[1] = {} /\ \A b \in Buffers \ {1} : buffer'[b] = buffer[b]
        /\ buffer' \in [Buffers -> SUBSET Rows]
    BY <1>0, <1>2 DEF IInv, Types
  <2>3. batch[p] = {}
    BY <1>0, IdleHoldsNothing DEF WriteTick
  <2>4. Types'
    BY <1>1, <2>1, <2>2 DEF WriteTick, IInv, Types, kept
  <2>5. Phases'
    BY <2>1 DEF IInv, Phases
  <2>6. InOnePlace'
    BY <1>0, <1>1, <2>1, <2>2 DEF ticks, IInv, InOnePlace
  <2>7. Grows({r})
    BY <1>0, <1>1, <2>1, <2>2, <2>3, HeldIs DEF ticks, Grows, WriteTick
  <2>8. QED
    BY <2>4, <2>5, <2>6, <2>7 DEF Rest
<1>3. CASE buffer' = [buffer EXCEPT ![1] = ticks] /\ UNCHANGED jobs
  <2>1. /\ buffer'[1] = ticks /\ \A b \in Buffers \ {1} : buffer'[b] = buffer[b]
        /\ buffer' \in [Buffers -> SUBSET Rows]
    BY <1>0, <1>3 DEF IInv, Types
  <2>2. Types'
    BY <1>1, <1>3, <2>1 DEF WriteTick, IInv, Types, kept, jobs
  <2>3. Phases'
    BY <1>3 DEF IInv, Phases, jobs
  <2>4. InOnePlace'
    BY <1>0, <1>1, <1>3, <2>1 DEF IInv, InOnePlace, jobs
  <2>5. Grows({r})
    BY <1>0, <1>1, <1>3, <2>1, HeldIs DEF Grows, WriteTick, jobs
  <2>6. QED
    BY <2>2, <2>3, <2>4, <2>5 DEF Rest
<1>4. QED
  BY <1>2, <1>3 DEF WriteTick

LEMMA WriteBufferedStep ==
    ASSUME IInv, NEW p \in Producers, NEW b \in Buffers, NEW data \in SUBSET Rows,
           WriteBuffered(p, b, data)
    PROVE  Rest
<1>1. data \cap accepted = {} /\ accepted' = accepted \cup data
  BY DEF WriteBuffered, Accept
<1>2. /\ buffer'[b] = buffer[b] \cup data /\ \A c \in Buffers \ {b} : buffer'[c] = buffer[c]
      /\ buffer' \in [Buffers -> SUBSET Rows]
  BY DEF WriteBuffered, IInv, Types
<1>3. Types'
  BY <1>1, <1>2 DEF WriteBuffered, IInv, Types, kept, jobs
<1>4. Phases'
  BY DEF WriteBuffered, IInv, Phases, jobs
<1>5. InOnePlace'
  BY <1>1, <1>2 DEF WriteBuffered, IInv, InOnePlace, jobs
<1>6. Grows(data)
  BY <1>1, <1>2, HeldIs DEF Grows, WriteBuffered, jobs
<1>7. QED
  BY <1>3, <1>4, <1>5, <1>6 DEF Rest

LEMMA WriteDirectStep ==
    ASSUME IInv, NEW p \in Producers, NEW r \in Rows, WriteDirect(p, r) PROVE Rest
<1>a. p \in Tasks
  BY DEF Tasks
<1>0. p \in Tasks /\ batch[p] = {}
  BY <1>a, IdleHoldsNothing DEF WriteDirect
<1>1. r \notin accepted /\ accepted' = accepted \cup {r}
  BY DEF WriteDirect, Accept
<1>2. /\ phase' \in [Tasks -> {"idle", "inserting", "sleeping"}]
      /\ batch' \in [Tasks -> SUBSET Rows] /\ attempt' \in [Tasks -> 0..MaxRetries - 1]
      /\ phase'[p] = "inserting" /\ batch'[p] = {r}
      /\ \A j \in Tasks \ {p} : /\ phase'[j] = phase[j] /\ batch'[j] = batch[j]
                                /\ attempt'[j] = attempt[j]
  BY <1>0, BatchTaken DEF IInv, WriteDirect
<1>3. Types'
  BY <1>1, <1>2 DEF WriteDirect, IInv, Types, memory, kept
<1>4. Phases'
  BY <1>2 DEF IInv, Phases
<1>5. InOnePlace'
  BY <1>1, <1>2 DEF WriteDirect, IInv, InOnePlace, memory
<1>6. Grows({r})
  BY <1>0, <1>1, <1>2, HeldIs DEF Grows, WriteDirect, memory
<1>7. QED
  BY <1>3, <1>4, <1>5, <1>6 DEF Rest

\* Taking a batch, for the flush loop and for the backfill.
LEMMA TakeStep ==
    ASSUME IInv, NEW k \in Tasks, NEW b \in Buffers, phase[k] = "idle", Take(k, b),
           looping' \in BOOLEAN, turn' \in 0..3, UNCHANGED <<accepted, kept>>
    PROVE  Rest
<1>0. batch[k] = {} /\ buffer[b] \in SUBSET Rows
  BY IdleHoldsNothing DEF IInv, Types
<1>1. /\ phase' \in [Tasks -> {"idle", "inserting", "sleeping"}]
      /\ batch' \in [Tasks -> SUBSET Rows] /\ attempt' \in [Tasks -> 0..MaxRetries - 1]
      /\ phase'[k] = "inserting" /\ batch'[k] = buffer[b]
      /\ \A j \in Tasks \ {k} : /\ phase'[j] = phase[j] /\ batch'[j] = batch[j]
                                /\ attempt'[j] = attempt[j]
  BY <1>0, BatchTaken DEF IInv, Take
<1>2. /\ buffer'[b] = {} /\ \A c \in Buffers \ {b} : buffer'[c] = buffer[c]
      /\ buffer' \in [Buffers -> SUBSET Rows]
  BY DEF Take, IInv, Types
<1>3. Types'
  BY <1>1, <1>2 DEF IInv, Types, kept
<1>4. Phases'
  BY <1>1 DEF IInv, Phases
<1>5. InOnePlace'
  BY <1>1, <1>2 DEF IInv, InOnePlace
<1>6. Grows({})
  BY <1>0, <1>1, <1>2, HeldIs DEF Grows
<1>7. QED
  BY <1>3, <1>4, <1>5, <1>6 DEF Rest

LEMMA FlushTicksStep == ASSUME IInv, NEW p \in Producers, FlushTicks(p) PROVE Rest
  BY TakeStep DEF FlushTicks, Tasks, Buffers, IInv, Types

LEMMA FlushAllStep == ASSUME IInv, FlushAll PROVE Rest
<1>1. CASE \E b \in Buffers : turn' = b /\ Take(FlushLoop, b)
  BY <1>1, TakeStep DEF FlushAll, Tasks, Buffers, IInv, Types
<1>2. CASE turn' = 0 /\ UNCHANGED <<buffer, jobs>>
  <2>1. Types' /\ Phases' /\ InOnePlace'
    BY <1>2 DEF FlushAll, IInv, Types, Phases, InOnePlace, jobs, kept
  <2>2. Grows({})
    BY <1>2, HeldIs DEF FlushAll, Grows, jobs
  <2>3. QED
    BY <2>1, <2>2 DEF Rest
<1>3. QED
  BY <1>1, <1>2 DEF FlushAll

-----------------------------------------------------------------------------
\* The steps of the second kind, one by one.
Less == Types' /\ Phases' /\ Shrinks

\* A task that is done with its batch takes it, and nothing else, out of memory.
LEMMA BatchLeaves ==
    ASSUME IInv, NEW k \in Tasks, Finish(k), UNCHANGED memory
    PROVE  /\ phase' \in [Tasks -> {"idle", "inserting", "sleeping"}]
           /\ batch' \in [Tasks -> SUBSET Rows] /\ attempt' \in [Tasks -> 0..MaxRetries - 1]
           /\ Phases' /\ batch[k] \subseteq Rows /\ batch[k] \subseteq Held
           /\ \A c \in Buffers : buffer'[c] \subseteq buffer[c]
           /\ \A j \in Tasks : batch'[j] \subseteq batch[j]
           /\ \A r : r \in Held' <=> r \in Held /\ r \notin batch[k]
<1>1. /\ phase' \in [Tasks -> {"idle", "inserting", "sleeping"}]
      /\ batch' \in [Tasks -> SUBSET Rows] /\ attempt' \in [Tasks -> 0..MaxRetries - 1]
      /\ phase'[k] = "idle" /\ batch'[k] = {}
      /\ \A j \in Tasks \ {k} : /\ phase'[j] = phase[j] /\ batch'[j] = batch[j]
                                /\ attempt'[j] = attempt[j]
  BY BatchDone DEF IInv
<1>2. batch[k] \subseteq Rows /\ batch[k] \subseteq Held
  BY HeldIs DEF IInv, Types
<1>3. Phases'
  BY <1>1 DEF IInv, Phases
<1>4. \A c \in Buffers : buffer'[c] \subseteq buffer[c]
  BY DEF memory
<1>5. \A j \in Tasks : batch'[j] \subseteq batch[j]
  BY <1>1
<1>6. ASSUME NEW r, r \in batch[k] PROVE r \notin Held'
  BY <1>1, <1>6, HeldIs DEF IInv, InOnePlace, memory
<1>7. ASSUME NEW r, r \in Held' PROVE r \in Held
  BY <1>4, <1>5, <1>7, HeldIs
<1>8. ASSUME NEW r, r \in Held, r \notin batch[k] PROVE r \in Held'
  BY <1>1, <1>8, HeldIs DEF memory
<1>9. QED
  BY <1>1, <1>2, <1>3, <1>4, <1>5, <1>6, <1>7, <1>8

LEMMA InsertOkStep == ASSUME IInv, NEW k \in Tasks, InsertOk(k) PROVE Less
<1> DEFINE data == batch[k]
<1>1. /\ phase' \in [Tasks -> {"idle", "inserting", "sleeping"}]
      /\ batch' \in [Tasks -> SUBSET Rows] /\ attempt' \in [Tasks -> 0..MaxRetries - 1]
      /\ Phases' /\ data \subseteq Rows /\ data \subseteq Held
      /\ \A c \in Buffers : buffer'[c] \subseteq buffer[c]
      /\ \A j \in Tasks : batch'[j] \subseteq batch[j]
      /\ \A r : r \in Held' <=> r \in Held /\ r \notin data
  BY BatchLeaves DEF InsertOk
<1>2. /\ stored' \in [Rows -> Nat]
      /\ \A r \in Rows : /\ r \in data => stored'[r] = stored[r] + 1
                         /\ r \notin data => stored'[r] = stored[r]
  BY CopiesAdded DEF IInv, InsertOk
<1> HIDE DEF data
<1>3. Types'
  BY <1>1, <1>2 DEF InsertOk, IInv, Types, memory
<1>4. \A r \in data : r \in Rows /\ stored'[r] > 0
  BY <1>1, <1>2 DEF IInv, Types
<1>5. \A r \in Held : r \in Held' \/ Kept(r)'
  BY <1>1, <1>4 DEF Kept
<1>6. \A r \in Held : r \in Rows
  BY HeldIs DEF IInv, Types
<1>7. Shrinks
  BY <1>1, <1>2, <1>5, <1>6 DEF Shrinks, InsertOk, IInv, Types
<1>8. QED
  BY <1>1, <1>3, <1>7 DEF Less

\* What an insert that raises leaves: what may have been stored is marked.
LEMMA RaisesIs ==
    ASSUME IInv, NEW k \in Tasks, Raises(k)
    PROVE  /\ stored' \in [Rows -> Nat] /\ unsure \subseteq unsure' /\ unsure' \subseteq Rows
           /\ batch[k] \subseteq Rows /\ batch[k] \subseteq Held
           /\ \A r \in Rows : \/ stored'[r] = stored[r]
                              \/ /\ r \in batch[k] /\ r \in unsure'
                                 /\ stored'[r] = stored[r] + 1
<1>1. batch[k] \subseteq Rows /\ batch[k] \subseteq Held
  BY HeldIs DEF IInv, Types
<1>2. CASE UNCHANGED <<stored, unsure>>
  BY <1>1, <1>2 DEF IInv, Types
<1>3. CASE AddCopies(batch[k]) /\ unsure' = unsure \cup batch[k]
  <2>1. /\ stored' \in [Rows -> Nat]
        /\ \A r \in Rows : /\ r \in batch[k] => stored'[r] = stored[r] + 1
                           /\ r \notin batch[k] => stored'[r] = stored[r]
    BY <1>3, CopiesAdded DEF IInv
  <2>2. QED
    BY <1>1, <1>3, <2>1 DEF IInv, Types
<1>4. QED
  BY <1>2, <1>3 DEF Raises

LEMMA InsertFailsStep == ASSUME IInv, NEW k \in Tasks, InsertFails(k) PROVE Less
<1>1. /\ stored' \in [Rows -> Nat] /\ unsure \subseteq unsure' /\ unsure' \subseteq Rows
      /\ batch[k] \subseteq Held
      /\ \A r \in Rows : \/ stored'[r] = stored[r]
                         \/ /\ r \in batch[k] /\ r \in unsure'
                            /\ stored'[r] = stored[r] + 1
  BY RaisesIs DEF InsertFails
<1>2. /\ attempt[k] < MaxRetries - 1 /\ phase'[k] = "sleeping"
      /\ phase' \in [Tasks -> {"idle", "inserting", "sleeping"}]
      /\ \A j \in Tasks \ {k} : phase'[j] = phase[j]
  BY DEF InsertFails, IInv, Types
<1>3. batch' = batch /\ attempt' = attempt /\ buffer' = buffer
  BY DEF InsertFails, memory
<1>4. Types'
  BY <1>1, <1>2, <1>3 DEF InsertFails, IInv, Types, memory
<1>5. Phases'
  BY <1>2, <1>3 DEF IInv, Phases
<1>6. \A r : r \in Held' <=> r \in Held
  BY <1>3, HeldIs
<1>7. \A r \in Held : r \in Rows
  BY HeldIs DEF IInv, Types
<1>8. Shrinks
  BY <1>1, <1>3, <1>6, <1>7 DEF Shrinks, InsertFails, IInv, Types
<1>9. QED
  BY <1>4, <1>5, <1>8 DEF Less

LEMMA GiveUpStep == ASSUME IInv, NEW k \in Tasks, GiveUp(k) PROVE Less
<1> DEFINE data == batch[k]
<1>1. /\ phase' \in [Tasks -> {"idle", "inserting", "sleeping"}]
      /\ batch' \in [Tasks -> SUBSET Rows] /\ attempt' \in [Tasks -> 0..MaxRetries - 1]
      /\ Phases' /\ data \subseteq Rows /\ data \subseteq Held
      /\ \A c \in Buffers : buffer'[c] \subseteq buffer[c]
      /\ \A j \in Tasks : batch'[j] \subseteq batch[j]
      /\ \A r : r \in Held' <=> r \in Held /\ r \notin data
  BY BatchLeaves DEF GiveUp
<1>2. /\ stored' \in [Rows -> Nat] /\ unsure \subseteq unsure' /\ unsure' \subseteq Rows
      /\ \A r \in Rows : \/ stored'[r] = stored[r]
                         \/ /\ r \in data /\ r \in unsure' /\ stored'[r] = stored[r] + 1
  BY RaisesIs DEF GiveUp
<1>3. PICK written \in SUBSET data : /\ spilled' = spilled \cup written
                                     /\ excused' = excused \cup (data \ written)
  BY DEF GiveUp
<1> HIDE DEF data
<1>4. Types'
  BY <1>1, <1>2, <1>3 DEF GiveUp, IInv, Types, memory
<1>5. \A r \in Held : r \in Held' \/ Kept(r)' \/ r \in excused'
  BY <1>1, <1>3 DEF Kept
<1>6. \A r \in Held : r \in Rows
  BY HeldIs DEF IInv, Types
<1>7. \A r \in spilled' \ spilled : r \in data
  BY <1>3
<1>8. Shrinks
  BY <1>1, <1>2, <1>3, <1>5, <1>6, <1>7 DEF Shrinks, GiveUp, IInv, Types
<1>9. QED
  BY <1>1, <1>4, <1>8 DEF Less

LEMMA CancelStep == ASSUME IInv, NEW p \in Producers, Cancel(p) PROVE Less
<1> DEFINE data == batch[p]
<1>0. p \in Tasks
  BY DEF Tasks
<1>1. /\ phase' \in [Tasks -> {"idle", "inserting", "sleeping"}]
      /\ batch' \in [Tasks -> SUBSET Rows] /\ attempt' \in [Tasks -> 0..MaxRetries - 1]
      /\ Phases' /\ data \subseteq Rows /\ data \subseteq Held
      /\ \A c \in Buffers : buffer'[c] \subseteq buffer[c]
      /\ \A j \in Tasks : batch'[j] \subseteq batch[j]
      /\ \A r : r \in Held' <=> r \in Held /\ r \notin data
  BY <1>0, BatchLeaves DEF Cancel
<1>2. /\ stored' \in [Rows -> Nat]
      /\ \A r \in Rows : \/ stored'[r] = stored[r]
                         \/ r \in data /\ stored'[r] = stored[r] + 1
  <2>1. CASE stored' = stored
    BY <2>1 DEF IInv, Types
  <2>2. CASE AddCopies(data)
    BY <2>2, CopiesAdded DEF IInv
  <2>3. QED
    BY <2>1, <2>2 DEF Cancel
<1>3. excused' = excused \cup data /\ spilled' = spilled /\ unsure' = unsure
  BY DEF Cancel
<1> HIDE DEF data
<1>4. Types'
  BY <1>1, <1>2, <1>3 DEF Cancel, IInv, Types, memory
<1>5. \A r \in Held : r \in Rows
  BY HeldIs DEF IInv, Types
<1>6. Shrinks
  BY <1>1, <1>2, <1>3, <1>5 DEF Shrinks, Cancel, IInv, Types
<1>7. QED
  BY <1>1, <1>4, <1>6 DEF Less

LEMMA CrashStep == ASSUME IInv, Crash PROVE Less
<1>1. PICK done \in SUBSET {k \in Tasks : phase[k] = "inserting"} :
          AddCopies(UNION {batch[k] : k \in done})
  BY DEF Crash
<1> DEFINE data == UNION {batch[k] : k \in done}
<1>2. data \subseteq Held
  BY HeldIs
<1>3. /\ stored' \in [Rows -> Nat]
      /\ \A r \in Rows : \/ stored'[r] = stored[r]
                         \/ r \in data /\ stored'[r] = stored[r] + 1
  BY <1>1, CopiesAdded DEF IInv
<1> HIDE DEF data
<1>4. /\ \A b \in Buffers : buffer'[b] = {}
      /\ \A k \in Tasks : phase'[k] = "idle" /\ batch'[k] = {}
  BY DEF Crash
<1>5. \A r \in Held : r \in Rows
  BY HeldIs DEF IInv, Types
<1>6. \A r : r \notin Held'
  BY <1>4, HeldIs
<1>7. Types'
  <2>1. 0 \in 0..MaxRetries - 1
    BY WriterAssumption
  <2>2. /\ buffer' \in [Buffers -> SUBSET Rows] /\ batch' \in [Tasks -> SUBSET Rows]
        /\ phase' \in [Tasks -> {"idle", "inserting", "sleeping"}]
        /\ attempt' \in [Tasks -> 0..MaxRetries - 1]
    BY <2>1 DEF Crash
  <2>3. /\ turn' \in 0..3
        /\ accepted' \subseteq Rows /\ spilled' \subseteq Rows
        /\ excused' \subseteq Rows /\ unsure' \subseteq Rows
    BY <1>5 DEF Crash, IInv, Types
  <2>4. looping' \in BOOLEAN
    BY Zenon DEF Crash
  <2>5. QED
    BY <1>3, <2>2, <2>3, <2>4 DEF Types
<1>8. Phases'
  BY <1>4 DEF Phases
<1>9. Shrinks
  BY <1>2, <1>3, <1>4, <1>5, <1>6 DEF Shrinks, Crash, IInv, Types
<1>10. QED
  BY <1>7, <1>8, <1>9 DEF Less

-----------------------------------------------------------------------------
LEMMA InitInv == Init => IInv
<1> SUFFICES ASSUME Init PROVE IInv
  OBVIOUS
<1>1. Types
  <2>1. 0 \in 0..MaxRetries - 1
    BY WriterAssumption
  <2>2. /\ buffer \in [Buffers -> SUBSET Rows] /\ batch \in [Tasks -> SUBSET Rows]
        /\ phase \in [Tasks -> {"idle", "inserting", "sleeping"}]
        /\ attempt \in [Tasks -> 0..MaxRetries - 1]
    BY <2>1 DEF Init
  <2>3. /\ turn \in 0..3
        /\ accepted \subseteq Rows /\ spilled \subseteq Rows
        /\ excused \subseteq Rows /\ unsure \subseteq Rows
    BY DEF Init
  <2>4. stored \in [Rows -> Nat]
    BY DEF Init
  <2>5. looping \in BOOLEAN
    BY Zenon DEF Init
  <2>6. QED
    BY <2>2, <2>3, <2>4, <2>5 DEF Types
<1>2. Phases /\ InOnePlace
  BY DEF Init, Phases, InOnePlace
<1>3. \A r : r \notin Held
  BY HeldIs DEF Init
<1>4. KeptOnce
  BY <1>3 DEF Init, KeptOnce, Kept, CopiesAreUnsure
<1>5. NoSilentLoss
  BY DEF Init, NoSilentLoss
<1>6. QED
  BY <1>1, <1>2, <1>4, <1>5 DEF IInv

\* Every step of the writer moves the rows in one of the two ways.
LEMMA NextIs == ASSUME IInv, Next PROVE Rest \/ Less
<1>1. CASE Connect \/ FlushAll \/ Crash
  BY <1>1, ConnectStep, FlushAllStep, CrashStep
<1>2. CASE \E p \in Producers : Call(p)
  <2>1. PICK p \in Producers : Call(p)
    BY <1>2
  <2>2. CASE \E r \in Rows : WriteTick(p, r) \/ WriteDirect(p, r)
    BY <2>2, WriteTickStep, WriteDirectStep
  <2>3. CASE \E b \in Buffers, data \in SUBSET Rows : WriteBuffered(p, b, data)
    BY <2>3, WriteBufferedStep
  <2>4. CASE FlushTicks(p) \/ Cancel(p)
    BY <2>4, FlushTicksStep, CancelStep
  <2>5. QED
    BY <2>1, <2>2, <2>3, <2>4 DEF Call
<1>3. CASE \E k \in Tasks : Step(k)
  BY <1>3, InsertOkStep, InsertFailsStep, GiveUpStep, RetryStep DEF Step
<1>4. QED
  BY <1>1, <1>2, <1>3 DEF Next

LEMMA NextInv == ASSUME IInv, [Next]_vars PROVE IInv'
<1>1. CASE Next
  <2>1. CASE Rest
    BY <2>1, GrowsKeeps DEF Rest, IInv
  <2>2. CASE Less
    BY <2>2, ShrinksKeeps DEF Less, IInv
  <2>3. QED
    BY <1>1, <2>1, <2>2, NextIs
<1>2. CASE UNCHANGED vars
  BY <1>2 DEF vars, memory, jobs, kept, IInv, Types, Phases, InOnePlace, KeptOnce, Kept,
              NoSilentLoss, CopiesAreUnsure, Held
<1>3. QED
  BY <1>1, <1>2

\* Every row is in one place, and what is kept is accounted for, in every state
\* of the writer: the invariant the two theorems below are read from.
THEOREM Accounted == Spec => []IInv
  BY InitInv, NextInv, PTL DEF Spec

\* A row given to ClickHouseWriter is never dropped without an error: it is in a
\* buffer, in the hands of a task, in ClickHouse or in a file of failed_writes,
\* unless its fallback failed, its task was cancelled or the process ended.
THEOREM NothingLostSilently == Spec => []NoSilentLoss
<1>1. IInv => NoSilentLoss
  BY DEF IInv
<1>2. QED
  BY <1>1, Accounted, PTL

\* _execute_with_retry stores a row twice, or stores it and writes it to a file,
\* only when an insert raised although the server had applied it.
THEOREM CopiesHaveCause == Spec => []CopiesAreUnsure
<1>1. IInv => CopiesAreUnsure
  BY DEF IInv, KeptOnce
<1>2. QED
  BY <1>1, Accounted, PTL

-----------------------------------------------------------------------------
\* The bound on the ticks: the writer that fills the buffer empties it.
LEMMA InitTicks == Init => BoundedTicks
  BY WriterAssumption, FS_EmptySet DEF Init, BoundedTicks, Buffers

LEMMA WriteTickBound ==
    ASSUME Types, NEW p \in Producers, NEW r \in Rows, WriteTick(p, r)
    PROVE  BoundedTicks'
<1> DEFINE ticks == buffer[1] \cup {r}
<1>1. ticks \subseteq Rows /\ 1 \in Buffers
  BY DEF Types, Buffers
<1>2. Cardinality(ticks) \in Nat /\ Cardinality({}) = 0
  BY <1>1, WriterAssumption, FS_Subset, FS_CardinalityType, FS_EmptySet
<1>3. CASE Cardinality(ticks) >= BatchSize
  <2>1. buffer'[1] = {}
    BY <1>1, <1>3 DEF WriteTick, Types
  <2>2. QED
    BY <1>2, <2>1, WriterAssumption DEF BoundedTicks
<1>4. CASE ~(Cardinality(ticks) >= BatchSize)
  <2>1. buffer'[1] = ticks
    BY <1>1, <1>4 DEF WriteTick, Types
  <2>2. QED
    BY <1>2, <1>4, <2>1, WriterAssumption DEF BoundedTicks
<1>5. QED
  BY <1>3, <1>4

\* The other steps leave the ticks alone or empty their buffer.
LEMMA NextTicks == ASSUME Types, BoundedTicks, [Next]_vars PROVE BoundedTicks'
<1> DEFINE Kept1 == buffer'[1] = buffer[1] \/ buffer'[1] = {}
<1>0. 1 \in Buffers /\ (Kept1 => BoundedTicks')
  BY WriterAssumption, FS_EmptySet DEF Buffers, BoundedTicks
<1>1. CASE UNCHANGED vars \/ Connect
  BY <1>1, <1>0 DEF vars, memory, Connect
<1>2. ASSUME NEW k \in Tasks, NEW b \in Buffers, Take(k, b) PROVE Kept1
  BY <1>0, <1>2 DEF Take, Types
<1>3. CASE FlushAll
  BY <1>0, <1>2, <1>3 DEF FlushAll, Tasks
<1>4. CASE Crash
  BY <1>0, <1>4 DEF Crash
<1>5. CASE \E k \in Tasks : Step(k)
  BY <1>0, <1>5 DEF Step, InsertOk, InsertFails, GiveUp, Retry, memory
<1>6. ASSUME NEW p \in Producers, Call(p) PROVE BoundedTicks'
  <2>1. CASE \E r \in Rows : WriteTick(p, r)
    BY <2>1, WriteTickBound
  <2>2. CASE \E r \in Rows : WriteDirect(p, r)
    BY <1>0, <2>2 DEF WriteDirect, memory
  <2>3. CASE \E b \in Buffers, data \in SUBSET Rows : WriteBuffered(p, b, data)
    BY <1>0, <2>3 DEF WriteBuffered, Types, Buffers
  <2>4. CASE FlushTicks(p)
    BY <1>0, <1>2, <2>4 DEF FlushTicks, Tasks
  <2>5. CASE Cancel(p)
    BY <1>0, <2>5 DEF Cancel, memory
  <2>6. QED
    BY <1>6, <2>1, <2>2, <2>3, <2>4, <2>5 DEF Call
<1>7. QED
  BY <1>1, <1>3, <1>4, <1>5, <1>6 DEF Next

\* TypeOK holds in every reachable state; in particular write_tick never leaves a
\* full batch in the buffer, whatever the flush loop does.
THEOREM TypeCorrect == Spec => []TypeOK
<1>1. Init => IInv /\ BoundedTicks
  BY InitInv, InitTicks
<1>2. IInv /\ BoundedTicks /\ [Next]_vars => (IInv /\ BoundedTicks)'
  BY NextInv, NextTicks DEF IInv
<1>3. IInv /\ BoundedTicks => TypeOK
  BY DEF IInv, Types, BoundedTicks, TypeOK
<1>4. QED
  BY <1>1, <1>2, <1>3, PTL DEF Spec
=============================================================================
