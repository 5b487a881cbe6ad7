---------------------------- MODULE SpreadTrader ----------------------------
(* strategies/stat_arb/spread_trader.py under strategies/portfolio.py: what the *)
(* strategy believes it holds, the signals it sends for the two legs of a pair, *)
(* and the positions its fills are booked to. publish does not suspend (the     *)
(* queue has no limit), so that on_tick is one step but for the reads of vpin.  *)
EXTENDS Integers, Sequences, FiniteSets

CONSTANTS
    Symbols,
    Pairs,          \* _pairs in their order: a sequence of <<sym_a, sym_b>>
    MaxOpenPairs,   \* max_open_pairs
    Handlers,       \* the tasks that call on_tick and on_fill: dispatch loops
    Watched,        \* the symbols whose signals, fills and position are followed
    MaxEntries      \* bound of the model: pairs entered

ASSUME SpreadAssumption ==
    /\ Watched \subseteq Symbols
    /\ Pairs \in Seq(Symbols \X Symbols)
    /\ \A i \in DOMAIN Pairs : Pairs[i][1] # Pairs[i][2]
    /\ MaxOpenPairs \in Nat \ {0} /\ MaxEntries \in Nat
    /\ IsFiniteSet(Handlers) /\ Handlers # {}

PairKeys == DOMAIN Pairs

VARIABLES
    active,     \* active[i]: side_a of _active_positions, 1 BUY, -1 SELL, 0 no entry
    seen,       \* symbols of _latest_prices
    late,       \* minutes_to_close() <= _minutes_to_close_exit
    halted,     \* _state is not ACTIVE
    task,       \* task[h]: where the handler stands
    flight,     \* flight[s][d]: signals of a symbol on one side, up to the handling
                \* of their FillEvent
    position,   \* position[s]: qty of position:<strategy>:<symbol>, 0 if absent
    refused,    \* history: refused[s], the net of the signals never filled; 0 if excused
    finishing,  \* history: tasks that were in on_tick when the strategy was halted
    excused,    \* history: symbols whose books an overlap, a failure or the TTL upset
    entries     \* history: pairs entered

belief == <<active, seen, late, halted>>
market == <<flight, refused>>
vars == <<belief, task, market, position, finishing, excused, entries>>

Sides == {1, -1}
Idle == [pc |-> "idle"]
Visit(pc, s, i) == [pc |-> pc, symbol |-> s, pair |-> i]
Booking(s, d, held) == [pc |-> "book", symbol |-> s, side |-> d, held |-> held]

Init ==
    /\ active = [i \in PairKeys |-> 0] /\ seen = {} /\ late = FALSE /\ halted = FALSE
    /\ task = [h \in Handlers |-> Idle]
    /\ flight = [s \in Watched |-> [d \in Sides |-> 0]]
    /\ position = [s \in Watched |-> 0] /\ refused = position
    /\ finishing = {} /\ excused = {} /\ entries = 0

-----------------------------------------------------------------------------
\* The side of symbol s in pair i when its first leg is on side d.
LegSide(i, s, d) == IF s = Pairs[i][1] THEN d ELSE IF s = Pairs[i][2] THEN -d ELSE 0

\* The signals of both legs of the pairs K, the first leg of pair i on side side[i].
Emit(K, side) ==
    flight' = [s \in Watched |-> [d \in Sides |->
                 flight[s][d] + Cardinality({i \in K : LegSide(i, s, side[i]) = d})]]

OpenPairs == {i \in PairKeys : active[i] # 0}

\* The books of the symbols S are no longer compared.
Excuse(S) ==
    /\ excused' = excused \cup (S \cap Watched)
    /\ refused' = [s \in Watched |-> IF s \in S THEN 0 ELSE refused[s]]

\* No coroutine is between two awaits.
AtAwait == \A h \in Handlers : task[h].pc # "scan"

Settle(h, t) ==
    /\ task' = [task EXCEPT ![h] = t]
    /\ finishing' = IF t = Idle THEN finishing \ {h} ELSE finishing

\* The loop over the pairs is at one of those that follow pair i and hold symbol s,
\* with both prices known, or at its end.
Visits(h, s, i, prices) ==
    LET rest == {j \in PairKeys : /\ j > i /\ s \in {Pairs[j][1], Pairs[j][2]}
                                  /\ {Pairs[j][1], Pairs[j][2]} \subseteq prices}
    IN  \/ \E j \in rest : (\A k \in rest : j <= k) /\ Settle(h, Visit("scan", s, j))
        \/ rest = {} /\ Settle(h, Idle)

\* on_tick: the price, and the forced exit of every pair near the close.
\* Slip: the state of the strategy is not looked at.
TickAnyway(h, s) ==
    /\ AtAwait /\ task[h] = Idle
    /\ seen' = seen \cup {s}
    /\ \/ late /\ Emit(OpenPairs, [i \in PairKeys |-> -active[i]])
               /\ active' = [i \in PairKeys |-> 0]
       \/ ~late /\ UNCHANGED <<flight, active>>
    /\ Visits(h, s, 0, seen')
    /\ UNCHANGED <<late, halted, position, refused, excused, entries>>

Tick(h, s) ==
    /\ AtAwait /\ task[h] = Idle /\ ~halted
    /\ seen' = seen \cup {s}
    /\ \/ late /\ Emit(OpenPairs, [i \in PairKeys |-> -active[i]])
               /\ active' = [i \in PairKeys |-> 0]
       \/ ~late /\ UNCHANGED <<flight, active>>
    /\ Visits(h, s, 0, seen')
    /\ UNCHANGED <<late, halted, position, refused, excused, entries>>

At(h, i) == task[h].pc = "scan" /\ task[h].pair = i

GoOn(h) == Visits(h, task[h].symbol, task[h].pair, seen)

\* The pair is passed over: z is between the limits, the variance has doubled or
\* a price is stale.
Pass(h) ==
    /\ task[h].pc = "scan" /\ GoOn(h)
    /\ UNCHANGED <<belief, market, position, excused, entries>>

\* _check_exit, at the target or at the stop; on_tick returns.
Exit(h, i) ==
    /\ At(h, i) /\ active[i] # 0
    /\ active' = [active EXCEPT ![i] = 0]
    /\ Emit({i}, [j \in PairKeys |-> -active[j]])
    /\ Settle(h, Idle)
    /\ UNCHANGED <<seen, late, halted, position, refused, excused, entries>>

Entering(i) == {h \in Handlers : task[h].pc = "entry" /\ task[h].pair = i}

\* _check_entry up to the reads of vpin.
\* Slip: the pairs that are open are not counted.
ConsiderAnyway(h, i) ==
    /\ At(h, i) /\ active[i] = 0
    /\ Settle(h, Visit("entry", task[h].symbol, i))
    /\ Excuse(IF Entering(i) = {} THEN {} ELSE {Pairs[i][1], Pairs[i][2]})
    /\ UNCHANGED <<belief, flight, position, entries>>

Consider(h, i) ==
    /\ At(h, i) /\ active[i] = 0 /\ Cardinality(OpenPairs) < MaxOpenPairs
    /\ Settle(h, Visit("entry", task[h].symbol, i))
    /\ Excuse(IF Entering(i) = {} THEN {} ELSE {Pairs[i][1], Pairs[i][2]})
    /\ UNCHANGED <<belief, flight, position, entries>>

\* vpin is low: the entry is recorded and both legs are signalled.
Enter(h, d) ==
    /\ AtAwait /\ task[h].pc = "entry" /\ entries < MaxEntries
    /\ active' = [active EXCEPT ![task[h].pair] = d]
    /\ Emit({task[h].pair}, [i \in PairKeys |-> d])
    /\ entries' = entries + 1
    /\ Settle(h, Idle)
    /\ UNCHANGED <<seen, late, halted, position, refused, excused>>

\* vpin is high, and the loop goes on; or the read fails, and on_tick with it.
Decline(h) ==
    /\ AtAwait /\ task[h].pc = "entry"
    /\ GoOn(h) \/ Settle(h, Idle)
    /\ UNCHANGED <<belief, market, position, excused, entries>>

-----------------------------------------------------------------------------
\* The risk monitor, the user and the clock.
Halt ==
    /\ AtAwait /\ ~halted /\ halted' = TRUE
    /\ finishing' = {h \in Handlers : task[h].pc = "entry"}
    /\ UNCHANGED <<active, seen, late, task, market, position, excused, entries>>

Resume ==
    /\ AtAwait /\ halted /\ halted' = FALSE /\ finishing' = {}
    /\ UNCHANGED <<active, seen, late, task, market, position, excused, entries>>

Clock ==
    /\ AtAwait /\ late' = ~late
    /\ UNCHANGED <<active, seen, halted, task, market, position, finishing, excused, entries>>

\* The pre-trade check, the executor or the broker refuses a signal.
Refuse(s, d) ==
    /\ AtAwait /\ flight[s][d] > 0
    /\ flight' = [flight EXCEPT ![s][d] = @ - 1]
    /\ refused' = IF s \in excused THEN refused ELSE [refused EXCEPT ![s] = @ + d]
    /\ UNCHANGED <<belief, task, position, finishing, excused, entries>>

\* A signal was filled and its FillEvent is handled: on_fill reads the position,
\* awaits, and writes what it computed.
Read(h, s, d) ==
    /\ AtAwait /\ task[h] = Idle /\ flight[s][d] > 0
    /\ flight' = [flight EXCEPT ![s][d] = @ - 1]
    /\ Excuse({t \in {s} : \E g \in Handlers : task[g].pc = "book" /\ task[g].symbol = t})
    /\ Settle(h, Booking(s, d, position[s]))
    /\ UNCHANGED <<belief, position, entries>>

\* Slip: the quantity of the fill replaces the position.
WriteFill(h) ==
    /\ AtAwait /\ task[h].pc = "book"
    /\ position' = [position EXCEPT ![task[h].symbol] = task[h].side]
    /\ Settle(h, Idle)
    /\ UNCHANGED <<belief, market, excused, entries>>

Write(h) ==
    /\ AtAwait /\ task[h].pc = "book"
    /\ position' = [position EXCEPT ![task[h].symbol] = task[h].held + task[h].side]
    /\ Settle(h, Idle)
    /\ UNCHANGED <<belief, market, excused, entries>>

\* Redis fails under on_fill: the bus logs it and the fill is gone.
BookingFails(h) ==
    /\ AtAwait /\ task[h].pc = "book"
    /\ Excuse({task[h].symbol})
    /\ Settle(h, Idle)
    /\ UNCHANGED <<belief, flight, position, entries>>

\* A day after its last fill the key expires.
Expire(s) ==
    /\ AtAwait /\ position[s] # 0
    /\ position' = [position EXCEPT ![s] = 0]
    /\ Excuse({s})
    /\ UNCHANGED <<belief, task, flight, finishing, entries>>

-----------------------------------------------------------------------------
OnTick(h) ==
    \/ \E s \in Symbols : Tick(h, s)
    \/ \E i \in PairKeys : Exit(h, i) \/ Consider(h, i)
    \/ \E d \in Sides : Enter(h, d)
    \/ Pass(h) \/ Decline(h)

OnFill(h) ==
    \/ \E s \in Watched, d \in Sides : Read(h, s, d)
    \/ Write(h) \/ BookingFails(h)

Next ==
    \/ \E h \in Handlers : OnTick(h) \/ OnFill(h)
    \/ \E s \in Watched, d \in Sides : Refuse(s, d)
    \/ \E s \in Watched : Expire(s)
    \/ Halt \/ Resume \/ Clock

Spec == Init /\ [][Next]_vars

-----------------------------------------------------------------------------
TaskStates ==
    [pc : {"idle"}]
        \cup [pc : {"scan", "entry"}, symbol : Symbols, pair : PairKeys]
        \cup [pc : {"book"}, symbol : Watched, side : Sides, held : Int]

\* The shape of every variable: an entry has one side, whoever records it.
TypeOK ==
    /\ active \in [PairKeys -> {0, 1, -1}] /\ seen \subseteq Symbols
    /\ late \in BOOLEAN /\ halted \in BOOLEAN
    /\ task \in [Handlers -> TaskStates]
    /\ flight \in [Watched -> [Sides -> Nat]]
    /\ position \in [Watched -> Int] /\ refused \in [Watched -> Int]
    /\ finishing \subseteq Handlers /\ excused \subseteq Watched /\ entries \in 0..MaxEntries

Awaiting == {h \in Handlers : task[h].pc = "entry"}

\* The limit on open pairs is read before the awaits and kept after them only up
\* to the number of coroutines: each that is past the check may add one.
OpenPairsBounded ==
    Cardinality(OpenPairs) + Cardinality(Awaiting)
        <= MaxOpenPairs + Cardinality(Handlers) - 1

\* What is on its way to the position of s on side d.
Booked(s, d) == {h \in Handlers : task[h].pc = "book" /\ task[h].symbol = s /\ task[h].side = d}
Coming(s, d) == flight[s][d] + Cardinality(Booked(s, d))

\* The pairs in which the strategy believes that it holds s on side d.
Legs(s, d) == {i \in PairKeys : LegSide(i, s, active[i]) = d}

\* The position of a symbol, with what is on its way and what was refused, is the
\* one the strategy believes it has in all pairs of the symbol, unless two handlers
\* overlapped on the pair or on the position, a booking failed or the key expired.
BooksMatchBelief ==
    \A s \in Watched \ excused :
        position[s] + (Coming(s, 1) - Coming(s, -1)) + refused[s]
            = Cardinality(Legs(s, 1)) - Cardinality(Legs(s, -1))

\* After halt the strategy opens and closes pairs only in the coroutines that were
\* in on_tick at that time.
HaltedOnlyFinishes ==
    [][halted /\ active' # active => \E h \in finishing : task'[h] # task[h]]_vars
=============================================================================
