----------------------------- MODULE TickFilter -----------------------------
(* TickValidator between the feeds and the event bus, and the bus between it and *)
(* the tick buffer of the feature pipeline, for one symbol: what the rows of the *)
(* buffer have to do with each other when each feed has a validator of its own,  *)
(* or shares one, and events are lost or overtake each other on their way.       *)
EXTENDS Integers, Sequences, SequencesExt

CONSTANTS
    Feeds,
    Validators,
    Wirings,        \* who may be given which: [Feeds -> Validators]
    Ticks,          \* raw ticks: [sound, price, bid, ask, volume]
    MaxMove,        \* max_price_move in percent
    BufferSize,     \* tick_buffer_size
    Dispatchers,    \* dispatch loops of the bus
    MaxQueued,      \* bounds of the model: events in the queue,
    MaxAccepted     \* and ticks accepted since the process started

ASSUME FilterAssumption ==
    /\ Ticks \subseteq [sound : BOOLEAN, price : Nat, bid : Nat, ask : Nat, volume : Nat]
    /\ Wirings \subseteq [Feeds -> Validators]
    /\ MaxMove \in Nat /\ BufferSize \in Nat \ {0}
    /\ MaxQueued \in Nat /\ MaxAccepted \in Nat

VARIABLES
    validator,      \* validator[f]: the validator the feed was given
    last,           \* last[v]: _last_price and _last_volume, no price before the first
    queue,          \* the events that are published and not yet taken
    inHand,         \* inHand[d]: the event a loop has taken and gives to the handlers
                    \* before the pipeline's, as a sequence of at most one
    ticks,          \* the rows of the buffer
    accepted,       \* history: ticks that any validator accepted, which number them,
    beside          \* and whether two loops ever had an event in hand

\* An event, and the row it becomes, carries its number and, per validator, its place
\* among the ticks accepted.
filterVars == <<validator, last, queue, inHand, ticks, accepted, beside>>

NoTick == [price |-> 0, volume |-> 0, nr |-> 0]

FilterInit ==
    /\ validator \in Wirings
    /\ last = [v \in Validators |-> NoTick]
    /\ queue = <<>> /\ inHand = [d \in Dispatchers |-> <<>>] /\ ticks = <<>>
    /\ accepted = 0 /\ beside = FALSE

-----------------------------------------------------------------------------
\* sound: there is a timestamp, it is not stale, and there is depth on both sides.
Sound(t) == t.sound /\ t.price > 0 /\ t.bid > 0 /\ t.ask > 0 /\ t.bid <= t.ask

Distance(a, b) == IF a < b THEN b - a ELSE a - b

\* Slip: the price is compared and the volume is not.
FollowsInPrice(prev, t) ==
    prev.price > 0 => Distance(t.price, prev.price) * 100 <= MaxMove * prev.price

Follows(prev, t) ==
    /\ t.volume >= prev.volume
    /\ prev.price > 0 => Distance(t.price, prev.price) * 100 <= MaxMove * prev.price

\* A tick that is dropped leaves only a count.
Accepts(v, t) == Sound(t) /\ Follows(last[v], t)

LastRows(rows) == SubSeq(rows, Max({1, Len(rows) - BufferSize + 1}), Len(rows))

\* What the validator remembers of a tick it accepts.
Remember(v, t) ==
    /\ accepted < MaxAccepted /\ accepted' = accepted + 1
    /\ last' = [last EXCEPT ![v] = [price |-> t.price, volume |-> t.volume, nr |-> @.nr + 1]]

\* _emit_tick publishes what the validator accepts.
EmitTick(f, t) ==
    LET v == validator[f]
    IN  /\ Accepts(v, t) /\ Remember(v, t) /\ Len(queue) < MaxQueued
        /\ queue' = Append(queue, [from |-> v, nr |-> last[v].nr + 1, price |-> t.price,
                                   bid |-> t.bid, ask |-> t.ask, volume |-> t.volume])
        /\ UNCHANGED <<validator, inHand, ticks, beside>>

\* The event cannot be built of the tick, which the validator has accepted.
EmitFails(f, t) ==
    /\ Accepts(validator[f], t) /\ Remember(validator[f], t)
    /\ UNCHANGED <<validator, queue, inHand, ticks, beside>>

\* A loop takes the next event; the handlers before on_tick may await.
TakeEvent(d) ==
    /\ inHand[d] = <<>> /\ queue # <<>>
    /\ inHand' = [inHand EXCEPT ![d] = <<Head(queue)>>] /\ queue' = Tail(queue)
    /\ beside' = (beside \/ \E e \in Dispatchers : inHand[e] # <<>>)
    /\ UNCHANGED <<validator, last, ticks, accepted>>

\* on_tick begins with _append_tick.
AppendTick(d) ==
    /\ inHand[d] # <<>> /\ inHand' = [inHand EXCEPT ![d] = <<>>]
    /\ ticks' = LastRows(ticks \o inHand[d])
    /\ UNCHANGED <<validator, last, queue, accepted, beside>>

\* The loop is cancelled with an event in hand, or _append_tick raises.
EventIsLost(d) ==
    /\ inHand[d] # <<>> /\ inHand' = [inHand EXCEPT ![d] = <<>>]
    /\ UNCHANGED <<validator, last, queue, ticks, accepted, beside>>

\* The process starts again, with nothing it remembers.
RestartProcess ==
    /\ accepted > 0
    /\ last' = [v \in Validators |-> NoTick]
    /\ queue' = <<>> /\ inHand' = [d \in Dispatchers |-> <<>>] /\ ticks' = <<>>
    /\ accepted' = 0 /\ beside' = FALSE
    /\ UNCHANGED validator

FilterNext ==
    \/ \E f \in Feeds, t \in Ticks : EmitTick(f, t) \/ EmitFails(f, t)
    \/ \E d \in Dispatchers : TakeEvent(d) \/ AppendTick(d) \/ EventIsLost(d)
    \/ RestartProcess

FilterSpec == FilterInit /\ [][FilterNext]_filterVars

-----------------------------------------------------------------------------
\* Of two rows of the same validator, the later has no less volume unless two dispatch
\* loops once ran beside each other, which may swap events, whatever was lost between
\* them; two that no lost tick lies between differ in price by no more than the limit,
\* wherever they stand. Rows of feeds with validators of their own fall back and jump.
RowsAreChains ==
    \A i, j \in DOMAIN ticks :
        LET a == ticks[i]
            b == ticks[j]
        IN  a.from = b.from =>
              /\ i < j => beside \/ a.volume <= b.volume
              /\ a.nr + 1 = b.nr => Distance(a.price, b.price) * 100 <= MaxMove * a.price
=============================================================================
