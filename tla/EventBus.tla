------------------------------ MODULE EventBus ------------------------------
(* core/events.py: the asyncio queue of the EventBus and its dispatch loops.    *)
(* An action is the code between two awaits; start may be called again while a *)
(* loop runs, and stop cancels only the loop that was started last.            *)
EXTENDS Naturals, Sequences, FiniteSets

CONSTANTS
    Handlers,     \* callables passed to subscribe
    Types,        \* event classes
    Loops,        \* tasks running _dispatch_loop, one per call of start
    MaxEvents,    \* bound: events published
    MaxListed,    \* bound: subscriptions to a type
    None

ASSUME BusAssumption == None \notin Loops /\ MaxEvents \in Nat

VARIABLES
    log,          \* history: the type of each event published, in order
    head,         \* events taken from the queue; log beyond it is the queue
    handlers,     \* handlers[t]: the list _handlers[t]
    running,      \* _running
    task,         \* _task
    pc,           \* pc[l]: where the task l is
    event,        \* event[l]: the event l delivers
    next,         \* next[l]: its position in the list of handlers
    got,          \* history: got[h], the calls of h: <<event, place on the list>>
    due,          \* history: due[e], the length of its list when e was taken
    cut,          \* history: events whose delivery was cut short
    doubled       \* history: start was called while a loop was alive

bus == <<log, head, handlers>>
ctl == <<running, task, doubled>>
vars == <<bus, ctl, pc, event, next, got, due, cut>>

\* "choosing": between two handlers; "calling": a handler is awaited; "died": a
\* CancelledError came out of a handler.
Places == {"new", "waiting", "choosing", "calling", "ended", "died"}

Delivering(l) == pc[l] \in {"choosing", "calling"}
Alive(l)      == pc[l] \notin {"new", "ended", "died"}

In(h, list) == \E i \in 1..Len(list) : list[i] = h

Init ==
    /\ log = <<>> /\ head = 0
    /\ handlers = [t \in Types |-> <<>>]
    /\ running = FALSE /\ task = None /\ doubled = FALSE
    /\ pc = [l \in Loops |-> "new"]
    /\ event = [l \in Loops |-> 0] /\ next = [l \in Loops |-> 0]
    /\ got = [h \in Handlers |-> <<>>] /\ due = <<>> /\ cut = {}

-----------------------------------------------------------------------------
\* The list grows under a loop that iterates over it, and a handler may be on it
\* several times.
Subscribe(h, t) ==
    /\ Len(handlers[t]) < MaxListed
    /\ handlers' = [handlers EXCEPT ![t] = Append(@, h)]
    /\ UNCHANGED <<log, head, ctl, pc, event, next, got, due, cut>>

Publish(t) ==
    /\ Len(log) < MaxEvents
    /\ log' = Append(log, t)
    /\ UNCHANGED <<head, handlers, ctl, pc, event, next, got, due, cut>>

Start(l) ==
    /\ pc[l] = "new"
    /\ running' = TRUE /\ task' = l
    /\ doubled' = (doubled \/ \E k \in Loops : Alive(k))
    /\ pc' = [pc EXCEPT ![l] = "waiting"]
    /\ UNCHANGED <<bus, event, next, got, due, cut>>

\* The CancelledError ends the task at its await, which may be in a handler. On
\* Python 3.11 wait_for drops it when an event has just been fetched.
Stop ==
    /\ task # None
    /\ running' = FALSE
    /\ \/ /\ pc[task] = "waiting" /\ head < Len(log)
          /\ UNCHANGED <<pc, cut>>
       \/ /\ pc' = [pc EXCEPT ![task] = "ended"]
          /\ cut' = cut \cup {event[l] : l \in {k \in {task} : Delivering(k)}}
    /\ UNCHANGED <<bus, task, doubled, event, next, got, due>>

\* Slip: while True, so that only a cancellation ends a loop.
LoopEndsIfCancelled(l) ==
    /\ pc[l] = "waiting" /\ ~running /\ l = task
    /\ pc' = [pc EXCEPT ![l] = "ended"]
    /\ UNCHANGED <<bus, ctl, event, next, got, due, cut>>

\* The check of the while, when no event was waiting for a second.
LoopEnds(l) ==
    /\ pc[l] = "waiting" /\ ~running
    /\ pc' = [pc EXCEPT ![l] = "ended"]
    /\ UNCHANGED <<bus, ctl, event, next, got, due, cut>>

TakeEvent(l, e, taken) ==
    /\ pc[l] = "waiting"
    /\ head' = taken
    /\ pc' = [pc EXCEPT ![l] = "choosing"]
    /\ event' = [event EXCEPT ![l] = e] /\ next' = [next EXCEPT ![l] = 1]
    /\ due' = Append(due, Len(handlers[log[e]]))
    /\ UNCHANGED <<log, handlers, ctl, got, cut>>

\* Slip: the newest event is taken first.
TakeNewest(l) == head < Len(log) /\ TakeEvent(l, Len(log), head + 1)

\* A loop that waits on the queue takes an event even if _running was cleared
\* since its last check.
Take(l) == head < Len(log) /\ TakeEvent(l, head + 1, head + 1)

ListOf(l) == handlers[log[event[l]]]

Call(l) ==
    /\ pc[l] = "choosing" /\ next[l] <= Len(ListOf(l))
    /\ got' = [got EXCEPT ![ListOf(l)[next[l]]] = Append(@, <<event[l], next[l]>>)]
    /\ pc' = [pc EXCEPT ![l] = "calling"]
    /\ UNCHANGED <<bus, ctl, event, next, due, cut>>

\* Slips: an exception of a handler ends the delivery; it ends the loop.
ReturnOrGiveUp(l) ==
    /\ pc[l] = "calling"
    /\ \E to \in {"choosing", "waiting"} : pc' = [pc EXCEPT ![l] = to]
    /\ next' = [next EXCEPT ![l] = @ + 1]
    /\ UNCHANGED <<bus, ctl, event, got, due, cut>>
ReturnOrDie(l) ==
    /\ pc[l] = "calling"
    /\ \E to \in {"choosing", "ended"} : pc' = [pc EXCEPT ![l] = to]
    /\ next' = [next EXCEPT ![l] = @ + 1]
    /\ UNCHANGED <<bus, ctl, event, got, due, cut>>

\* The handler returns or raises: either way the next one is called. But except
\* Exception does not catch a CancelledError, which ends the task.
Return(l) ==
    /\ pc[l] = "calling"
    /\ next' = [next EXCEPT ![l] = @ + 1]
    /\ \/ /\ pc' = [pc EXCEPT ![l] = "choosing"]
          /\ UNCHANGED cut
       \/ /\ pc' = [pc EXCEPT ![l] = "died"]
          /\ cut' = cut \cup {event[l]}
    /\ UNCHANGED <<bus, ctl, event, got, due>>

Delivered(l) ==
    /\ pc[l] = "choosing" /\ next[l] > Len(ListOf(l))
    /\ pc' = [pc EXCEPT ![l] = IF running THEN "waiting" ELSE "ended"]
    /\ UNCHANGED <<bus, ctl, event, next, got, due, cut>>

-----------------------------------------------------------------------------
Dispatch(l) == LoopEnds(l) \/ Take(l) \/ Call(l) \/ Return(l) \/ Delivered(l)

Next ==
    \/ \E h \in Handlers, t \in Types : Subscribe(h, t)
    \/ \E t \in Types : Publish(t)
    \/ \E l \in Loops : Start(l) \/ Dispatch(l)
    \/ Stop

\* A task whose await can return is run again, and handlers return.
Spec == Init /\ [][Next]_vars /\ \A l \in Loops : WF_vars(Dispatch(l))

-----------------------------------------------------------------------------
\* The shape of every variable: the queue is never read beyond its end, and a
\* loop delivers an event that has left it.
TypeOK ==
    /\ log \in Seq(Types) /\ Len(log) <= MaxEvents /\ head \in 0..Len(log)
    /\ handlers \in [Types -> Seq(Handlers)]
    /\ running \in BOOLEAN /\ doubled \in BOOLEAN /\ task \in Loops \cup {None}
    /\ pc \in [Loops -> Places]
    /\ event \in [Loops -> 0..head] /\ next \in [Loops -> Nat]
    /\ \A l \in Loops : Delivering(l) => event[l] # 0 /\ next[l] # 0
    /\ got \in [Handlers -> Seq((1..head) \X Nat)] /\ cut \subseteq 1..head
    /\ due \in [1..head -> Nat]

\* A handler that raises hides no event from the handlers after it: every entry
\* the list had when an event left the queue was called with it or is about to be,
\* unless a stop or a CancelledError ended the delivery.
NoHandlerSkipped ==
    \A e \in 1..head \ cut : \A i \in 1..due[e] :
        \/ In(<<e, i>>, got[handlers[log[e]][i]])
        \/ \E l \in Loops : Delivering(l) /\ event[l] = e

\* Every loop ends after a stop, also the ones stop does not cancel, unless the
\* bus is started again first.
LoopsEnd == \A l \in Loops : ~running /\ Alive(l) ~> ~Alive(l) \/ running

\* The last loop was ended by a CancelledError, and nobody notices.
Dead == (\A l \in Loops : ~Alive(l)) /\ \E l \in Loops : pc[l] = "died"

\* On a bus that stays up every event published leaves the queue, whatever
\* Exceptions the handlers raise.
QueueDrains ==
    \A e \in 1..MaxEvents :
        running /\ Len(log) >= e ~> head >= e \/ ~running \/ Dead

Broadcast == INSTANCE FifoBroadcast WITH lists <- handlers, ordered <- ~doubled

\* The bus implements the abstract broadcast: each subscription gets the events of
\* its type, each at most once, and a handler gets them in order while start is
\* not called under a loop that is alive.
ImplementsBroadcast == Broadcast!Spec
=============================================================================
