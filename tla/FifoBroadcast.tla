--------------------------- MODULE FifoBroadcast ---------------------------
(* What the event bus promises a handler: of the events published, those of    *)
(* the types it subscribed to, each at most once for every time it subscribed, *)
(* and in the order in which they were published for as long as the bus has    *)
(* one dispatcher.                                                             *)
EXTENDS Naturals, Sequences

CONSTANTS Handlers, Types

VARIABLES
    log,          \* the types of the events published, in order
    lists,        \* lists[t]: the subscriptions to t, in order
    got,          \* got[h]: the calls of h, <<event, subscription>>, in order
    ordered       \* the bus has one dispatcher

Received(h) == {got[h][i] : i \in 1..Len(got[h])}

Before(c, d) == c[1] < d[1] \/ (c[1] = d[1] /\ c[2] < d[2])

Init ==
    /\ log = <<>>
    /\ lists = [t \in Types |-> <<>>]
    /\ got = [h \in Handlers |-> <<>>]
    /\ ordered = TRUE

Publish ==
    /\ \E t \in Types : log' = Append(log, t)
    /\ UNCHANGED <<lists, got, ordered>>

Subscribe(h) ==
    /\ \E t \in Types : lists' = [lists EXCEPT ![t] = Append(@, h)]
    /\ UNCHANGED <<log, got, ordered>>

\* The event e reaches h for its subscription s.
Receive(h, e, s) ==
    /\ lists[log[e]][s] = h
    /\ <<e, s>> \notin Received(h)
    /\ ordered => \A c \in Received(h) : Before(c, <<e, s>>)
    /\ got' = [got EXCEPT ![h] = Append(@, <<e, s>>)]
    /\ UNCHANGED <<log, lists, ordered>>

LoseOrder == ordered' = FALSE /\ UNCHANGED <<log, lists, got>>

Next ==
    \/ Publish \/ LoseOrder
    \/ \E h \in Handlers : Subscribe(h)
    \/ \E h \in Handlers, e \in 1..Len(log) : \E s \in 1..Len(lists[log[e]]) : Receive(h, e, s)

Spec == Init /\ [][Next]_<<log, lists, got, ordered>>
=============================================================================
