---------------------------- MODULE OrderManager ----------------------------
(* execution/order_manager.py over execution/brokers/zerodha.py: the life of   *)
(* an order's document in Redis ("orders:open:<id>") and of the order at the   *)
(* broker, under coroutines that interleave at every await. An action is the   *)
(* code from one await of a coroutine up to and including the next one.        *)
EXTENDS Naturals, FiniteSets

CONSTANTS
    Orders,       \* orders, one per call of submit; an order is its uuid
    Calls         \* coroutines running cancel or update_status, once each

VARIABLES
    paperMode,    \* the client's configuration, which never changes
    doc,          \* doc[o]: the document of o in Redis
    broker,       \* broker[o]: the order at the broker (the exchange's truth)
    submit,       \* submit[o]: where the coroutine submit of o stands
    call,         \* call[c]: the coroutine c, with what it read and holds
    fillRows,     \* fillRows[o]: calls of write_fill that have returned for o
    events,       \* events[o]: FillEvents published for o
    raced         \* history: orders with two coroutines in flight at once

vars == <<paperMode, doc, broker, submit, call, fillRows, events, raced>>

-----------------------------------------------------------------------------
Statuses == {"PENDING", "OPEN", "COMPLETE", "CANCELLED", "REJECTED",
             "TRIGGER PENDING"}

Absent == [status |-> "ABSENT", acked |-> FALSE]

\* acked: the document has a broker_order_id.
Docs == [status : Statuses, acked : BOOLEAN] \cup {Absent}

BrokerStates == {"none", "live", "filled", "cancelled", "rejected"}

SubmitPcs == {"new", "row", "place", "ack", "reject", "reject_acked",
              "done", "aborted"}

CancelPcs == {"cancel_broker", "cancel_write", "cancel_delete"}
FillPcs   == {"fill_row", "fill_unlink", "fill_publish"}
InFlight  == CancelPcs \cup FillPcs \cup {"store"}
Ended     == {"cancel_done", "cancel_raised", "update_done", "aborted"}

Free == [pc |-> "free"]

At(pc, o, held, success) ==
    [pc |-> pc, order |-> o, held |-> held, success |-> success]

Begun == [pc : InFlight \cup Ended, order : Orders, held : Docs, success : BOOLEAN]

Tracked(o) == doc[o] # Absent

On(c, o) == call[c] # Free /\ call[c].order = o

Busy(o) == \/ submit[o] \notin {"done", "aborted"}
           \/ \E c \in Calls : On(c, o) /\ call[c].pc \in InFlight

-----------------------------------------------------------------------------
Init ==
    /\ paperMode \in BOOLEAN
    /\ doc = [o \in Orders |-> Absent]
    /\ broker = [o \in Orders |-> "none"]
    /\ submit = [o \in Orders |-> "new"]
    /\ call = [c \in Calls |-> Free]
    /\ fillRows = [o \in Orders |-> 0]
    /\ events = [o \in Orders |-> 0]
    /\ raced = {}

\* --- submit --------------------------------------------------------------
SubmitStep(o, from, to) ==
    /\ submit[o] = from
    /\ submit' = [submit EXCEPT ![o] = to]
    /\ UNCHANGED <<paperMode, call, fillRows, events, raced>>

SubmitPending(o) ==
    /\ SubmitStep(o, "new", "row")
    /\ doc' = [doc EXCEPT ![o] = [status |-> "PENDING", acked |-> FALSE]]
    /\ UNCHANGED broker

\* write_order swallows every failure of ClickHouse.
SubmitRow(o) ==
    /\ SubmitStep(o, "row", "place")
    /\ UNCHANGED <<doc, broker>>

\* The paper client fills at once; the real one accepts, and the request may
\* also fail with or without having reached the exchange.
SubmitPlace(o) ==
    \/ /\ SubmitStep(o, "place", "ack")
       /\ broker' = [broker EXCEPT ![o] = IF paperMode THEN "filled" ELSE "live"]
       /\ UNCHANGED doc
    \/ /\ ~paperMode
       /\ SubmitStep(o, "place", "reject")
       /\ \/ broker' = [broker EXCEPT ![o] = "live"]
          \/ UNCHANGED broker
       /\ UNCHANGED doc

\* A failure of the write itself, applied or not, is caught by the same except
\* clause, with broker_order_id already in the document.
SubmitAck(o) ==
    \/ /\ SubmitStep(o, "ack", "done")
       /\ doc' = [doc EXCEPT ![o] = [status |-> "OPEN", acked |-> TRUE]]
       /\ UNCHANGED broker
    \/ /\ SubmitStep(o, "ack", "reject_acked")
       /\ \/ doc' = [doc EXCEPT ![o] = [status |-> "OPEN", acked |-> TRUE]]
          \/ UNCHANGED doc
       /\ UNCHANGED broker

SubmitReject(o) ==
    \E from \in {"reject", "reject_acked"} :
        /\ SubmitStep(o, from, "done")
        /\ doc' = [doc EXCEPT ![o] = [status |-> "REJECTED",
                                      acked |-> from = "reject_acked"]]
        /\ UNCHANGED broker

\* An exception no clause catches, a cancelled task, or a crash of the process.
SubmitAbort(o) ==
    /\ submit[o] \notin {"done", "aborted"}
    /\ SubmitStep(o, submit[o], "aborted")
    /\ UNCHANGED <<doc, broker>>

\* --- cancel and update_status ----------------------------------------------
Begin(c, o, pc, held) ==
    /\ call[c] = Free
    /\ submit[o] # "new"
    /\ call' = [call EXCEPT ![c] = At(pc, o, held, FALSE)]
    /\ raced' = IF Busy(o) THEN raced \cup {o} ELSE raced
    /\ UNCHANGED <<paperMode, doc, broker, submit, fillRows, events>>

Goto(c, from, to) ==
    /\ call[c].pc = from
    /\ call' = [call EXCEPT ![c].pc = to]
    /\ UNCHANGED <<paperMode, submit, raced>>

CancelRead(c, o) ==
    \/ ~Tracked(o)                      /\ Begin(c, o, "cancel_done", Absent)
    \/ Tracked(o) /\ doc[o].acked       /\ Begin(c, o, "cancel_broker", doc[o])
    \/ Tracked(o) /\ ~doc[o].acked      /\ Begin(c, o, "cancel_write", doc[o])

\* client.cancel_order: the paper client overwrites any status; the real one
\* answers False on any exception, which may hide a cancellation that was made.
BrokerCancel(o, done, answer) ==
    /\ broker' = IF done THEN [broker EXCEPT ![o] = "cancelled"] ELSE broker
    /\ \/ paperMode /\ done /\ answer
       \/ ~paperMode /\ (done => broker[o] = "live") /\ (answer => done)

CancelBroker(c) ==
    \E done, answer \in BOOLEAN :
        /\ call[c].pc = "cancel_broker"
        /\ BrokerCancel(call[c].order, done, answer)
        /\ call' = [call EXCEPT ![c] =
                        At("cancel_write", call[c].order, call[c].held, answer)]
        /\ UNCHANGED <<paperMode, doc, submit, fillRows, events, raced>>

CancelWrite(c) ==
    /\ Goto(c, "cancel_write", "cancel_delete")
    /\ doc' = [doc EXCEPT ![call[c].order] =
                   [status |-> "CANCELLED", acked |-> call[c].held.acked]]
    /\ UNCHANGED <<broker, fillRows, events>>

CancelDelete(c) ==
    /\ Goto(c, "cancel_delete", "cancel_done")
    /\ doc' = [doc EXCEPT ![call[c].order] = Absent]
    /\ UNCHANGED <<broker, fillRows, events>>

\* Slip: a status of the exchange outside the map is passed on as it came.
ReportsUnmapped(o) == {"MODIFY PENDING"}

\* What a report of the broker about o may say: PENDING for a status outside
\* the map, an order it does not know and any failure of the query; else what
\* the order was or is, since the answer may be late.
Reports(o) ==
    {"PENDING"} \cup
    CASE broker[o] = "none"      -> {}
      [] broker[o] = "live"      -> {"OPEN", "TRIGGER PENDING"}
      [] broker[o] = "filled"    -> {"OPEN", "TRIGGER PENDING", "COMPLETE"}
      [] broker[o] = "cancelled" -> {"OPEN", "TRIGGER PENDING", "CANCELLED"}
      [] broker[o] = "rejected"  -> {"OPEN", "TRIGGER PENDING", "REJECTED"}

\* Slips: any report with fill data is taken for a fill; and the early return
\* for an order without document is missing.
UpdateReadAnyStatus(c, o) ==
    \E status \in Reports(o), fillData \in BOOLEAN :
        /\ Tracked(o)
        /\ Begin(c, o, IF fillData THEN "fill_row" ELSE "store",
                 [status |-> status, acked |-> doc[o].acked])

UpdateReadUnknown(c, o) ==
    \E status \in Reports(o) :
        Begin(c, o, "store", [status |-> status, acked |-> doc[o].acked])

UpdateRead(c, o) ==
    \E status \in Reports(o), fillData \in BOOLEAN :
        \/ ~Tracked(o) /\ Begin(c, o, "update_done", Absent)
        \/ /\ Tracked(o)
           /\ Begin(c, o,
                    IF status = "COMPLETE" /\ fillData THEN "fill_row" ELSE "store",
                    [status |-> status, acked |-> doc[o].acked])

\* Slip: the fill is announced without its row.
UpdateFillNoRow(c) ==
    /\ Goto(c, "fill_row", "fill_unlink")
    /\ UNCHANGED <<doc, broker, fillRows, events>>

UpdateFillRow(c) ==
    /\ Goto(c, "fill_row", "fill_unlink")
    /\ fillRows' = [fillRows EXCEPT ![call[c].order] = @ + 1]
    /\ UNCHANGED <<doc, broker, events>>

\* Slip: the document of a filled order is left behind.
UpdateFillKeep(c) ==
    /\ Goto(c, "fill_unlink", "fill_publish")
    /\ UNCHANGED <<doc, broker, fillRows, events>>

UpdateFillUnlink(c) ==
    /\ Goto(c, "fill_unlink", "fill_publish")
    /\ doc' = [doc EXCEPT ![call[c].order] = Absent]
    /\ UNCHANGED <<broker, fillRows, events>>

UpdateFillPublish(c) ==
    /\ Goto(c, "fill_publish", "update_done")
    /\ events' = [events EXCEPT ![call[c].order] = @ + 1]
    /\ UNCHANGED <<doc, broker, fillRows>>

UpdateStore(c) ==
    /\ Goto(c, "store", "update_done")
    /\ doc' = [doc EXCEPT ![call[c].order] = call[c].held]
    /\ UNCHANGED <<broker, fillRows, events>>

\* An exception no clause catches, or the end of the task. A command that was
\* applied and then raised leaves what its action and an abort at the next
\* await leave; the deletion is the last command of cancel.
CallAbort(c) ==
    \/ \E from \in InFlight :
           Goto(c, from, "aborted") /\ UNCHANGED <<doc, broker, fillRows, events>>
    \/ /\ Goto(c, "cancel_delete", "cancel_raised")
       /\ doc' = [doc EXCEPT ![call[c].order] = Absent]
       /\ UNCHANGED <<broker, fillRows, events>>

\* --- the exchange ------------------------------------------------------------
BrokerEnds(o) ==
    /\ broker[o] = "live"
    /\ \E end \in {"filled", "cancelled", "rejected"} :
           broker' = [broker EXCEPT ![o] = end]
    /\ UNCHANGED <<paperMode, doc, submit, call, fillRows, events, raced>>

-----------------------------------------------------------------------------
Submit(o) == \/ SubmitPending(o) \/ SubmitRow(o) \/ SubmitPlace(o)
             \/ SubmitAck(o) \/ SubmitReject(o) \/ SubmitAbort(o)

Step(c) == \/ CancelBroker(c) \/ CancelWrite(c) \/ CancelDelete(c)
           \/ UpdateFillRow(c) \/ UpdateFillUnlink(c) \/ UpdateFillPublish(c)
           \/ UpdateStore(c) \/ CallAbort(c)

Next == \/ \E o \in Orders : Submit(o) \/ BrokerEnds(o)
        \/ \E c \in Calls : Step(c)
        \/ \E c \in Calls, o \in Orders : CancelRead(c, o) \/ UpdateRead(c, o)

Spec == Init /\ [][Next]_vars

-----------------------------------------------------------------------------
\* Every variable has the shape the code gives it.
TypeOK ==
    /\ paperMode \in BOOLEAN
    /\ doc \in [Orders -> Docs]
    /\ broker \in [Orders -> BrokerStates]
    /\ submit \in [Orders -> SubmitPcs]
    /\ call \in [Calls -> Begun \cup {Free}]
    /\ fillRows \in [Orders -> Nat]
    /\ events \in [Orders -> Nat]
    /\ raced \in SUBSET Orders

\* A cancel of o deleted the document although the broker did not confirm.
Refused(o) == \E c \in Calls : /\ On(c, o)
                               /\ call[c].pc \in {"cancel_done", "cancel_raised"}
                               /\ call[c].held # Absent
                               /\ ~call[c].success

\* An order that works at the exchange has its document in Redis, unless a call
\* of cancel removed the document and told its caller False or raised: whatever
\* submit, cancel and update_status do at once, nothing else loses a live order.
UntrackedWasRefused ==
    \A o \in Orders : broker[o] = "live" /\ ~Tracked(o) => Refused(o)

\* With a real broker, an order cancel reported as cancelled (True) is never
\* working at the exchange afterwards and never publishes a FillEvent.
CancelledIsDead ==
    \A c \in Calls :
        call[c].pc = "cancel_done" /\ call[c].success
            => /\ broker[call[c].order] # "live"
               /\ paperMode \/ events[call[c].order] = 0

\* An order none of whose coroutines overlapped publishes at most one FillEvent,
\* however many times the broker reports COMPLETE.
UnracedFillOnce ==
    \A o \in Orders \ raced : events[o] <= 1

\* A FillEvent follows its row in trading.fills, and a row has its FillEvent
\* unless the coroutine that writes both is between the two or has died.
FillRowsMatchEvents ==
    \A o \in Orders :
        /\ events[o] <= fillRows[o]
        /\ events[o] < fillRows[o]
             => \E c \in Calls : /\ On(c, o)
                                 /\ call[c].pc \in {"fill_unlink", "fill_publish", "aborted"}

\* A document that was removed is not written again, except by the submit that
\* still owns the order or by a coroutine that read it before the removal, and
\* then two coroutines overlapped.
DeletedStaysDeleted ==
    [][\A o \in Orders :
          ~Tracked(o) /\ Tracked(o)' => o \in raced \/ submit[o] = "new"]_vars
=============================================================================
