-------------------------- MODULE OrderManagerProofs --------------------------
(* Type correctness of OrderManager, and its two safety invariants about live  *)
(* orders, for any sets of orders and coroutines and either client.            *)
EXTENDS OrderManager, FiniteSetTheorems, TLAPS

\* An order is unknown to everybody, and nowhere at the broker, before submit
\* has got as far as its document and as place_order.
NotYetPlaced ==
    \A o \in Orders :
        /\ submit[o] \in {"new", "row", "place"} => broker[o] = "none"
        /\ submit[o] = "new" => doc[o] = Absent /\ \A c \in Calls : ~On(c, o)

\* A broker id is only ever seen of an order that was placed.
AckedIsPlaced ==
    /\ \A o \in Orders :
           doc[o].acked \/ submit[o] \in {"ack", "reject_acked"} => broker[o] # "none"
    /\ \A c \in Calls :
           call[c] # Free =>
               /\ call[c].held.acked => broker[call[c].order] # "none"
               /\ call[c].pc = "cancel_broker" => call[c].held.acked

\* What a coroutine holds to write back, and what an accepted cancel means.
CancelHolds ==
    \A c \in Calls :
        /\ call[c].pc \in CancelPcs \cup {"store"} => call[c].held # Absent
        /\ call[c].pc \in {"cancel_write", "cancel_delete", "cancel_done"} /\ call[c].success
               => broker[call[c].order] = "cancelled"

\* A fill is recorded of an order the broker filled; only the paper client
\* overwrites a filled order.
FillIsFilled ==
    /\ \A c \in Calls :
           call[c].pc \in FillPcs =>
               /\ broker[call[c].order] \in {"filled", "cancelled"}
               /\ paperMode \/ broker[call[c].order] = "filled"
    /\ \A o \in Orders : events[o] # 0 => paperMode \/ broker[o] = "filled"

\* UntrackedWasRefused, and the same of an order that is about to be placed.
Accounted ==
    \A o \in Orders :
        /\ submit[o] \in {"row", "place"} \/ broker[o] = "live"
        /\ ~Tracked(o)
        => Refused(o)

IInv == TypeOK /\ NotYetPlaced /\ AckedIsPlaced /\ CancelHolds /\ FillIsFilled /\ Accounted

-------------------------------------------------------------------------------
\* Absent is a document without a broker id; documents have or have not one.
LEMMA DocShape == /\ Absent \in Docs /\ Absent.acked = FALSE
                  /\ \A d \in Docs : d.acked \in BOOLEAN
<1>1. Absent \in Docs /\ Absent.acked = FALSE
  BY DEF Docs, Absent
<1>2. \A d \in [status : Statuses, acked : BOOLEAN] : d.acked \in BOOLEAN
  OBVIOUS
<1>3. QED
  BY <1>1, <1>2 DEF Docs

\* The documents the code builds are documents, and none of them is Absent.
LEMMA DocBuilt ==
    ASSUME NEW s \in Statuses, NEW a \in BOOLEAN, NEW d, d = [status |-> s, acked |-> a]
    PROVE  d \in Docs /\ d.acked = a /\ d # Absent
  BY DEF Docs, Absent, Statuses

\* A coroutine that has begun is not free.
LEMMA BegunShape ==
    ASSUME NEW k \in Begun
    PROVE  /\ k # Free /\ k.pc # Free.pc
           /\ k.pc \in InFlight \cup Ended /\ k.order \in Orders
           /\ k.held \in Docs /\ k.success \in BOOLEAN
<1>1. Free.pc \notin InFlight \cup Ended
  BY DEF Free, InFlight, Ended, CancelPcs, FillPcs
<1>2. QED
  BY <1>1 DEF Begun

\* What a coroutine keeps when it moves on.
LEMMA BegunMoves ==
    ASSUME NEW k \in Begun, NEW p \in InFlight \cup Ended, NEW m, m = [k EXCEPT !.pc = p]
    PROVE  /\ m \in Begun /\ m.pc = p
           /\ m.order = k.order /\ m.held = k.held /\ m.success = k.success
  BY DEF Begun

-------------------------------------------------------------------------------
\* The coroutine c of o moved to p; nothing else in call changed.
Moved(c, p) ==
    /\ call[c] \in Begun
    /\ call' = [call EXCEPT ![c] = call'[c]]
    /\ call'[c] \in Begun
    /\ call'[c].pc = p
    /\ call'[c].order = call[c].order
    /\ call'[c].held = call[c].held

\* A step that only moves the coroutine.
LEMMA GotoMoves ==
    ASSUME TypeOK, NEW c \in Calls, NEW from \in InFlight, NEW to \in InFlight \cup Ended,
           Goto(c, from, to)
    PROVE  Moved(c, to) /\ call'[c].success = call[c].success
<1>1. call[c] \in Begun
  <2>1. call[c].pc # Free.pc
    BY DEF Goto, Free, InFlight, CancelPcs, FillPcs
  <2>2. QED
    BY <2>1 DEF TypeOK
<1>2. call' = [call EXCEPT ![c] = [call[c] EXCEPT !.pc = to]]
  BY DEF Goto
<1>3. call'[c] = [call[c] EXCEPT !.pc = to]
  BY <1>2 DEF TypeOK
<1>4. /\ call'[c] \in Begun /\ call'[c].pc = to /\ call'[c].order = call[c].order
      /\ call'[c].held = call[c].held /\ call'[c].success = call[c].success
  BY <1>1, <1>3, BegunMoves
<1>5. QED
  BY <1>1, <1>2, <1>3, <1>4 DEF Moved

\* cancel hears from the client.
LEMMA CancelBrokerMoves ==
    ASSUME TypeOK, NEW c \in Calls, NEW answer \in BOOLEAN,
           call[c].pc = "cancel_broker",
           call' = [call EXCEPT ![c] =
                        At("cancel_write", call[c].order, call[c].held, answer)]
    PROVE  Moved(c, "cancel_write") /\ call'[c].success = answer
<1>1. call[c] \in Begun
  BY DEF TypeOK, Free
<1>2. call[c].order \in Orders /\ call[c].held \in Docs
  BY <1>1, BegunShape
<1>3. call'[c] = At("cancel_write", call[c].order, call[c].held, answer)
  BY DEF TypeOK
<1>4. "cancel_write" \in InFlight \cup Ended
  BY DEF InFlight, CancelPcs
<1>5. /\ call'[c] \in Begun /\ call'[c].pc = "cancel_write"
      /\ call'[c].order = call[c].order /\ call'[c].held = call[c].held
      /\ call'[c].success = answer
  BY <1>2, <1>3, <1>4 DEF At, Begun
<1>6. QED
  BY <1>1, <1>3, <1>5 DEF Moved

\* A coroutine begins.
LEMMA BeginMoves ==
    ASSUME TypeOK, NEW c \in Calls, NEW o \in Orders, NEW p \in InFlight \cup Ended,
           NEW d \in Docs, Begin(c, o, p, d)
    PROVE  /\ call' = [call EXCEPT ![c] = call'[c]]
           /\ call[c] = Free /\ call'[c] \in Begun
           /\ call'[c].pc = p /\ call'[c].order = o /\ call'[c].held = d
           /\ ~call'[c].success
<1>1. call'[c] = At(p, o, d, FALSE)
  BY DEF Begin, TypeOK
<1>2. /\ call'[c] \in Begun
      /\ call'[c].pc = p /\ call'[c].order = o /\ call'[c].held = d
      /\ ~call'[c].success
  BY <1>1 DEF At, Begun
<1>3. QED
  BY <1>1, <1>2 DEF Begin

\* The two coroutines begin with a document they read, or one they made of it.
LEMMA ReadsBegin ==
    ASSUME TypeOK, NEW c \in Calls, NEW o \in Orders
    PROVE  /\ CancelRead(c, o) =>
                \/ ~Tracked(o) /\ Begin(c, o, "cancel_done", Absent)
                \/ /\ Tracked(o) /\ doc[o] \in Docs
                   /\ \/ doc[o].acked /\ Begin(c, o, "cancel_broker", doc[o])
                      \/ ~doc[o].acked /\ Begin(c, o, "cancel_write", doc[o])
           /\ UpdateRead(c, o) =>
                \/ Begin(c, o, "update_done", Absent)
                \/ \E d \in Docs :
                      /\ Tracked(o) /\ d # Absent /\ d.acked = doc[o].acked
                      /\ \/ Begin(c, o, "store", d)
                         \/ Begin(c, o, "fill_row", d) /\ broker[o] = "filled"
<1>1. doc[o] \in Docs
  BY DEF TypeOK
<1>2. \A status \in Reports(o) : /\ status \in Statuses
                                 /\ status = "COMPLETE" => broker[o] = "filled"
  BY DEF TypeOK, BrokerStates, Reports, Statuses
<1>3. ASSUME UpdateRead(c, o), Tracked(o)
      PROVE  \E d \in Docs :
                /\ d # Absent /\ d.acked = doc[o].acked
                /\ \/ Begin(c, o, "store", d)
                   \/ Begin(c, o, "fill_row", d) /\ broker[o] = "filled"
  <2>1. PICK status \in Reports(o), fillData \in BOOLEAN :
            Begin(c, o,
                  IF status = "COMPLETE" /\ fillData THEN "fill_row" ELSE "store",
                  [status |-> status, acked |-> doc[o].acked])
    BY <1>3 DEF UpdateRead
  <2> DEFINE d == [status |-> status, acked |-> doc[o].acked]
  <2>2. d \in Docs /\ d.acked = doc[o].acked /\ d # Absent
    BY <1>1, <1>2, <2>1, DocShape, DocBuilt
  <2>3. \/ Begin(c, o, "store", d)
        \/ Begin(c, o, "fill_row", d) /\ broker[o] = "filled"
    BY <1>2, <2>1
  <2> HIDE DEF d
  <2>4. QED
    BY <2>2, <2>3
<1>4. UpdateRead(c, o) /\ ~Tracked(o) => Begin(c, o, "update_done", Absent)
  BY DEF UpdateRead
<1>5. QED
  BY <1>1, <1>3, <1>4 DEF CancelRead

\* Each step keeps the shape of every variable.
LEMMA TypingStep == TypeOK /\ [Next]_vars => TypeOK'
<1> SUFFICES ASSUME TypeOK, [Next]_vars PROVE TypeOK'
  OBVIOUS
<1>1. ASSUME NEW o \in Orders, Submit(o) PROVE TypeOK'
  <2>1. CASE SubmitPending(o)
    <3>1. [status |-> "PENDING", acked |-> FALSE] \in Docs
      BY DocBuilt DEF Statuses
    <3>2. QED
      BY <2>1, <3>1 DEF SubmitPending, SubmitStep, TypeOK, SubmitPcs
  <2>2. CASE SubmitRow(o)
    BY <2>2 DEF SubmitRow, SubmitStep, TypeOK, SubmitPcs
  <2>3. CASE SubmitPlace(o)
    BY <2>3 DEF SubmitPlace, SubmitStep, TypeOK, SubmitPcs, BrokerStates
  <2>4. CASE SubmitAck(o)
    <3>1. [status |-> "OPEN", acked |-> TRUE] \in Docs
      BY DocBuilt DEF Statuses
    <3>2. QED
      BY <2>4, <3>1 DEF SubmitAck, SubmitStep, TypeOK, SubmitPcs
  <2>5. CASE SubmitReject(o)
    <3>1. \A a \in BOOLEAN : [status |-> "REJECTED", acked |-> a] \in Docs
      BY DocBuilt DEF Statuses
    <3>2. \A from : [status |-> "REJECTED", acked |-> from = "reject_acked"] \in Docs
      BY <3>1
    <3>3. doc' \in [Orders -> Docs]
      BY <2>5, <3>2 DEF SubmitReject, TypeOK
    <3>4. QED
      BY <2>5, <3>3 DEF SubmitReject, SubmitStep, TypeOK, SubmitPcs
  <2>6. CASE SubmitAbort(o)
    BY <2>6 DEF SubmitAbort, SubmitStep, TypeOK, SubmitPcs
  <2>7. QED
    BY <1>1, <2>1, <2>2, <2>3, <2>4, <2>5, <2>6 DEF Submit
<1>2. ASSUME NEW o \in Orders, BrokerEnds(o) PROVE TypeOK'
  BY <1>2 DEF BrokerEnds, TypeOK, BrokerStates
<1>3. ASSUME NEW c \in Calls, Step(c) PROVE TypeOK'
  <2>1. ASSUME NEW p, Moved(c, p) PROVE /\ call' \in [Calls -> Begun \cup {Free}]
                                        /\ call[c].order \in Orders
    BY <2>1, BegunShape DEF Moved, TypeOK
  <2>2. CASE CancelBroker(c)
    <3>1. PICK done \in BOOLEAN, answer \in BOOLEAN :
              BrokerCancel(call[c].order, done, answer) /\ Moved(c, "cancel_write")
      BY <2>2, CancelBrokerMoves DEF CancelBroker
    <3>2. QED
      BY <2>1, <2>2, <3>1 DEF CancelBroker, BrokerCancel, TypeOK, BrokerStates
  <2>3. ASSUME NEW from \in InFlight, NEW to \in InFlight \cup Ended, Goto(c, from, to)
        PROVE  /\ call' \in [Calls -> Begun \cup {Free}]
               /\ call[c].order \in Orders /\ call[c].held \in Docs
               /\ paperMode' = paperMode /\ submit' = submit /\ raced' = raced
    BY <2>1, <2>3, GotoMoves, BegunShape DEF Goto, Moved
  <2> USE DEF InFlight, Ended, CancelPcs, FillPcs
  <2>4. CASE CancelWrite(c)
    <3>1. \A a \in BOOLEAN : [status |-> "CANCELLED", acked |-> a] \in Docs
      BY DocBuilt DEF Statuses
    <3>2. call[c].held \in Docs /\ call[c].order \in Orders
      BY <2>3, <2>4 DEF CancelWrite
    <3>3. call[c].held.acked \in BOOLEAN
      BY <3>2, DocShape
    <3>4. doc' \in [Orders -> Docs]
      BY <2>4, <3>1, <3>2, <3>3 DEF CancelWrite, TypeOK
    <3>5. QED
      BY <2>3, <2>4, <3>4 DEF CancelWrite, TypeOK
  <2>5. CASE CancelDelete(c)
    BY <2>3, <2>5, DocShape DEF CancelDelete, TypeOK
  <2>6. CASE UpdateFillRow(c)
    BY <2>3, <2>6 DEF UpdateFillRow, TypeOK
  <2>7. CASE UpdateFillUnlink(c)
    BY <2>3, <2>7, DocShape DEF UpdateFillUnlink, TypeOK
  <2>8. CASE UpdateFillPublish(c)
    BY <2>3, <2>8 DEF UpdateFillPublish, TypeOK
  <2>9. CASE UpdateStore(c)
    BY <2>3, <2>9 DEF UpdateStore, TypeOK
  <2>10. CASE CallAbort(c)
    <3>1. CASE /\ Goto(c, "cancel_delete", "cancel_raised")
               /\ doc' = [doc EXCEPT ![call[c].order] = Absent]
               /\ UNCHANGED <<broker, fillRows, events>>
      BY <2>3, <3>1, DocShape DEF TypeOK
    <3>2. CASE \E from \in InFlight :
                   Goto(c, from, "aborted") /\ UNCHANGED <<doc, broker, fillRows, events>>
      BY <2>3, <3>2 DEF TypeOK
    <3>3. QED
      BY <2>10, <3>1, <3>2 DEF CallAbort
  <2>11. QED
    BY <1>3, <2>2, <2>4, <2>5, <2>6, <2>7, <2>8, <2>9, <2>10 DEF Step
<1>4. ASSUME NEW c \in Calls, NEW o \in Orders, CancelRead(c, o) \/ UpdateRead(c, o)
      PROVE  TypeOK'
  <2>1. PICK p \in InFlight \cup Ended, d \in Docs : Begin(c, o, p, d)
    BY <1>4, ReadsBegin, DocShape DEF InFlight, Ended, CancelPcs, FillPcs
  <2>2. call' = [call EXCEPT ![c] = call'[c]] /\ call'[c] \in Begun
    BY <2>1, BeginMoves
  <2>3. QED
    BY <2>1, <2>2 DEF Begin, TypeOK
<1>5. CASE UNCHANGED vars
  BY <1>5 DEF vars, TypeOK
<1>6. QED
  BY <1>1, <1>2, <1>3, <1>4, <1>5 DEF Next

\* The shape of every variable, in every reachable state.
THEOREM Typing == Spec => []TypeOK
<1>1. Init => TypeOK
  BY DocShape DEF Init, TypeOK, BrokerStates, SubmitPcs
<1>2. QED
  BY <1>1, TypingStep, PTL DEF Spec

-------------------------------------------------------------------------------
\* A step of submit of o, or of the exchange, as the invariant sees it.
SubmitShape(o) ==
    LET s == submit[o]  t == submit'[o]  d == doc'[o]  b == broker'[o]
    IN  /\ \/ d = doc[o]
           \/ d # Absent /\ (d.acked => s \in {"ack", "reject_acked"})
        /\ \/ s = "new" /\ t = "row" /\ d # Absent /\ b = broker[o]
           \/ s \in {"row", "place"} /\ b = broker[o] /\ t \notin {"new", "ack", "reject_acked"}
           \/ s = "place" /\ t = "ack" /\ b \in {"live", "filled"}
           \/ s = "place" /\ t = "reject" /\ b = "live"
           \/ /\ s \notin {"row", "place"} /\ t \notin {"new", "row", "place", "ack"}
              /\ b = broker[o] /\ (t = "reject_acked" => s = "ack")
           \/ t = s /\ broker[o] = "live" /\ b \notin {"none", "live"} /\ d = doc[o]

\* Every step of submit, and of the exchange, has that shape.
LEMMA SubmitShapes ==
    ASSUME TypeOK, NEW o \in Orders, Submit(o) \/ BrokerEnds(o)
    PROVE  /\ paperMode' = paperMode /\ call' = call /\ events' = events
           /\ \A p \in Orders \ {o} : /\ doc'[p] = doc[p] /\ submit'[p] = submit[p]
                                      /\ broker'[p] = broker[p]
           /\ SubmitShape(o)
<1>0. \A s \in Statuses, a \in BOOLEAN : \A d :
          d = [status |-> s, acked |-> a] => d # Absent /\ d.acked = a
  BY DocBuilt
<1>5. CASE SubmitPending(o)
  <2>2. doc'[o] # Absent /\ ~doc'[o].acked
    BY <1>5, <1>0 DEF SubmitPending, TypeOK, Statuses
  <2>3. QED
    BY <1>5, <2>2 DEF SubmitPending, SubmitStep, TypeOK, SubmitShape
<1>6. CASE SubmitRow(o)
  BY <1>6 DEF SubmitRow, SubmitStep, TypeOK, SubmitShape
<1>7. CASE SubmitPlace(o)
  BY <1>7 DEF SubmitPlace, SubmitStep, TypeOK, SubmitShape
<1>8. CASE SubmitAck(o)
  <2>2. doc'[o] = doc[o] \/ doc'[o] # Absent 
    BY <1>8, <1>0 DEF SubmitAck, TypeOK, Statuses
  <2>3. QED
    BY <1>8, <2>2 DEF SubmitAck, SubmitStep, TypeOK, SubmitShape
<1>9. CASE SubmitReject(o)
  <2>1. PICK from \in {"reject", "reject_acked"} :
            /\ submit[o] = from
            /\ doc'[o] = [status |-> "REJECTED", acked |-> from = "reject_acked"]
    BY <1>9 DEF SubmitReject, SubmitStep, TypeOK
  <2>2. doc'[o] # Absent /\ doc'[o].acked = (from = "reject_acked")
    BY <2>1, <1>0 DEF Statuses
  <2>3. QED
    BY <1>9, <2>1, <2>2 DEF SubmitReject, SubmitStep, TypeOK, SubmitShape
<1>10. CASE SubmitAbort(o)
  BY <1>10 DEF SubmitAbort, SubmitStep, TypeOK, SubmitShape
<1>11. CASE BrokerEnds(o)
  BY <1>11 DEF BrokerEnds, TypeOK, SubmitShape
<1>12. QED
  BY <1>5, <1>6, <1>7, <1>8, <1>9, <1>10, <1>11 DEF Submit

\* So submit and the exchange keep the invariant.
LEMMA SubmitKeeps ==
    ASSUME IInv, NEW o \in Orders, Submit(o) \/ BrokerEnds(o), TypeOK'
    PROVE  IInv'
<1>1. /\ paperMode' = paperMode /\ call' = call /\ events' = events
      /\ \A p \in Orders \ {o} : /\ doc'[p] = doc[p] /\ submit'[p] = submit[p]
                                 /\ broker'[p] = broker[p]
      /\ SubmitShape(o)
  BY SubmitShapes DEF IInv
<1>2. \A p \in Orders : Refused(p) => Refused(p)'
  BY <1>1 DEF Refused, On
<1>3. \A c \in Calls : call[c] # Free => call[c].order \in Orders
  BY BegunShape DEF IInv, TypeOK
<1>4. \A c \in Calls :
          call[c].pc \in FillPcs \cup CancelPcs \cup {"cancel_done"} => call[c] # Free
  BY DEF FillPcs, CancelPcs, Free
<1>5. NotYetPlaced'
  BY <1>1 DEF SubmitShape, IInv, NotYetPlaced, On
<1>6. AckedIsPlaced'
  BY <1>1, <1>3, DocShape DEF SubmitShape, IInv, NotYetPlaced, AckedIsPlaced
<1>7. broker'[o] = broker[o] \/ broker[o] \in {"none", "live"}
  BY <1>1 DEF SubmitShape, IInv, NotYetPlaced
<1>10. CancelHolds'
  <2>1. ASSUME NEW c \in Calls, call[c].success,
               call[c].pc \in {"cancel_write", "cancel_delete", "cancel_done"}
        PROVE  broker'[call[c].order] = "cancelled"
    <3>1. call[c].order \in Orders /\ broker[call[c].order] = "cancelled"
      BY <2>1, <1>3, <1>4 DEF IInv, CancelHolds, CancelPcs
    <3>2. QED
      BY <3>1, <1>1, <1>7
  <2>2. QED
    BY <1>1, <2>1 DEF IInv, CancelHolds
<1>11. FillIsFilled'
  <2>1. ASSUME NEW c \in Calls, call[c].pc \in FillPcs
        PROVE  broker'[call[c].order] = broker[call[c].order]
    BY <2>1, <1>1, <1>3, <1>4, <1>7 DEF IInv, FillIsFilled
  <2>2. ASSUME NEW p \in Orders, events[p] # 0 , ~paperMode
        PROVE  broker'[p] = "filled"
    BY <2>2, <1>1, <1>7 DEF IInv, FillIsFilled
  <2>3. QED
    BY <1>1, <2>1, <2>2 DEF IInv, FillIsFilled
<1>8. Accounted'
  BY <1>1, <1>2 DEF SubmitShape, IInv, NotYetPlaced, Accounted, Tracked
<1>9. QED
  BY <1>5, <1>6, <1>8, <1>10, <1>11 DEF IInv

\* A step of cancel or update_status, likewise: c moves from p to q.
StepShape(c) ==
    LET o == call[c].order  p == call[c].pc  q == call'[c].pc
    IN  /\ paperMode' = paperMode /\ p \in InFlight /\ Moved(c, q) /\ submit' = submit
        /\ \A r \in Orders \ {o} : /\ doc'[r] = doc[r] /\ broker'[r] = broker[r]
                                   /\ events'[r] = events[r]
        /\ \/ /\ p = "cancel_broker" /\ q = "cancel_write"
              /\ doc' = doc /\ events' = events
              /\ \/ broker' = broker /\ ~call'[c].success
                 \/ broker'[o] = "cancelled" /\ (paperMode \/ broker[o] = "live")
           \/ /\ broker' = broker /\ call'[c].success = call[c].success
              /\ \/ /\ p = "cancel_write" /\ q = "cancel_delete" /\ events' = events
                    /\ doc'[o] # Absent /\ doc'[o].acked = call[c].held.acked
                 \/ /\ p = "cancel_delete" /\ q \in {"cancel_done", "cancel_raised"}
                    /\ events' = events
                    /\ doc'[o] = Absent
                 \/ /\ p = "fill_row" /\ q = "fill_unlink"
                    /\ doc' = doc /\ events' = events
                 \/ /\ p = "fill_unlink" /\ q = "fill_publish" /\ events' = events
                    /\ doc'[o] = Absent
                 \/ p = "fill_publish" /\ q = "update_done" /\ doc' = doc
                 \/ /\ p = "store" /\ q = "update_done" /\ events' = events
                    /\ doc'[o] = call[c].held
                 \/ q = "aborted" /\ doc' = doc /\ events' = events

\* Every step of a coroutine that has begun has that shape.
LEMMA StepShapes ==
    ASSUME TypeOK, NEW c \in Calls, Step(c)
    PROVE  StepShape(c)
<1>1. CASE CancelBroker(c)
  <2>1. PICK done \in BOOLEAN, answer \in BOOLEAN :
            /\ BrokerCancel(call[c].order, done, answer)
            /\ Moved(c, "cancel_write") /\ call'[c].success = answer
    BY <1>1, CancelBrokerMoves DEF CancelBroker
  <2>2. call[c].order \in Orders
    BY <2>1, BegunShape DEF Moved
  <2>0. BrokerCancel(call[c].order, done, answer)
    BY <2>1
  <2>3. \/ broker' = broker /\ ~answer
        \/ /\ broker' = [broker EXCEPT ![call[c].order] = "cancelled"]
           /\ paperMode \/ broker[call[c].order] = "live"
    BY ONLY <2>0, done \in BOOLEAN, answer \in BOOLEAN, Zenon DEF BrokerCancel
  <2>4. /\ call[c].pc = "cancel_broker" /\ doc' = doc /\ events' = events /\ submit' = submit
        /\ paperMode' = paperMode
    BY <1>1 DEF CancelBroker
  <2>5. call'[c].pc = "cancel_write" /\ "cancel_broker" \in InFlight
    BY <2>1 DEF Moved, InFlight, CancelPcs
  <2>6. \/ broker' = broker /\ ~call'[c].success
        \/ broker'[call[c].order] = "cancelled" /\ (paperMode \/ broker[call[c].order] = "live")
    BY <2>1, <2>2, <2>3 DEF TypeOK
  <2>7. \A r \in Orders \ {call[c].order} : /\ doc'[r] = doc[r] /\ broker'[r] = broker[r]
                                           /\ events'[r] = events[r]
    BY <2>2, <2>3, <2>4 DEF TypeOK
  <2>8. Moved(c, call'[c].pc) /\ call[c].pc \in InFlight
    BY <2>1, <2>4, <2>5
  <2>9. QED
    BY ONLY <2>4, <2>5, <2>6, <2>7, <2>8, Zenon DEF StepShape
<1>2. ASSUME NEW from \in InFlight, NEW to \in InFlight \cup Ended, Goto(c, from, to)
      PROVE  /\ Moved(c, to) /\ call'[c].pc = to /\ call[c].pc = from
             /\ paperMode' = paperMode /\ submit' = submit
             /\ call'[c].success = call[c].success
             /\ call[c].order \in Orders /\ call[c].held \in Docs
  <2>1. Moved(c, to) /\ call'[c].success = call[c].success
    BY <1>2, GotoMoves
  <2>2. call[c] \in Begun /\ call'[c].pc = to
    BY <2>1, Zenon DEF Moved
  <2>3. call[c].order \in Orders /\ call[c].held \in Docs
    BY <2>2, BegunShape
  <2>4. call[c].pc = from /\ paperMode' = paperMode /\ submit' = submit
    BY <1>2, Zenon DEF Goto
  <2>5. QED
    BY <2>1, <2>2, <2>3, <2>4
<1> USE DEF InFlight, Ended, CancelPcs, FillPcs
<1>3. CASE CancelWrite(c)
  <2>1. /\ call[c].order \in Orders /\ call[c].held \in Docs
        /\ doc' = [doc EXCEPT ![call[c].order] =
                       [status |-> "CANCELLED", acked |-> call[c].held.acked]]
    BY <1>2, <1>3 DEF CancelWrite
  <2>2. call[c].held.acked \in BOOLEAN
    BY <2>1, DocShape
  <2>3. doc'[call[c].order] = [status |-> "CANCELLED", acked |-> call[c].held.acked]
    BY <2>1 DEF TypeOK
  <2>4. "CANCELLED" \in Statuses
    BY DEF Statuses
  <2>5. doc'[call[c].order] # Absent /\ doc'[call[c].order].acked = call[c].held.acked
    BY <2>2, <2>3, <2>4, DocBuilt
  <2>6. QED
    BY <1>2, <1>3, <2>1, <2>5 DEF CancelWrite, StepShape, TypeOK
<1>4. CASE CancelDelete(c)
  BY <1>2, <1>4 DEF CancelDelete, StepShape, TypeOK
<1>5. CASE UpdateFillRow(c)
  BY <1>2, <1>5 DEF UpdateFillRow, StepShape, TypeOK
<1>6. CASE UpdateFillUnlink(c)
  BY <1>2, <1>6 DEF UpdateFillUnlink, StepShape, TypeOK
<1>7. CASE UpdateFillPublish(c)
  BY <1>2, <1>7 DEF UpdateFillPublish, StepShape, TypeOK
<1>8. CASE UpdateStore(c)
  BY <1>2, <1>8 DEF UpdateStore, StepShape, TypeOK
<1>9. CASE CallAbort(c)
  <2>1. CASE /\ Goto(c, "cancel_delete", "cancel_raised")
             /\ doc' = [doc EXCEPT ![call[c].order] = Absent]
             /\ UNCHANGED <<broker, fillRows, events>>
    BY <1>2, <2>1 DEF StepShape, TypeOK
  <2>2. CASE \E from \in InFlight :
                 Goto(c, from, "aborted") /\ UNCHANGED <<doc, broker, fillRows, events>>
    BY <1>2, <2>2 DEF StepShape, TypeOK
  <2>3. QED
    BY <1>9, <2>1, <2>2 DEF CallAbort
<1>10. QED
  BY <1>1, <1>3, <1>4, <1>5, <1>6, <1>7, <1>8, <1>9 DEF Step

\* So a coroutine under way keeps the invariant.
LEMMA StepKeeps ==
    ASSUME IInv, NEW c \in Calls, Step(c), TypeOK'
    PROVE  IInv'
<1> DEFINE o == call[c].order
<1>1. /\ StepShape(c) /\ Moved(c, call'[c].pc)
      /\ call[c] \in Begun /\ call'[c] \in Begun
      /\ \A e \in Calls \ {c} : call'[e] = call[e]
      /\ call'[c].order = o /\ call'[c].held = call[c].held
  BY StepShapes DEF IInv, StepShape, Moved, TypeOK
<1>2. o \in Orders /\ call[c].held \in Docs
  BY <1>1, BegunShape
<1>3. \A e \in Calls : call[e] # Free => call[e].order \in Orders
  BY BegunShape DEF IInv, TypeOK
<1>4. \A e \in Calls :
          call[e].pc \in FillPcs \cup CancelPcs \cup {"cancel_done"} => call[e] # Free
  BY DEF FillPcs, CancelPcs, Free
<1>5. call[c] # Free /\ call'[c] # Free
  BY <1>1, BegunShape
<1>6. \A e \in Calls, r \in Orders : On(e, r)' <=> On(e, r)
  BY <1>1, <1>5 DEF On
<1>7. \A r \in Orders : Refused(r) => Refused(r)'
  <2>1. call[c].pc \notin {"cancel_done", "cancel_raised"}
    BY <1>1 DEF StepShape, InFlight, CancelPcs, FillPcs
  <2>2. QED
    BY <1>1, <1>6, <2>1 DEF Refused, StepShape
<1>8. submit' = submit
  BY <1>1 DEF StepShape
<1> HIDE DEF o
<1>9. NotYetPlaced'
  BY <1>1, <1>2, <1>3, <1>5, <1>6, <1>8 DEF StepShape, o, IInv, NotYetPlaced, AckedIsPlaced, On
<1>10. AckedIsPlaced'
  BY <1>1, <1>2, <1>3, <1>5, <1>8, DocShape DEF StepShape, o, IInv, AckedIsPlaced
<1>11. CancelHolds'
  BY <1>1, <1>2, <1>3, <1>4, <1>5 DEF StepShape, o, IInv, CancelHolds, CancelPcs
<1>12. FillIsFilled'
  BY <1>1, <1>2, <1>3, <1>4, <1>5 DEF StepShape, o, IInv, FillIsFilled, FillPcs
<1>13. Accounted'
  BY <1>1, <1>2, <1>5, <1>6, <1>7, <1>8
     DEF StepShape, o, IInv, NotYetPlaced, CancelHolds, FillIsFilled, CancelPcs,
         FillPcs, Accounted, Refused, Tracked, On
<1>14. QED
  BY <1>9, <1>10, <1>11, <1>12, <1>13 DEF IInv

\* A coroutine that begins keeps the invariant.
LEMMA BeginKeeps ==
    ASSUME IInv, NEW c \in Calls, NEW o \in Orders,
           CancelRead(c, o) \/ UpdateRead(c, o), TypeOK'
    PROVE  IInv'
<1>1. PICK p \in InFlight \cup Ended, d \in Docs :
          /\ Begin(c, o, p, d)
          /\ d.acked => doc[o].acked
          /\ \/ p \in {"cancel_done", "update_done"} /\ d = Absent
             \/ /\ d # Absent
                /\ \/ p \in {"store", "cancel_write"}
                   \/ p = "cancel_broker" /\ d.acked
                   \/ p = "fill_row" /\ broker[o] = "filled"
  <2>1. "cancel_done" \in Ended /\ "update_done" \in Ended
     /\ {"store", "cancel_write", "cancel_broker", "fill_row"} \subseteq InFlight
    BY DEF InFlight, Ended, CancelPcs, FillPcs
  <2>2. TypeOK
    BY DEF IInv
  <2>3. QED
    BY <2>1, <2>2, ReadsBegin, DocShape DEF Tracked
<1>2. /\ call[c] = Free /\ call'[c] \in Begun
      /\ call'[c].pc = p /\ call'[c].order = o /\ call'[c].held = d
      /\ ~call'[c].success
      /\ \A e \in Calls \ {c} : call'[e] = call[e]
  BY <1>1, BeginMoves DEF IInv, TypeOK
<1>3. /\ submit[o] # "new"
      /\ UNCHANGED <<paperMode, doc, broker, submit, fillRows, events>>
  BY <1>1 DEF Begin
<1>4. call'[c] # Free
  BY <1>2, BegunShape
<1>5. \A r \in Orders : Refused(r) => Refused(r)'
  BY <1>2 DEF Refused, On
<1>6. NotYetPlaced'
  BY <1>2, <1>3 DEF IInv, NotYetPlaced, On
<1>7. AckedIsPlaced'
  BY <1>1, <1>2, <1>3 DEF IInv, AckedIsPlaced
<1>8. CancelHolds'
  BY <1>1, <1>2, <1>3 DEF IInv, CancelHolds, CancelPcs
<1>9. FillIsFilled'
  BY <1>1, <1>2, <1>3 DEF IInv, FillIsFilled, FillPcs
<1>10. Accounted'
  BY <1>3, <1>5 DEF IInv, Accounted, Tracked
<1>11. QED
  BY <1>6, <1>7, <1>8, <1>9, <1>10 DEF IInv

-------------------------------------------------------------------------------
\* It holds in the beginning and every step keeps it.
LEMMA InitInv == Init => IInv
<1> SUFFICES ASSUME Init PROVE IInv
  OBVIOUS
<1>1. TypeOK
  BY DocShape DEF Init, TypeOK, BrokerStates, SubmitPcs
<1>2. NotYetPlaced /\ AckedIsPlaced
  BY DocShape DEF Init, NotYetPlaced, AckedIsPlaced, On
<1>3. CancelHolds /\ FillIsFilled /\ Accounted
  BY DEF Init, CancelHolds, FillIsFilled, Accounted, CancelPcs, FillPcs, Free
<1>4. QED
  BY <1>1, <1>2, <1>3 DEF IInv

LEMMA IInvStep == IInv /\ [Next]_vars => IInv'
<1> SUFFICES ASSUME IInv, [Next]_vars PROVE IInv'
  OBVIOUS
<1>1. TypeOK'
  BY TypingStep DEF IInv
<1>2. CASE UNCHANGED vars
  BY <1>2 DEF vars, IInv, TypeOK, NotYetPlaced, AckedIsPlaced, CancelHolds,
              FillIsFilled, Accounted, Refused, Tracked, On
<1>3. QED
  BY <1>1, <1>2, SubmitKeeps, StepKeeps, BeginKeeps DEF Next

\* The inductive invariant holds.
THEOREM Inductive == Spec => []IInv
  BY InitInv, IInvStep, PTL DEF Spec

\* No interleaving loses a live order, unless a cancel that the broker did not
\* confirm removed its document.
THEOREM LiveOrdersAccounted == Spec => []UntrackedWasRefused
<1>1. IInv => UntrackedWasRefused
  BY DEF IInv, Accounted, UntrackedWasRefused
<1>2. QED
  BY <1>1, Inductive, PTL

\* A cancel that returned True is final.
THEOREM CancelIsFinal == Spec => []CancelledIsDead
<1>1. IInv => CancelledIsDead
  <2> SUFFICES ASSUME IInv, NEW c \in Calls, call[c].pc = "cancel_done", call[c].success
               PROVE  /\ broker[call[c].order] # "live"
                      /\ paperMode \/ events[call[c].order] = 0
    BY DEF CancelledIsDead
  <2>1. call[c] \in Begun
    BY DEF IInv, TypeOK, Free
  <2>2. call[c].order \in Orders /\ broker[call[c].order] = "cancelled"
    BY <2>1, BegunShape DEF IInv, CancelHolds
  <2>3. QED
    BY <2>2 DEF IInv, FillIsFilled
<1>2. QED
  BY <1>1, Inductive, PTL
-------------------------------------------------------------------------------
(* The fills: how many rows and FillEvents an order has, and what is left of it  *)
(* as long as no two of its coroutines overlap.                                 *)
Between == {"fill_unlink", "fill_publish"}

\* The coroutines of o that stand at one of the places S.
Standing(o, S) == {c \in Calls : On(c, o) /\ call[c].pc \in S}

\* Every row beyond the events belongs to a coroutine between the two, or to one
\* that died; every coroutine between the two has written its row.
RowsCounted ==
    \A o \in Orders :
        /\ events[o] + Cardinality(Standing(o, Between)) <= fillRows[o]
        /\ fillRows[o] <= events[o] + Cardinality(Standing(o, Between \cup {"aborted"}))

Started == {c \in Calls : call[c] # Free}

Over(o) == submit[o] \in {"done", "aborted"}

\* An order whose coroutines never overlapped has a document until one of them
\* removes it, at most one of them under way and that after its submit, and no
\* more of anything once it has had its event.
Unraced(o) ==
    /\ submit[o] \notin {"new", "done", "aborted"} =>
           Tracked(o) /\ \A c \in Calls : ~On(c, o)
    /\ \A c \in Calls : On(c, o) /\ call[c].pc \in InFlight =>
           /\ Over(o)
           /\ \A e \in Calls : On(e, o) /\ call[e].pc \in InFlight => e = c
           /\ call[c].pc = "fill_publish" <=> ~Tracked(o)
           /\ events[o] = 0
    /\ events[o] # 0 => events[o] = 1 /\ Over(o) /\ ~Tracked(o)

FillInv ==
    /\ RowsCounted
    /\ IsFiniteSet(Started)
    /\ \A o \in Orders \ raced : Unraced(o)

-------------------------------------------------------------------------------
\* A step of a coroutine under way, as the counts see it.
FillShape(c) ==
    LET o == call[c].order  p == call[c].pc  q == call'[c].pc
    IN  /\ raced' = raced /\ p \notin {"aborted", "cancel_done", "update_done"}
        /\ \A r \in Orders \ {o} : fillRows'[r] = fillRows[r] /\ events'[r] = events[r]
        /\ \/ /\ p = "fill_row" /\ q = "fill_unlink"
              /\ fillRows'[o] = fillRows[o] + 1 /\ events'[o] = events[o]
           \/ /\ p = "fill_publish" /\ q = "update_done"
              /\ fillRows'[o] = fillRows[o] /\ events'[o] = events[o] + 1
           \/ /\ fillRows'[o] = fillRows[o] /\ events'[o] = events[o]
              /\ \/ p = "fill_unlink" /\ q = "fill_publish"
                 \/ p \notin Between /\ q \notin Between \cup {"aborted"}
                 \/ q = "aborted"

\* Every step of a coroutine that has begun has that shape.
LEMMA FillShapes ==
    ASSUME TypeOK, NEW c \in Calls, Step(c)
    PROVE  FillShape(c)
<1>1. call[c].order \in Orders /\ call[c].pc \in InFlight
  BY StepShapes, BegunShape DEF StepShape, Moved
<1>2. ASSUME NEW from \in InFlight, NEW to \in InFlight \cup Ended, Goto(c, from, to)
      PROVE  call'[c].pc = to /\ call[c].pc = from /\ raced' = raced
  BY <1>2, GotoMoves, Zenon DEF Goto, Moved
<1> USE DEF InFlight, Ended, CancelPcs, FillPcs, Between
<1>3. CASE CancelBroker(c)
  <2>1. call[c].pc = "cancel_broker" /\ call'[c].pc = "cancel_write"
    BY <1>3, CancelBrokerMoves DEF CancelBroker, Moved
  <2>2. UNCHANGED <<fillRows, events, raced>>
    BY <1>3 DEF CancelBroker
  <2>3. QED
    BY <1>1, <2>1, <2>2 DEF FillShape
<1>4. CASE CancelWrite(c)
  BY <1>1, <1>2, <1>4 DEF CancelWrite, FillShape
<1>5. CASE CancelDelete(c)
  BY <1>1, <1>2, <1>5 DEF CancelDelete, FillShape
<1>6. CASE UpdateFillRow(c)
  BY <1>1, <1>2, <1>6 DEF UpdateFillRow, FillShape, TypeOK
<1>7. CASE UpdateFillUnlink(c)
  BY <1>1, <1>2, <1>7 DEF UpdateFillUnlink, FillShape
<1>8. CASE UpdateFillPublish(c)
  BY <1>1, <1>2, <1>8 DEF UpdateFillPublish, FillShape, TypeOK
<1>9. CASE UpdateStore(c)
  BY <1>1, <1>2, <1>9 DEF UpdateStore, FillShape
<1>10. CASE CallAbort(c)
  BY <1>1, <1>2, <1>10 DEF CallAbort, FillShape
<1>11. QED
  BY <1>3, <1>4, <1>5, <1>6, <1>7, <1>8, <1>9, <1>10 DEF Step

\* The coroutines that stand somewhere have begun, and those are finitely many.
LEMMA StandingFinite ==
    ASSUME IsFiniteSet(Started), NEW o \in Orders, NEW S
    PROVE  IsFiniteSet(Standing(o, S)) /\ Cardinality(Standing(o, S)) \in Nat
<1>1. Standing(o, S) \subseteq Started
  BY DEF Standing, Started, On
<1>2. IsFiniteSet(Standing(o, S))
  BY <1>1, FS_Subset
<1>3. QED
  BY <1>2, FS_CardinalityType

\* One element more, or one less.
LEMMA OneMore ==
    ASSUME NEW S, IsFiniteSet(S), NEW x, x \notin S
    PROVE  Cardinality(S \cup {x}) = Cardinality(S) + 1
  BY FS_AddElement

LEMMA OneLess ==
    ASSUME NEW S, IsFiniteSet(S), NEW x \in S
    PROVE  Cardinality(S \ {x}) = Cardinality(S) - 1
  BY FS_RemoveElement

\* A coroutine under way keeps the counts.
LEMMA StepCounts ==
    ASSUME TypeOK, TypeOK', RowsCounted, IsFiniteSet(Started), NEW c \in Calls, Step(c),
           NEW o, o = call[c].order, NEW p, p = call[c].pc, NEW q, q = call'[c].pc
    PROVE  RowsCounted' /\ IsFiniteSet(Started)'
<1> DEFINE Late == Between \cup {"aborted"}
<1>1. FillShape(c)
  BY FillShapes
<1>2. /\ \A e \in Calls \ {c} : call'[e] = call[e]
      /\ call[c] # Free /\ call'[c] # Free /\ call'[c].order = o /\ o \in Orders
  <2>1. Moved(c, q)
    BY StepShapes DEF StepShape
  <2>2. QED
    BY <2>1, BegunShape DEF Moved, TypeOK
<1>3. Started' = Started
  BY <1>2 DEF Started
<1>4. ASSUME NEW r \in Orders, r # o, NEW S
      PROVE  Standing(r, S)' = Standing(r, S)
  BY <1>2, <1>4 DEF Standing, On
<1>5. ASSUME NEW S
      PROVE  /\ q \in S => Standing(o, S)' = Standing(o, S) \cup {c}
             /\ q \notin S => Standing(o, S)' = Standing(o, S) \ {c}
             /\ c \in Standing(o, S) <=> p \in S
  BY <1>2 DEF Standing, On
<1>6. ASSUME NEW S, p \in S, q \in S
      PROVE  Cardinality(Standing(o, S))' = Cardinality(Standing(o, S))
  <2>1. Standing(o, S)' = Standing(o, S)
    BY <1>5, <1>6
  <2>2. QED
    BY <2>1
<1>7. ASSUME NEW S, p \notin S, q \notin S
      PROVE  Cardinality(Standing(o, S))' = Cardinality(Standing(o, S))
  <2>1. Standing(o, S)' = Standing(o, S)
    BY <1>5, <1>7
  <2>2. QED
    BY <2>1
<1>8. ASSUME NEW S, p \notin S, q \in S
      PROVE  Cardinality(Standing(o, S))' = Cardinality(Standing(o, S)) + 1
  <2>1. Standing(o, S)' = Standing(o, S) \cup {c} /\ c \notin Standing(o, S)
    BY <1>5, <1>8
  <2>2. QED
    BY <2>1, <1>2, StandingFinite, OneMore
<1>9. ASSUME NEW S, p \in S, q \notin S
      PROVE  Cardinality(Standing(o, S))' = Cardinality(Standing(o, S)) - 1
  <2>1. Standing(o, S)' = Standing(o, S) \ {c} /\ c \in Standing(o, S)
    BY <1>5, <1>9
  <2>2. QED
    BY <2>1, <1>2, StandingFinite, OneLess
<1>10. ASSUME NEW r \in Orders
       PROVE  /\ events'[r] + Cardinality(Standing(r, Between))' <= fillRows'[r]
              /\ fillRows'[r] <= events'[r] + Cardinality(Standing(r, Late))'
  <2>1. /\ Cardinality(Standing(r, Between)) \in Nat /\ Cardinality(Standing(r, Late)) \in Nat
        /\ events[r] \in Nat /\ fillRows[r] \in Nat
    BY StandingFinite DEF TypeOK
  <2>2. /\ events[r] + Cardinality(Standing(r, Between)) <= fillRows[r]
        /\ fillRows[r] <= events[r] + Cardinality(Standing(r, Late))
    BY DEF RowsCounted
  <2>3. CASE r # o
    <3>1. /\ Cardinality(Standing(r, Between))' = Cardinality(Standing(r, Between))
          /\ Cardinality(Standing(r, Late))' = Cardinality(Standing(r, Late))
      BY <1>4, <2>3
    <3>2. events'[r] = events[r] /\ fillRows'[r] = fillRows[r]
      BY <1>1, <2>3 DEF FillShape
    <3>3. QED
      BY <2>2, <3>1, <3>2
  <2>4. CASE r = o /\ p = "fill_row" /\ q = "fill_unlink"
    <3>1. /\ Cardinality(Standing(o, Between))' = Cardinality(Standing(o, Between)) + 1
          /\ Cardinality(Standing(o, Late))' = Cardinality(Standing(o, Late)) + 1
      BY <2>4, <1>8 DEF Between
    <3>2. events'[o] = events[o] /\ fillRows'[o] = fillRows[o] + 1
      BY <1>1, <2>4 DEF FillShape, Between
    <3>3. QED
      BY <2>1, <2>2, <2>4, <3>1, <3>2
  <2>5. CASE r = o /\ p = "fill_publish" /\ q = "update_done"
    <3>1. /\ Cardinality(Standing(o, Between))' = Cardinality(Standing(o, Between)) - 1
          /\ Cardinality(Standing(o, Late))' = Cardinality(Standing(o, Late)) - 1
      BY <2>5, <1>9 DEF Between
    <3>2. events'[o] = events[o] + 1 /\ fillRows'[o] = fillRows[o]
      BY <1>1, <2>5 DEF FillShape, Between
    <3>3. QED
      BY <2>1, <2>2, <2>5, <3>1, <3>2
  <2>6. CASE r = o /\ fillRows'[o] = fillRows[o] /\ events'[o] = events[o]
    <3>1. \/ p \in Between /\ q \in Between
          \/ p \notin Late /\ q \notin Late
          \/ p \notin Late /\ q = "aborted"
          \/ p \in Between /\ q = "aborted"
      BY <1>1, <2>6, <2>1 DEF FillShape, Between
    <3>2. /\ \/ Cardinality(Standing(o, Between))' = Cardinality(Standing(o, Between))
             \/ Cardinality(Standing(o, Between))' = Cardinality(Standing(o, Between)) - 1
          /\ \/ Cardinality(Standing(o, Late))' = Cardinality(Standing(o, Late))
             \/ Cardinality(Standing(o, Late))' = Cardinality(Standing(o, Late)) + 1
      BY <3>1, <1>6, <1>7, <1>8, <1>9 DEF Between
    <3>3. QED
      BY <2>1, <2>2, <2>6, <3>2
  <2>7. QED
    BY <2>3, <2>4, <2>5, <2>6, <1>1 DEF FillShape
<1>11. QED
  BY <1>3, <1>10 DEF RowsCounted

\* A coroutine that begins, and a step of submit or of the exchange, leave the
\* counts alone.
LEMMA BeginCounts ==
    ASSUME TypeOK, RowsCounted, IsFiniteSet(Started), NEW c \in Calls, NEW o \in Orders,
           CancelRead(c, o) \/ UpdateRead(c, o)
    PROVE  RowsCounted' /\ IsFiniteSet(Started)'
<1>1. PICK p \in InFlight \cup Ended, d \in Docs :
          Begin(c, o, p, d) /\ p \notin Between \cup {"aborted"}
  <2>1. /\ {"store", "cancel_write", "cancel_broker", "fill_row"} \subseteq InFlight
        /\ {"cancel_done", "update_done"} \subseteq Ended
        /\ {"store", "cancel_write", "cancel_broker", "fill_row", "cancel_done",
            "update_done"} \cap (Between \cup {"aborted"}) = {}
    BY DEF InFlight, Ended, CancelPcs, FillPcs, Between
  <2>2. QED
    BY <2>1, ReadsBegin, DocShape
<1>2. /\ call[c] = Free /\ call'[c] # Free /\ call'[c].pc = p
      /\ \A e \in Calls \ {c} : call'[e] = call[e]
  BY <1>1, BeginMoves, BegunShape DEF TypeOK
<1>3. Started' = Started \cup {c}
  BY <1>2 DEF Started
<1>4. IsFiniteSet(Started)'
  BY <1>3, FS_AddElement
<1>5. ASSUME NEW r \in Orders, NEW S, p \notin S
      PROVE  Standing(r, S)' = Standing(r, S)
  BY <1>2, <1>5 DEF Standing, On
<1>6. \A r \in Orders : /\ Standing(r, Between)' = Standing(r, Between)
                        /\ Standing(r, Between \cup {"aborted"})'
                             = Standing(r, Between \cup {"aborted"})
  BY <1>1, <1>5
<1>7. events' = events /\ fillRows' = fillRows
  BY <1>1 DEF Begin
<1>8. QED
  BY <1>4, <1>6, <1>7 DEF RowsCounted

LEMMA SubmitCounts ==
    ASSUME RowsCounted, IsFiniteSet(Started), NEW o \in Orders, Submit(o) \/ BrokerEnds(o)
    PROVE  RowsCounted' /\ IsFiniteSet(Started)'
<1>1. UNCHANGED <<call, events, fillRows, raced>>
  BY DEF Submit, SubmitStep, SubmitPending, SubmitRow, SubmitPlace, SubmitAck,
         SubmitReject, SubmitAbort, BrokerEnds
<1>2. QED
  BY <1>1 DEF RowsCounted, Standing, Started, On

-------------------------------------------------------------------------------
\* A step of submit keeps an order's history straight: while its submit is under
\* way nothing else has touched it.
LEMMA SubmitUnraced ==
    ASSUME IInv, NEW o \in Orders, Submit(o) \/ BrokerEnds(o),
           NEW r \in Orders, Unraced(r)
    PROVE  Unraced(r)'
<1>1. /\ call' = call /\ events' = events
      /\ \A p \in Orders \ {o} : doc'[p] = doc[p] /\ submit'[p] = submit[p]
      /\ SubmitShape(o)
  BY SubmitShapes DEF IInv
<1>2. CASE r # o
  BY <1>1, <1>2 DEF Unraced, Over, On, Tracked
<1>3. CASE r = o /\ Over(o)
  <2>1. submit'[o] = submit[o] /\ doc'[o] = doc[o]
    <3>1. CASE BrokerEnds(o)
      BY <3>1 DEF BrokerEnds
    <3>2. ~Submit(o)
      BY <1>3 DEF Over, Submit, SubmitStep, SubmitPending, SubmitRow, SubmitPlace,
                  SubmitAck, SubmitReject, SubmitAbort
    <3>3. QED
      BY <3>1, <3>2
  <2>2. QED
    BY <1>1, <1>3, <2>1 DEF Unraced, Over, On, Tracked
<1>4. CASE r = o /\ ~Over(o)
  <2>1. \A c \in Calls : ~On(c, o)
    BY <1>4 DEF Over, Unraced, IInv, NotYetPlaced
  <2>2. Tracked(o)' \/ submit'[o] \in {"new", "done", "aborted"}
    <3>1. CASE submit[o] = "new"
      <4>1. SubmitPending(o) => submit'[o] = "row"
        BY DEF SubmitPending, SubmitStep, IInv, TypeOK
      <4>2. SubmitPending(o) \/ SubmitAbort(o) \/ BrokerEnds(o)
        BY <3>1 DEF Submit, SubmitStep, SubmitRow, SubmitPlace, SubmitAck, SubmitReject
      <4>3. SubmitAbort(o) => submit'[o] = "aborted"
        BY DEF SubmitAbort, SubmitStep, IInv, TypeOK
      <4>4. BrokerEnds(o) => submit'[o] = "new"
        BY <3>1 DEF BrokerEnds
      <4>5. submit'[o] = "row" => Tracked(o)'
        BY <1>1, <3>1 DEF SubmitShape, Tracked
      <4>6. QED
        BY <4>1, <4>2, <4>3, <4>4, <4>5
    <3>2. CASE submit[o] # "new"
      BY <1>1, <1>4, <3>2 DEF SubmitShape, Tracked, Unraced, Over
    <3>3. QED
      BY <3>1, <3>2
  <2>3. events'[o] = 0
    BY <1>1, <1>4 DEF Unraced
  <2>4. QED
    BY <1>1, <1>4, <2>1, <2>2, <2>3 DEF Unraced, On
<1>5. QED
  BY <1>2, <1>3, <1>4

\* A coroutine under way keeps it: nobody else is, so that what it read is so.
LEMMA StepUnraced ==
    ASSUME IInv, NEW c \in Calls, Step(c), NEW r \in Orders, Unraced(r),
           NEW o, o = call[c].order, NEW p, p = call[c].pc, NEW q, q = call'[c].pc
    PROVE  Unraced(r)'
<1>1. StepShape(c) /\ FillShape(c)
  BY StepShapes, FillShapes DEF IInv
<1>2. /\ \A e \in Calls \ {c} : call'[e] = call[e]
      /\ call[c] # Free /\ call'[c] # Free /\ call'[c].order = o /\ o \in Orders
      /\ p \in InFlight
  <2>1. Moved(c, q) /\ p \in InFlight
    BY <1>1 DEF StepShape
  <2>2. QED
    BY <2>1, BegunShape DEF Moved, IInv, TypeOK
<1>3. submit' = submit
  BY <1>1 DEF StepShape
<1>4. CASE r # o
  <2>1. doc'[r] = doc[r] /\ events'[r] = events[r]
    BY <1>1, <1>4 DEF StepShape
  <2>2. \A e \in Calls : On(e, r)' <=> On(e, r)
    BY <1>2, <1>4 DEF On
  <2>3. \A e \in Calls : On(e, r) => call'[e] = call[e]
    BY <1>2, <1>4 DEF On
  <2>4. QED
    BY <1>3, <2>1, <2>2, <2>3 DEF Unraced, Over, Tracked
<1>5. CASE r = o
  <2>1. On(c, o) /\ \A e \in Calls : On(e, o)' <=> On(e, o)
    BY <1>2 DEF On
  <2>2. /\ Over(o) /\ events[o] = 0
        /\ \A e \in Calls : On(e, o) /\ call[e].pc \in InFlight => e = c
        /\ p = "fill_publish" <=> ~Tracked(o)
    BY <1>2, <1>5, <2>1 DEF Unraced
  <2>3. Over(o)'
    BY <1>3, <2>2 DEF Over
  <2>4. \A e \in Calls : On(e, o)' /\ call'[e].pc \in InFlight => e = c
    BY <1>2, <2>1, <2>2
  <2>5. CASE p = "fill_publish" /\ q = "update_done"
    <3>1. events'[o] = 1 /\ ~Tracked(o)'
      BY <1>1, <2>2, <2>5 DEF FillShape, StepShape, Tracked, Between
    <3>2. q \notin InFlight
      BY <2>5 DEF InFlight, CancelPcs, FillPcs
    <3>3. QED
      BY <1>5, <2>3, <2>4, <3>1, <3>2 DEF Unraced, Over
  <2>6. CASE ~(p = "fill_publish" /\ q = "update_done")
    <3>1. events'[o] = 0
      BY <1>1, <2>2, <2>6 DEF FillShape
    <3>2. q \in InFlight => (q = "fill_publish" <=> ~Tracked(o)')
      BY <1>1, <2>2, <2>6 DEF StepShape, Tracked, InFlight, CancelPcs, FillPcs
    <3>3. QED
      BY <1>5, <2>3, <2>4, <3>1, <3>2 DEF Unraced, Over
  <2>7. QED
    BY <2>5, <2>6
<1>6. QED
  BY <1>4, <1>5

\* A coroutine that begins keeps it, or makes the order one of those that raced.
LEMMA BeginUnraced ==
    ASSUME IInv, NEW c \in Calls, NEW o \in Orders, CancelRead(c, o) \/ UpdateRead(c, o),
           NEW r \in Orders, r \notin raced', Unraced(r)
    PROVE  Unraced(r)'
<1>1. PICK p \in InFlight \cup Ended, d \in Docs :
          /\ Begin(c, o, p, d)
          /\ \/ p \notin InFlight
             \/ p # "fill_publish" /\ Tracked(o)
  <2>1. /\ {"store", "cancel_write", "cancel_broker", "fill_row"} \subseteq InFlight
        /\ {"cancel_done", "update_done"} \subseteq Ended
        /\ {"cancel_done", "update_done"} \cap InFlight = {}
    BY DEF InFlight, Ended, CancelPcs, FillPcs
  <2>2. QED
    BY <2>1, ReadsBegin, DocShape DEF IInv
<1>2. /\ call[c] = Free /\ call'[c].order = o /\ call'[c].pc = p
      /\ \A e \in Calls \ {c} : call'[e] = call[e]
      /\ call'[c] # Free
  BY <1>1, BeginMoves, BegunShape DEF IInv, TypeOK
<1>3. /\ UNCHANGED <<doc, submit, events>> /\ submit[o] # "new"
      /\ raced' = IF Busy(o) THEN raced \cup {o} ELSE raced
  BY <1>1 DEF Begin
<1>4. CASE r # o
  <2>1. \A e \in Calls : (On(e, r)' <=> On(e, r)) /\ (On(e, r) => call'[e] = call[e])
    BY <1>2, <1>4 DEF On
  <2>2. QED
    BY <1>3, <2>1 DEF Unraced, Over, Tracked
<1>5. CASE r = o
  <2>1. Over(o) /\ \A e \in Calls : On(e, o) => call[e].pc \notin InFlight
    BY <1>3, <1>5 DEF Busy, Over
  <2>2. \A e \in Calls : On(e, o)' /\ call'[e].pc \in InFlight => e = c
    BY <1>2, <2>1 DEF On
  <2>3. p \in InFlight => p # "fill_publish" /\ Tracked(o)
    BY <1>1
  <2>4. p \in InFlight => events[o] = 0
    BY <2>3, <1>5 DEF Unraced
  <2>5. QED
    BY <1>2, <1>3, <1>5, <2>1, <2>2, <2>3, <2>4 DEF Unraced, Over, Tracked
<1>6. QED
  BY <1>4, <1>5

\* The three of them, with the inductive invariant, are inductive.
LEMMA FillStep == IInv /\ IInv' /\ FillInv /\ [Next]_vars => FillInv'
<1> SUFFICES ASSUME IInv, IInv', FillInv, [Next]_vars PROVE FillInv'
  OBVIOUS
<1>1. TypeOK /\ TypeOK' /\ RowsCounted /\ IsFiniteSet(Started)
  BY DEF IInv, FillInv
<1>2. ASSUME NEW o \in Orders, Submit(o) \/ BrokerEnds(o) PROVE FillInv'
  <2>1. RowsCounted' /\ IsFiniteSet(Started)'
    BY <1>1, <1>2, SubmitCounts
  <2>2. raced' = raced
    BY <1>2 DEF Submit, SubmitStep, SubmitPending, SubmitRow, SubmitPlace, SubmitAck,
                SubmitReject, SubmitAbort, BrokerEnds
  <2>3. \A r \in Orders \ raced' : Unraced(r)'
    BY <1>2, <2>2, SubmitUnraced DEF FillInv
  <2>4. QED
    BY <2>1, <2>3 DEF FillInv
<1>3. ASSUME NEW c \in Calls, Step(c) PROVE FillInv'
  <2>1. RowsCounted' /\ IsFiniteSet(Started)'
    BY <1>1, <1>3, StepCounts
  <2>2. raced' = raced
    BY <1>1, <1>3, FillShapes DEF FillShape
  <2>3. \A r \in Orders \ raced' : Unraced(r)'
    BY <1>3, <2>2, StepUnraced DEF FillInv
  <2>4. QED
    BY <2>1, <2>3 DEF FillInv
<1>4. ASSUME NEW c \in Calls, NEW o \in Orders, CancelRead(c, o) \/ UpdateRead(c, o)
      PROVE  FillInv'
  <2>1. RowsCounted' /\ IsFiniteSet(Started)'
    BY <1>1, <1>4, BeginCounts
  <2>2. raced \subseteq raced'
    BY <1>4 DEF CancelRead, UpdateRead, Begin
  <2>3. \A r \in Orders \ raced' : Unraced(r)'
    BY <1>4, <2>2, BeginUnraced DEF FillInv
  <2>4. QED
    BY <2>1, <2>3 DEF FillInv
<1>5. CASE UNCHANGED vars
  <2>1. RowsCounted'
    BY <1>1, <1>5 DEF vars, RowsCounted, Standing, On
  <2>2. IsFiniteSet(Started)'
    BY <1>1, <1>5 DEF vars, Started
  <2>3. \A r \in Orders \ raced' : Unraced(r)'
    BY <1>5 DEF vars, FillInv, Unraced, Over, Tracked, On
  <2>4. QED
    BY <2>1, <2>2, <2>3 DEF FillInv
<1>6. QED
  BY <1>2, <1>3, <1>4, <1>5 DEF Next

\* Rows and events are counted, and unraced orders are straight, in every
\* reachable state.
THEOREM FillsInductive == Spec => []FillInv
<1>1. Init => FillInv
  <2> SUFFICES ASSUME Init PROVE FillInv
    OBVIOUS
  <2>1. Started = {} /\ \A S : \A o \in Orders : Standing(o, S) = {}
    BY DEF Init, Started, Standing, On
  <2>2. IsFiniteSet(Started)
    BY <2>1, FS_EmptySet
  <2>3. \A S : \A o \in Orders : Cardinality(Standing(o, S)) = 0
    BY <2>1, FS_EmptySet
  <2>4. RowsCounted
    BY <2>3 DEF Init, RowsCounted
  <2>5. \A o \in Orders : Unraced(o)
    BY DEF Init, Unraced, On
  <2>6. QED
    BY <2>2, <2>4, <2>5 DEF FillInv
<1>2. QED
  BY <1>1, FillStep, Inductive, PTL DEF Spec

\* A FillEvent follows its row, and a row without its event is one that a
\* coroutine still has to announce or died on.
THEOREM FillsMatch == Spec => []FillRowsMatchEvents
<1>1. IInv /\ FillInv => FillRowsMatchEvents
  <2> SUFFICES ASSUME IInv, FillInv, NEW o \in Orders
               PROVE  /\ events[o] <= fillRows[o]
                      /\ events[o] < fillRows[o] =>
                           \E c \in Calls :
                              /\ On(c, o)
                              /\ call[c].pc \in {"fill_unlink", "fill_publish", "aborted"}
    BY DEF FillRowsMatchEvents
  <2>1. /\ events[o] \in Nat /\ fillRows[o] \in Nat
        /\ Cardinality(Standing(o, Between)) \in Nat
    BY StandingFinite DEF IInv, TypeOK, FillInv
  <2>2. events[o] <= fillRows[o]
    BY <2>1 DEF FillInv, RowsCounted
  <2>3. ASSUME events[o] < fillRows[o]
        PROVE  Standing(o, Between \cup {"aborted"}) # {}
    <3>1. fillRows[o] <= events[o] + Cardinality(Standing(o, Between \cup {"aborted"}))
      BY DEF FillInv, RowsCounted
    <3>2. Cardinality(Standing(o, Between \cup {"aborted"})) # 0
      BY <2>1, <2>3, <3>1
    <3>3. QED
      BY <3>2, FS_EmptySet
  <2>4. QED
    BY <2>2, <2>3 DEF Standing, Between
<1>2. QED
  BY <1>1, Inductive, FillsInductive, PTL

\* However often the broker reports COMPLETE, an order none of whose coroutines
\* overlapped is announced as filled once.
THEOREM FilledOnce == Spec => []UnracedFillOnce
<1>1. FillInv => UnracedFillOnce
  <2> SUFFICES ASSUME FillInv, NEW o \in Orders \ raced PROVE events[o] <= 1
    BY DEF UnracedFillOnce
  <2>1. events[o] = 0 \/ events[o] = 1
    BY DEF FillInv, Unraced
  <2>2. QED
    BY <2>1
<1>2. QED
  BY <1>1, FillsInductive, PTL

\* A document that was removed comes back only by the first write of its submit,
\* or because two coroutines of the order overlapped.
THEOREM RemovedForGood == Spec => DeletedStaysDeleted
<1>1. IInv /\ FillInv /\ [Next]_vars =>
        [\A o \in Orders : ~Tracked(o) /\ Tracked(o)' => o \in raced \/ submit[o] = "new"]_vars
  <2> SUFFICES ASSUME IInv, FillInv, [Next]_vars, NEW r \in Orders, ~Tracked(r), Tracked(r)',
                      r \notin raced
               PROVE  submit[r] = "new"
    OBVIOUS
  <2>1. Unraced(r) /\ TypeOK
    BY DEF FillInv, IInv
  <2>2. doc'[r] # doc[r]
    BY DEF Tracked
  <2>3. ASSUME NEW o \in Orders, Submit(o) \/ BrokerEnds(o) PROVE submit[r] = "new"
    <3>1. r = o
      BY <2>1, <2>2, <2>3, SubmitShapes
    <3>2. ~Over(o)
      BY <2>2, <2>3, <3>1 DEF Over, Submit, SubmitStep, SubmitPending, SubmitRow, SubmitPlace,
                              SubmitAck, SubmitReject, SubmitAbort, BrokerEnds
    <3>3. QED
      BY <2>1, <3>1, <3>2 DEF Unraced, Over
  <2>4. ASSUME NEW c \in Calls, Step(c) PROVE FALSE
    <3>1. StepShape(c) /\ call[c].pc \in InFlight
      BY <2>1, <2>4, StepShapes DEF StepShape
    <3>2. r = call[c].order /\ On(c, r)
      BY <2>2, <3>1, BegunShape DEF StepShape, On, Moved
    <3>3. call[c].pc = "fill_publish"
      BY <2>1, <3>1, <3>2 DEF Unraced
    <3>4. doc' = doc
      BY <3>1, <3>3 DEF StepShape
    <3>5. QED
      BY <2>2, <3>4
  <2>5. ASSUME NEW c \in Calls, NEW o \in Orders, CancelRead(c, o) \/ UpdateRead(c, o)
        PROVE  FALSE
    BY <2>2, <2>5 DEF CancelRead, UpdateRead, Begin
  <2>6. CASE UNCHANGED vars
    BY <2>2, <2>6 DEF vars
  <2>7. QED
    BY <2>3, <2>4, <2>5, <2>6 DEF Next
<1>2. QED
  BY <1>1, Inductive, FillsInductive, PTL DEF Spec, DeletedStaysDeleted
===============================================================================
