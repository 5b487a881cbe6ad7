-------------------------- MODULE KillSwitchProofs --------------------------
(* What the kill switch does to the orders that work when it is thrown, and to   *)
(* the signals that come later, for any signals, slices and activations. A step  *)
(* of KillSwitch is a step of OrderManager or leaves its variables alone, so     *)
(* that the inductive invariant of OrderManager holds here too.                  *)
EXTENDS KillSwitch, OrderManagerProofs

\* The coroutine of the kill switch for an order runs cancel of that order.
KillersCancel ==
    \A n \in 1..MaxActivations, o \in Orders :
        LET k == <<"kill", n, o>>
        IN  call[k] # Free => call[k].order = o /\ call[k].pc \in CancelPcs \cup {"cancel_done"}

\* An order that worked at the activation was placed; as long as it works and no
\* cancel of it was answered False, the scan has it ahead or has found it, and
\* the loop has its cancel ahead or awaits it.
Pursued ==
    \A o \in working :
        /\ broker[o] # "none"
        /\ broker[o] = "live" /\ ~Refused(o) =>
             \/ kill = "scanning" /\ (o \notin scanned \/ o \in found)
             \/ kill = "cancelling" /\ (o \in found \/ call[Killer(o)].pc \in InFlight)

\* With the switch on, a signal past the check of the flag was past it before.
Admitted ==
    flag => \A s \in Flow : flow[s] \in {"checking", "executing"} => s \in admitted

KillInv ==
    /\ IInv /\ KTypeOK /\ KillersCancel /\ Pursued /\ Admitted
    /\ working \subseteq Orders /\ (kill # "idle" => activations > 0)

-----------------------------------------------------------------------------
\* Whose coroutine is whose: upgrades and reports do not use the kill switch's.
LEMMA Coroutines ==
    /\ \A o \in Orders : activations \in 1..MaxActivations => Killer(o) \in Calls
    /\ \A o \in Orders : Upgrader(o) \in Calls
    /\ \A o \in Orders, n \in 1..MaxActivations, p \in Orders : Upgrader(o) # <<"kill", n, p>>
    /\ \A c \in Reporters, n \in 1..MaxActivations, p \in Orders : c # <<"kill", n, p>>
    /\ \A o, p \in Orders : o # p => Killer(o) # Killer(p)
  BY CallsOfActors, ReportersApart DEF Killer, Upgrader

\* The places of cancel, of a fill and of an update are apart.
LEMMA Places ==
    /\ \A pc \in CancelPcs : pc \in InFlight /\ pc \notin FillPcs \cup {"store", "cancel_done"}
    /\ "cancel_done" \notin InFlight
    /\ {"cancel_broker", "cancel_write"} \subseteq CancelPcs
  BY DEF InFlight, CancelPcs, FillPcs

\* The program that this module adds to the order manager is one of those that
\* OrderManager allows for.
LEMMA StepIsOrderStep ==
    ASSUME KTypeOK, kill # "idle" => activations > 0, [KNext]_allVars
    PROVE  [Next]_vars
<1>1. ASSUME NEW o \in Orders, StartSlice(o) \/ Submission(o) \/ Exchange(o)
      PROVE  [Next]_vars
  BY <1>1 DEF StartSlice, Submission, Exchange, Next, Submit
<1>2. ASSUME NEW o \in Orders, UpgradeScan(o) \/ ScanOrder(o)
      PROVE  [Next]_vars
  BY <1>2 DEF UpgradeScan, ScanOrder
<1>3. ASSUME NEW o \in Orders, UpgradeCancel(o)
      PROVE  [Next]_vars
  <2>1. Upgrader(o) \in Calls /\ CancelRead(Upgrader(o), o)
    BY <1>3, Coroutines DEF UpgradeCancel
  <2>2. QED
    BY <2>1 DEF Next
<1>4. ASSUME NEW o \in Orders, KillCancel(o)
      PROVE  [Next]_vars
  <2>1. CancelRead(Killer(o), o) /\ activations > 0
    BY <1>4 DEF KillCancel
  <2>2. activations \in 1..MaxActivations
    BY <2>1, ReportersApart DEF KTypeOK
  <2>3. QED
    BY <2>1, <2>2, Coroutines DEF Next
<1>5. ASSUME NEW c \in Calls, CancelStep(c) \/ ReportStep(c)
      PROVE  [Next]_vars
  BY <1>5 DEF CancelStep, ReportStep, Next, Step
<1>6. ASSUME NEW c \in Calls, NEW o \in Orders, Report(c, o)
      PROVE  [Next]_vars
  BY <1>6 DEF Report, Next
<1>7. ASSUME NEW s \in Flow, CheckFlag(s) \/ CheckLimits(s)
      PROVE  [Next]_vars
  BY <1>7 DEF CheckFlag, CheckLimits
<1>8. CASE Activate \/ ScanEnd \/ CancelEnd \/ Flatten \/ Deactivate
  BY <1>8 DEF Activate, ScanEnd, CancelEnd, Flatten, Deactivate
<1>9. CASE UNCHANGED allVars
  BY <1>9 DEF allVars
<1>10. QED
  BY <1>1, <1>2, <1>3, <1>4, <1>5, <1>6, <1>7, <1>8, <1>9 DEF KNext

\* What no step of the order manager undoes: an order that was placed stays so,
\* one that ended does not work again, a cancel that was answered False was.
LEMMA OrdersAge ==
    ASSUME IInv, [Next]_vars, NEW o \in Orders
    PROVE  /\ broker[o] # "none" => broker'[o] # "none"
           /\ broker[o] # "none" /\ broker'[o] = "live" => broker[o] = "live"
           /\ Refused(o) => Refused(o)'
<1>1. ASSUME NEW p \in Orders, Submit(p) \/ BrokerEnds(p)
      PROVE  /\ broker[o] # "none" => broker'[o] # "none"
             /\ broker[o] # "none" /\ broker'[o] = "live" => broker[o] = "live"
             /\ Refused(o) => Refused(o)'
  <2>1. /\ call' = call /\ SubmitShape(p)
        /\ \A r \in Orders \ {p} : broker'[r] = broker[r]
    BY <1>1, SubmitShapes DEF IInv
  <2>2. submit[p] = "place" => broker[p] = "none"
    BY DEF IInv, NotYetPlaced
  <2>3. QED
    BY <2>1, <2>2 DEF SubmitShape, Refused, On
<1>2. ASSUME NEW c \in Calls, Step(c)
      PROVE  /\ broker[o] # "none" => broker'[o] # "none"
             /\ broker[o] # "none" /\ broker'[o] = "live" => broker[o] = "live"
             /\ Refused(o) => Refused(o)'
  <2>1. StepShape(c) /\ Moved(c, call'[c].pc)
    BY <1>2, StepShapes DEF IInv, StepShape
  <2>2. \A e \in Calls \ {c} : call'[e] = call[e]
    BY <2>1 DEF Moved, IInv, TypeOK
  <2>3. call[c].pc \notin {"cancel_done", "cancel_raised"}
    BY <2>1, Places DEF StepShape, InFlight, CancelPcs, FillPcs
  <2>4. Refused(o) => Refused(o)'
    BY <2>2, <2>3 DEF Refused, On
  <2>5. broker' = broker \/ broker'[call[c].order] = "cancelled"
    BY <2>1 DEF StepShape
  <2>6. \A r \in Orders \ {call[c].order} : broker'[r] = broker[r]
    BY <2>1 DEF StepShape
  <2>7. QED
    BY <2>4, <2>5, <2>6
<1>3. ASSUME NEW c \in Calls, NEW p \in Orders, CancelRead(c, p) \/ UpdateRead(c, p)
      PROVE  /\ broker' = broker
             /\ Refused(o) => Refused(o)'
  <2>1. PICK q \in InFlight \cup Ended, d \in Docs : Begin(c, p, q, d)
    <3>1. {"store", "cancel_write", "cancel_broker", "fill_row", "cancel_done",
           "update_done"} \subseteq InFlight \cup Ended
      BY DEF InFlight, Ended, CancelPcs, FillPcs
    <3>2. QED
      BY <1>3, <3>1, ReadsBegin, DocShape DEF IInv
  <2>2. call[c] = Free /\ \A e \in Calls \ {c} : call'[e] = call[e]
    BY <2>1, BeginMoves DEF IInv, TypeOK
  <2>3. QED
    BY <2>1, <2>2 DEF Begin, Refused, On
<1>4. CASE UNCHANGED vars
  BY <1>4 DEF vars, Refused, On
<1>5. QED
  BY <1>1, <1>2, <1>3, <1>4 DEF Next

-----------------------------------------------------------------------------
\* Each step keeps the shape of what KillSwitch adds.
LEMMA KTypingStep ==
    ASSUME KTypeOK, kill # "idle" => activations > 0, [KNext]_allVars
    PROVE  KTypeOK'
<1>1. TypeOK'
  BY StepIsOrderStep, TypingStep DEF KTypeOK
<1> USE ReportersApart
<1>2. ASSUME NEW o \in Orders, StartSlice(o) \/ Submission(o) \/ Exchange(o)
      PROVE  KTypeOK'
  BY <1>1, <1>2 DEF StartSlice, Submission, Exchange, ksVars, KTypeOK
<1>3. ASSUME NEW o \in Orders, UpgradeScan(o) \/ UpgradeCancel(o)
      PROVE  KTypeOK'
  BY <1>1, <1>3 DEF UpgradeScan, UpgradeCancel, UpgradeStep, KTypeOK
<1>4. ASSUME NEW o \in Orders, ScanOrder(o) \/ KillCancel(o)
      PROVE  KTypeOK'
  BY <1>1, <1>4 DEF ScanOrder, KillCancel, KTypeOK
<1>5. ASSUME NEW c \in Calls, CancelStep(c) \/ ReportStep(c)
      PROVE  KTypeOK'
  BY <1>1, <1>5 DEF CancelStep, ReportStep, ksVars, KTypeOK
<1>6. ASSUME NEW c \in Calls, NEW o \in Orders, Report(c, o)
      PROVE  KTypeOK'
  BY <1>1, <1>6 DEF Report, ksVars, KTypeOK
<1>7. ASSUME NEW s \in Flow, CheckFlag(s) \/ CheckLimits(s)
      PROVE  KTypeOK'
  BY <1>1, <1>7 DEF CheckFlag, CheckLimits, Moves, KTypeOK
<1>8. CASE Activate
  BY <1>1, <1>8 DEF Activate, KTypeOK
<1>9. CASE ScanEnd \/ CancelEnd \/ Deactivate
  BY <1>1, <1>9 DEF ScanEnd, CancelEnd, Deactivate, KTypeOK
<1>10. CASE Flatten
  <2>1. flow' \in [Flow -> {"none", "queued", "checking", "executing", "blocked", "refused"}]
    BY <1>10 DEF Flatten, KTypeOK
  <2>2. QED
    BY <1>1, <1>10, <2>1 DEF Flatten, KTypeOK
<1>11. CASE UNCHANGED allVars
  BY <1>1, <1>11 DEF allVars, ksVars, KTypeOK
<1>12. QED
  BY <1>2, <1>3, <1>4, <1>5, <1>6, <1>7, <1>8, <1>9, <1>10, <1>11 DEF KNext

-----------------------------------------------------------------------------
\* cancel begins with one of its awaits, or ends because there is no document.
LEMMA CancelBegins ==
    ASSUME TypeOK, NEW c \in Calls, NEW o \in Orders, CancelRead(c, o)
    PROVE  /\ call[c] = Free /\ \A e \in Calls \ {c} : call'[e] = call[e]
           /\ call'[c] # Free /\ call'[c].order = o
           /\ \/ ~Tracked(o) /\ call'[c].pc = "cancel_done"
              \/ call'[c].pc \in {"cancel_broker", "cancel_write"}
<1>1. Absent \in Docs /\ doc[o] \in Docs
  BY DocShape DEF TypeOK
<1>2. PICK p \in InFlight \cup Ended, d \in Docs :
          /\ Begin(c, o, p, d)
          /\ \/ ~Tracked(o) /\ p = "cancel_done"
             \/ p \in {"cancel_broker", "cancel_write"}
  BY <1>1, Places DEF CancelRead, Ended, InFlight
<1>3. QED
  BY <1>2, BeginMoves, BegunShape DEF TypeOK

\* A step of cancel goes on to its next await, or ends; an end without success
\* means that what it read was a document and the caller was told False.
LEMMA CancelMoves ==
    ASSUME IInv, IInv', NEW c \in Calls, CancelBroker(c) \/ CancelWrite(c) \/ CancelDelete(c)
    PROVE  /\ \A e \in Calls \ {c} : call'[e] = call[e]
           /\ call'[c].order = call[c].order /\ call[c] # Free /\ call'[c] # Free
           /\ call[c].pc \in CancelPcs /\ call'[c].pc \in CancelPcs \cup {"cancel_done"}
           /\ call'[c].pc = "cancel_done" /\ broker'[call[c].order] = "live"
                => Refused(call[c].order)'
<1>1. Step(c) /\ TypeOK
  BY DEF Step, IInv
<1>2. StepShape(c) /\ Moved(c, call'[c].pc)
  BY <1>1, StepShapes DEF StepShape
<1>3. /\ \A e \in Calls \ {c} : call'[e] = call[e]
      /\ call'[c].order = call[c].order /\ call'[c].held = call[c].held
      /\ call[c] # Free /\ call'[c] # Free /\ call[c].order \in Orders
      /\ call'[c].success \in BOOLEAN
  BY <1>1, <1>2, BegunShape DEF Moved, TypeOK
<1>4. /\ call[c].pc \in CancelPcs /\ call'[c].pc \in CancelPcs \cup {"cancel_done"}
  <2>1. CASE CancelBroker(c)
    BY <2>1, <1>1, CancelBrokerMoves DEF CancelBroker, CancelPcs, Moved
  <2>2. CASE CancelWrite(c)
    <3>1. Goto(c, "cancel_write", "cancel_delete")
      BY <2>2 DEF CancelWrite
    <3>2. {"cancel_write", "cancel_delete"} \subseteq CancelPcs
      BY DEF CancelPcs
    <3>3. call[c].pc = "cancel_write" /\ Moved(c, "cancel_delete")
      <4>1. "cancel_write" \in InFlight /\ "cancel_delete" \in InFlight \cup Ended
        BY DEF InFlight, CancelPcs, Ended
      <4>2. call[c].pc = "cancel_write"
        BY <3>1 DEF Goto
      <4>3. Moved(c, "cancel_delete")
        BY <1>1, <3>1, <4>1, GotoMoves
      <4>4. QED
        BY <4>2, <4>3
    <3>4. call'[c].pc = "cancel_delete"
      BY <3>3, Zenon DEF Moved
    <3>5. QED
      BY <3>2, <3>3, <3>4
  <2>3. CASE CancelDelete(c)
    <3>1. Goto(c, "cancel_delete", "cancel_done")
      BY <2>3 DEF CancelDelete
    <3>2. "cancel_delete" \in CancelPcs /\ "cancel_done" \in Ended
      BY DEF CancelPcs, Ended
    <3>3. call[c].pc = "cancel_delete" /\ Moved(c, "cancel_done")
      <4>1. "cancel_delete" \in InFlight /\ "cancel_done" \in InFlight \cup Ended
        BY DEF InFlight, CancelPcs, Ended
      <4>2. call[c].pc = "cancel_delete"
        BY <3>1 DEF Goto
      <4>3. Moved(c, "cancel_done")
        BY <1>1, <3>1, <4>1, GotoMoves
      <4>4. QED
        BY <4>2, <4>3
    <3>4. call'[c].pc = "cancel_done"
      BY <3>3, Zenon DEF Moved
    <3>5. QED
      BY <3>2, <3>3, <3>4
  <2>4. QED
    BY <2>1, <2>2, <2>3
<1>5. ASSUME call'[c].pc = "cancel_done", broker'[call[c].order] = "live"
      PROVE  Refused(call[c].order)'
  <2>1. call'[c].held # Absent
    BY <1>3, <1>4 DEF IInv, CancelHolds
  <2>2. ~call'[c].success
    BY <1>3, <1>5 DEF IInv, CancelHolds
  <2>3. QED
    BY <1>3, <1>5, <2>1, <2>2 DEF Refused, On
<1>6. QED
  BY <1>3, <1>4, <1>5

\* A step of update_status is not one of cancel.
LEMMA ReportMoves ==
    ASSUME IInv, NEW c \in Calls,
           UpdateFillRow(c) \/ UpdateFillUnlink(c) \/ UpdateFillPublish(c) \/ UpdateStore(c)
    PROVE  /\ \A e \in Calls \ {c} : call'[e] = call[e]
           /\ call[c].pc \in FillPcs \cup {"store"} /\ call[c] # Free
<1>1. StepShape(c) /\ Moved(c, call'[c].pc)
  BY StepShapes DEF StepShape, Step, IInv
<1>2. call[c].pc \in FillPcs \cup {"store"}
  BY DEF UpdateFillRow, UpdateFillUnlink, UpdateFillPublish, UpdateStore, Goto, FillPcs
<1>3. QED
  BY <1>1, <1>2, BegunShape DEF Moved, IInv, TypeOK

\* A report of the broker begins a coroutine of the reporters.
LEMMA ReportBegins ==
    ASSUME IInv, NEW c \in Calls, NEW o \in Orders, UpdateRead(c, o)
    PROVE  \A e \in Calls \ {c} : call'[e] = call[e]
<1>1. PICK q \in InFlight \cup Ended, d \in Docs : Begin(c, o, q, d)
  <2>1. {"store", "fill_row", "update_done"} \subseteq InFlight \cup Ended
    BY DEF InFlight, Ended, CancelPcs, FillPcs
  <2>2. QED
    BY <2>1, ReadsBegin, DocShape DEF IInv
<1>2. QED
  BY <1>1, BeginMoves DEF IInv, TypeOK

-----------------------------------------------------------------------------
\* The coroutines of the kill switch stay within cancel.
LEMMA KillersStep ==
    ASSUME KillInv, IInv', [KNext]_allVars
    PROVE  KillersCancel'
<1>1. \A n \in 1..MaxActivations, o \in Orders :
          call[<<"kill", n, o>>] # Free =>
            /\ call[<<"kill", n, o>>].order = o
            /\ call[<<"kill", n, o>>].pc \in CancelPcs \cup {"cancel_done"}
  BY DEF KillInv, KillersCancel
<1>2. ASSUME call' = call
      PROVE  KillersCancel'
  BY <1>1, <1>2 DEF KillersCancel
<1>3. ASSUME NEW o \in Orders, UpgradeCancel(o)
      PROVE  KillersCancel'
  <2>1. Upgrader(o) \in Calls /\ CancelRead(Upgrader(o), o)
    BY <1>3, Coroutines DEF UpgradeCancel
  <2>2. \A e \in Calls \ {Upgrader(o)} : call'[e] = call[e]
    BY <2>1, CancelBegins DEF KillInv, IInv
  <2>3. \A n \in 1..MaxActivations, p \in Orders :
            <<"kill", n, p>> \in Calls \ {Upgrader(o)}
    BY Coroutines, CallsOfActors
  <2>4. QED
    BY <1>1, <2>2, <2>3 DEF KillersCancel
<1>4. ASSUME NEW o \in Orders, KillCancel(o)
      PROVE  KillersCancel'
  <2>1. activations \in 1..MaxActivations
    BY <1>4, ReportersApart DEF KillCancel, KillInv, KTypeOK
  <2>2. Killer(o) \in Calls /\ CancelRead(Killer(o), o)
    BY <1>4, <2>1, Coroutines DEF KillCancel
  <2>3. /\ \A e \in Calls \ {Killer(o)} : call'[e] = call[e]
        /\ call'[Killer(o)].order = o
        /\ call'[Killer(o)].pc \in CancelPcs \cup {"cancel_done"}
    BY <2>2, CancelBegins, Places DEF KillInv, IInv
  <2>4. ASSUME NEW n \in 1..MaxActivations, NEW p \in Orders
        PROVE  /\ <<"kill", n, p>> \in Calls
               /\ <<"kill", n, p>> = Killer(o) => p = o
    BY CallsOfActors DEF Killer
  <2>5. QED
    BY <1>1, <2>3, <2>4 DEF KillersCancel
<1>5. ASSUME NEW c \in Calls, CancelStep(c)
      PROVE  KillersCancel'
  <2>1. /\ \A e \in Calls \ {c} : call'[e] = call[e]
        /\ call'[c].order = call[c].order /\ call[c] # Free
        /\ call'[c].pc \in CancelPcs \cup {"cancel_done"}
    BY <1>5, CancelMoves DEF CancelStep, KillInv
  <2>2. \A n \in 1..MaxActivations, p \in Orders : <<"kill", n, p>> \in Calls
    BY CallsOfActors
  <2>3. QED
    BY <1>1, <2>1, <2>2 DEF KillersCancel
<1>6. ASSUME NEW c \in Calls, ReportStep(c)
      PROVE  KillersCancel'
  <2>1. /\ \A e \in Calls \ {c} : call'[e] = call[e]
        /\ call[c].pc \in FillPcs \cup {"store"} /\ call[c] # Free
    BY <1>6, ReportMoves DEF ReportStep, KillInv
  <2>2. call[c].pc \notin CancelPcs \cup {"cancel_done"}
    BY <2>1, Places DEF FillPcs
  <2>3. ASSUME NEW n \in 1..MaxActivations, NEW p \in Orders
        PROVE  <<"kill", n, p>> \in Calls \ {c}
    <3>1. <<"kill", n, p>> \in Calls
      BY CallsOfActors
    <3>2. <<"kill", n, p>> # c
      BY <1>1, <2>1, <2>2
    <3>3. QED
      BY <3>1, <3>2
  <2>4. QED
    BY <1>1, <2>1, <2>3 DEF KillersCancel
<1>7. ASSUME NEW c \in Calls, NEW o \in Orders, Report(c, o)
      PROVE  KillersCancel'
  <2>1. \A e \in Calls \ {c} : call'[e] = call[e]
    BY <1>7, ReportBegins DEF Report, KillInv
  <2>2. \A n \in 1..MaxActivations, p \in Orders : <<"kill", n, p>> \in Calls \ {c}
    BY <1>7, Coroutines, CallsOfActors DEF Report
  <2>3. QED
    BY <1>1, <2>1, <2>2 DEF KillersCancel
<1>8. ASSUME NEW o \in Orders, \/ StartSlice(o) \/ Submission(o) \/ Exchange(o)
                               \/ UpgradeScan(o) \/ ScanOrder(o)
      PROVE  call' = call
  BY <1>8 DEF StartSlice, Submission, Exchange, UpgradeScan, ScanOrder, SubmitPending,
              SubmitRow, SubmitPlace, SubmitAck, SubmitReject, SubmitStep, BrokerEnds, vars
<1>9. ASSUME NEW s \in Flow, CheckFlag(s) \/ CheckLimits(s)
      PROVE  call' = call
  BY <1>9 DEF CheckFlag, CheckLimits, vars
<1>10. CASE \/ Activate \/ ScanEnd \/ CancelEnd \/ Flatten \/ Deactivate
            \/ UNCHANGED allVars
  BY <1>2, <1>10 DEF Activate, ScanEnd, CancelEnd, Flatten, Deactivate, allVars, vars
<1>11. QED
  BY <1>2, <1>3, <1>4, <1>5, <1>6, <1>7, <1>8, <1>9, <1>10 DEF KNext

\* A step that neither the kill switch takes nor one that moves a cancel of its
\* own leaves its pursuit as it was.
LEMMA PursuedElsewhere ==
    ASSUME KillInv, [Next]_vars, UNCHANGED <<kill, scanned, found, activations, working>>,
           \A o \in working : call[Killer(o)].pc \in InFlight =>
               \/ call'[Killer(o)].pc \in InFlight
               \/ Refused(o)' \/ broker'[o] # "live"
    PROVE  Pursued'
<1> SUFFICES ASSUME NEW o \in working
             PROVE  /\ broker'[o] # "none"
                    /\ broker'[o] = "live" /\ ~Refused(o)' =>
                         \/ kill = "scanning" /\ (o \notin scanned \/ o \in found)
                         \/ kill = "cancelling" /\ (o \in found \/ call'[Killer(o)].pc \in InFlight)
  BY DEF Pursued, Killer
<1>1. o \in Orders /\ IInv
  BY DEF KillInv
<1>2. /\ broker[o] # "none"
      /\ broker[o] = "live" /\ ~Refused(o) =>
             \/ kill = "scanning" /\ (o \notin scanned \/ o \in found)
             \/ kill = "cancelling" /\ (o \in found \/ call[Killer(o)].pc \in InFlight)
  BY DEF KillInv, Pursued
<1>3. /\ broker'[o] # "none"
      /\ broker'[o] = "live" => broker[o] = "live"
      /\ Refused(o) => Refused(o)'
  BY <1>1, <1>2, OrdersAge
<1>4. QED
  BY <1>2, <1>3

\* The pursuit of the orders that worked at the activation goes on to its end.
LEMMA PursuedStep ==
    ASSUME KillInv, IInv', [Next]_vars, [KNext]_allVars
    PROVE  Pursued'
<1>1. ASSUME UNCHANGED <<call, kill, scanned, found, activations, working>>
      PROVE  Pursued'
  BY <1>1, PursuedElsewhere
<1>2. ASSUME NEW o \in working
      PROVE  /\ o \in Orders /\ (kill # "idle" => Killer(o) \in Calls)
             /\ broker[o] # "none"
             /\ broker[o] = "live" /\ ~Refused(o) =>
                  /\ Tracked(o)
                  /\ \/ kill = "scanning" /\ (o \notin scanned \/ o \in found)
                     \/ kill = "cancelling" /\ (o \in found \/ call[Killer(o)].pc \in InFlight)
             /\ broker'[o] # "none" /\ (broker'[o] = "live" => broker[o] = "live")
             /\ (Refused(o) => Refused(o)')
  <2>1. o \in Orders /\ IInv /\ broker[o] # "none"
    BY DEF KillInv, Pursued
  <2>2. activations > 0 => activations \in 1..MaxActivations
    BY ReportersApart DEF KillInv, KTypeOK
  <2>3. broker[o] = "live" /\ ~Tracked(o) => Refused(o)
    BY <2>1 DEF IInv, Accounted
  <2>4. QED
    BY <2>1, <2>2, <2>3, OrdersAge, Coroutines DEF KillInv, Pursued
<1>3. ASSUME NEW p \in Orders, ScanOrder(p)
      PROVE  Pursued'
  BY <1>2, <1>3 DEF ScanOrder, Pursued, vars
<1>4. CASE ScanEnd
  BY <1>2, <1>4 DEF ScanEnd, Pursued, Killer, vars
<1>5. ASSUME NEW p \in Orders, KillCancel(p)
      PROVE  Pursued'
  <2>1. kill = "cancelling" /\ CancelRead(Killer(p), p)
        /\ UNCHANGED <<kill, scanned, activations, working>> /\ found' = found \ {p}
    BY <1>5 DEF KillCancel
  <2>2. Killer(p) \in Calls
    <3>1. activations \in 1..MaxActivations
      BY <2>1, ReportersApart DEF KillInv, KTypeOK
    <3>2. QED
      BY <3>1, Coroutines
  <2>3. /\ \A e \in Calls \ {Killer(p)} : call'[e] = call[e]
        /\ ~Tracked(p) \/ call'[Killer(p)].pc \in InFlight
    BY <2>1, <2>2, CancelBegins, Places DEF KillInv, IInv
  <2>4. ASSUME NEW o \in working, broker'[o] = "live", ~Refused(o)'
        PROVE  o \in found' \/ call'[Killer(o)].pc \in InFlight
    <3>1. CASE o = p
      BY <1>2, <2>3, <2>4, <3>1
    <3>2. CASE o # p
      <4>1. Killer(o) \in Calls \ {Killer(p)}
        BY <1>2, <2>1, <3>2, Coroutines
      <4>2. QED
        BY <1>2, <2>1, <2>3, <2>4, <3>2, <4>1
    <3>3. QED
      BY <3>1, <3>2
  <2>5. \A o \in working : broker'[o] # "none"
    BY <1>2
  <2>6. QED
    BY <2>1, <2>4, <2>5 DEF Pursued, Killer
<1>6. CASE CancelEnd
  <2>1. \A o \in working : ~(broker[o] = "live" /\ ~Refused(o))
    BY <1>2, <1>6 DEF CancelEnd, Awaiting, KillInv
  <2>2. QED
    BY <1>2, <1>6, <2>1 DEF CancelEnd, Pursued, vars
<1>7. CASE Flatten
  <2>1. \A o \in working : ~(broker[o] = "live" /\ ~Refused(o))
    BY <1>2, <1>7 DEF Flatten
  <2>2. QED
    BY <1>2, <1>7, <2>1 DEF Flatten, Pursued, vars
<1>8. CASE Activate
  BY <1>8 DEF Activate, Pursued, vars
<1>9. ASSUME NEW c \in Calls, CancelStep(c)
      PROVE  Pursued'
  <2>1. /\ \A e \in Calls \ {c} : call'[e] = call[e]
        /\ call'[c].order = call[c].order
        /\ call[c] # Free /\ call'[c].pc \in CancelPcs \cup {"cancel_done"}
        /\ call'[c].pc = "cancel_done" /\ broker'[call[c].order] = "live"
                => Refused(call[c].order)'
    BY <1>9, CancelMoves DEF CancelStep, KillInv
  <2>2. UNCHANGED <<kill, scanned, found, activations, working>>
    BY <1>9 DEF CancelStep, ksVars
  <2>3. ASSUME NEW o \in working, call[Killer(o)].pc \in InFlight, kill # "idle"
        PROVE  \/ call'[Killer(o)].pc \in InFlight
               \/ Refused(o)' \/ broker'[o] # "live"
    <3>1. Killer(o) \in Calls /\ o \in Orders
      BY <1>2, <2>3
    <3>2. CASE Killer(o) # c
      BY <2>1, <2>3, <3>1, <3>2
    <3>3. CASE Killer(o) = c
      <4>1. call[c].order = o
        BY <2>1, <2>3, <3>1, <3>3, ReportersApart DEF KillInv, KTypeOK, KillersCancel, Killer
      <4>2. QED
        BY <2>1, <3>3, <4>1, Places
    <3>4. QED
      BY <3>2, <3>3
  <2>4. CASE kill = "idle"
    BY <1>2, <2>2, <2>4 DEF Pursued
  <2>5. CASE kill # "idle"
    BY <2>2, <2>3, <2>5, PursuedElsewhere
  <2>6. QED
    BY <2>4, <2>5
<1>10. ASSUME NEW c \in Calls, ReportStep(c) \/ \E p \in Orders : Report(c, p)
       PROVE  Pursued'
  <2>1. /\ \A e \in Calls \ {c} : call'[e] = call[e]
        /\ UNCHANGED <<kill, scanned, found, activations, working>>
    BY <1>10, ReportMoves, ReportBegins DEF ReportStep, Report, ksVars, KillInv
  <2>2. \A n \in 1..MaxActivations, p \in Orders : c # <<"kill", n, p>>
    <3>1. CASE ReportStep(c)
      <4>1. call[c].pc \in FillPcs \cup {"store"} /\ call[c] # Free
        BY <3>1, ReportMoves DEF ReportStep, KillInv
      <4>2. call[c].pc \notin CancelPcs \cup {"cancel_done"}
        BY <4>1, Places DEF FillPcs
      <4>3. QED
        BY <4>1, <4>2 DEF KillInv, KillersCancel
    <3>2. CASE \E p \in Orders : Report(c, p)
      BY <3>2, Coroutines DEF Report
    <3>3. QED
      BY <1>10, <3>1, <3>2
  <2>3. ASSUME NEW o \in working, kill # "idle"
        PROVE  call'[Killer(o)] = call[Killer(o)]
    <3>1. Killer(o) \in Calls /\ o \in Orders /\ activations \in 1..MaxActivations
      BY <1>2, <2>3, ReportersApart DEF KillInv, KTypeOK
    <3>2. Killer(o) # c
      BY <2>2, <3>1 DEF Killer
    <3>3. QED
      BY <2>1, <3>1, <3>2
  <2>4. CASE kill = "idle"
    BY <1>2, <2>1, <2>4 DEF Pursued
  <2>5. CASE kill # "idle"
    BY <2>1, <2>3, <2>5, PursuedElsewhere
  <2>6. QED
    BY <2>4, <2>5
<1>11. ASSUME NEW p \in Orders, UpgradeCancel(p)
       PROVE  Pursued'
  <2>1. /\ \A e \in Calls \ {Upgrader(p)} : call'[e] = call[e]
        /\ UNCHANGED <<kill, scanned, found, activations, working>>
    <3>1. Upgrader(p) \in Calls /\ CancelRead(Upgrader(p), p)
      BY <1>11, Coroutines DEF UpgradeCancel
    <3>2. QED
      BY <1>11, <3>1, CancelBegins DEF UpgradeCancel, UpgradeStep, KillInv, IInv
  <2>2. ASSUME NEW o \in working, kill # "idle"
        PROVE  call'[Killer(o)] = call[Killer(o)]
    <3>1. Killer(o) \in Calls /\ o \in Orders /\ activations \in 1..MaxActivations
      BY <1>2, <2>2, ReportersApart DEF KillInv, KTypeOK
    <3>2. Killer(o) # Upgrader(p)
      BY <3>1, Coroutines DEF Killer
    <3>3. QED
      BY <2>1, <3>1, <3>2
  <2>3. CASE kill = "idle"
    BY <1>2, <2>1, <2>3 DEF Pursued
  <2>4. CASE kill # "idle"
    BY <2>1, <2>2, <2>4, PursuedElsewhere
  <2>5. QED
    BY <2>3, <2>4
<1>12. ASSUME NEW p \in Orders, StartSlice(p) \/ Submission(p) \/ Exchange(p) \/ UpgradeScan(p)
       PROVE  Pursued'
  <2>1. call' = call
    BY <1>12 DEF StartSlice, Submission, Exchange, UpgradeScan, SubmitPending, SubmitRow,
                 SubmitPlace, SubmitAck, SubmitReject, SubmitStep, BrokerEnds, vars
  <2>2. UNCHANGED <<kill, scanned, found, activations, working>>
    BY <1>12 DEF StartSlice, Submission, Exchange, UpgradeScan, UpgradeStep, ksVars
  <2>3. QED
    BY <2>1, <2>2, <1>1
<1>13. ASSUME NEW s \in Flow, CheckFlag(s) \/ CheckLimits(s)
       PROVE  Pursued'
  BY <1>1, <1>13 DEF CheckFlag, CheckLimits, Moves, vars
<1>14. CASE Deactivate \/ UNCHANGED allVars
  BY <1>1, <1>14 DEF Deactivate, allVars, ksVars, vars
<1>15. QED
  BY <1>3, <1>4, <1>5, <1>6, <1>7, <1>8, <1>9, <1>10, <1>11, <1>12, <1>13, <1>14 DEF KNext

\* Nothing gets past the flag while it is on.
LEMMA AdmittedStep ==
    ASSUME KillInv, [KNext]_allVars
    PROVE  Admitted' /\ working' \subseteq Orders /\ (kill' # "idle" => activations' > 0)
<1>0. /\ flow \in [Flow -> {"none", "queued", "checking", "executing", "blocked", "refused"}]
      /\ activations \in Nat /\ working \subseteq Orders /\ Admitted
      /\ kill # "idle" => activations > 0
  BY ReportersApart DEF KillInv, KTypeOK
<1>1. CASE UNCHANGED <<flag, flow, admitted, kill, activations, working>>
  BY <1>0, <1>1 DEF Admitted
<1>2. ASSUME NEW s \in Flow, CheckFlag(s)
      PROVE  Admitted' /\ UNCHANGED <<kill, activations, working>>
  BY <1>0, <1>2 DEF CheckFlag, Moves, Admitted
<1>3. ASSUME NEW s \in Flow, CheckLimits(s)
      PROVE  Admitted' /\ UNCHANGED <<kill, activations, working>>
  BY <1>0, <1>3 DEF CheckLimits, Moves, Admitted
<1>4. CASE Activate
  BY <1>0, <1>4 DEF Activate, Admitted
<1>5. CASE Flatten
  BY <1>0, <1>5 DEF Flatten, Admitted
<1>6. CASE Deactivate
  BY <1>0, <1>6 DEF Deactivate, Admitted
<1>7. CASE ScanEnd \/ CancelEnd
  BY <1>0, <1>7 DEF ScanEnd, CancelEnd, Admitted
<1>8. ASSUME NEW o \in Orders, \/ StartSlice(o) \/ Submission(o) \/ Exchange(o)
                               \/ UpgradeScan(o) \/ UpgradeCancel(o)
                               \/ ScanOrder(o) \/ KillCancel(o)
      PROVE  UNCHANGED <<flag, flow, admitted, kill, activations, working>>
  BY <1>8 DEF StartSlice, Submission, Exchange, UpgradeScan, UpgradeCancel, UpgradeStep,
              ScanOrder, KillCancel, ksVars
<1>9. ASSUME NEW c \in Calls, \/ CancelStep(c) \/ ReportStep(c)
                              \/ \E o \in Orders : Report(c, o)
      PROVE  UNCHANGED <<flag, flow, admitted, kill, activations, working>>
  BY <1>9 DEF CancelStep, ReportStep, Report, ksVars
<1>10. CASE UNCHANGED allVars
  BY <1>1, <1>10 DEF allVars, ksVars
<1>11. QED
  BY <1>0, <1>1, <1>2, <1>3, <1>4, <1>5, <1>6, <1>7, <1>8, <1>9, <1>10 DEF KNext

-----------------------------------------------------------------------------
LEMMA KInitInv == KInit => KillInv
<1> SUFFICES ASSUME KInit PROVE KillInv
  OBVIOUS
<1>1. IInv
  BY InitInv DEF KInit
<1>2. KTypeOK
  <2>1. flow \in [Flow -> {"none", "queued", "checking", "executing", "blocked", "refused"}]
    BY DEF KInit
  <2>2. upgrade \in [Orders -> {"waiting", "cancelling", "done"}]
    BY DEF KInit
  <2>3. flag \in BOOLEAN /\ TypeOK
    BY <1>1, Zenon DEF KInit, IInv
  <2>4. /\ kill \in {"idle", "scanning", "cancelling", "flattening"}
        /\ found \subseteq scanned /\ scanned \subseteq Orders
        /\ activations \in 0..MaxActivations
    BY ReportersApart DEF KInit
  <2>5. QED
    BY <2>1, <2>2, <2>3, <2>4 DEF KTypeOK
<1>3. KillersCancel
  BY CallsOfActors DEF KInit, Init, KillersCancel
<1>4. Pursued /\ Admitted
  BY DEF KInit, Pursued, Admitted
<1>5. QED
  BY <1>1, <1>2, <1>3, <1>4 DEF KInit, KillInv

LEMMA KillInvStep == KillInv /\ [KNext]_allVars => KillInv'
<1> SUFFICES ASSUME KillInv, [KNext]_allVars PROVE KillInv'
  OBVIOUS
<1>1. [Next]_vars /\ KTypeOK'
  BY StepIsOrderStep, KTypingStep DEF KillInv
<1>2. IInv'
  BY <1>1, IInvStep DEF KillInv
<1>3. QED
  BY <1>1, <1>2, KillersStep, PursuedStep, AdmittedStep DEF KillInv

\* The inductive invariant of the kill switch holds, and with it that of the
\* order manager, of which this is a restriction.
THEOREM KillInductive == KSpec => []KillInv
  BY KInitInv, KillInvStep, PTL DEF KSpec

\* The shape of what the module adds.
THEOREM KillTyping == KSpec => []KTypeOK
<1>1. KillInv => KTypeOK
  BY DEF KillInv
<1>2. QED
  BY <1>1, KillInductive, PTL

\* No interleaving of upgrades, reports and submissions hides an order that was
\* working when activate began from its loop.
THEOREM SweepIsThorough == KSpec => []SweepReachesWorkingOrders
<1>1. KillInv => SweepReachesWorkingOrders
  BY DEF KillInv, Pursued, SweepReachesWorkingOrders, Swept
<1>2. QED
  BY <1>1, KillInductive, PTL

\* With the switch on no order is begun for a signal that was not yet past the
\* check of the flag.
THEOREM NothingAdmitted == KSpec => NoOrderAdmittedWhileKilled
<1>1. KillInv /\ [KNext]_allVars =>
        [\A o \in Orders :
            flag /\ submit[o] = "new" /\ submit'[o] # "new" => o[1] \in admitted]_allVars
  <2> SUFFICES ASSUME KillInv, [KNext]_allVars, NEW r \in Orders,
                      flag, submit[r] = "new", submit'[r] # "new"
               PROVE  r[1] \in admitted
    OBVIOUS
  <2>1. r[1] \in Flow
    BY SlicesOfSignals
  <2>2. ASSUME NEW o \in Orders, StartSlice(o)
        PROVE  r[1] \in admitted
    <3>1. r = o
      BY <2>2 DEF StartSlice, SubmitPending, SubmitStep, KillInv, IInv, TypeOK
    <3>2. QED
      BY <2>1, <2>2, <3>1 DEF StartSlice, KillInv, Admitted
  <2>3. ASSUME NEW o \in Orders, Submission(o)
        PROVE  FALSE
    <3>1. submit'[r] = submit[r] \/ r = o
      BY <2>3 DEF Submission, SubmitRow, SubmitPlace, SubmitAck, SubmitReject, SubmitStep,
                  KillInv, IInv, TypeOK
    <3>2. submit[o] # "new"
      BY <2>3 DEF Submission, SubmitRow, SubmitPlace, SubmitStep
    <3>3. QED
      BY <3>1, <3>2
  <2>4. ASSUME NEW o \in Orders, \/ Exchange(o) \/ UpgradeScan(o) \/ UpgradeCancel(o)
                                 \/ ScanOrder(o) \/ KillCancel(o)
        PROVE  submit' = submit
    BY <2>4 DEF Exchange, BrokerEnds, UpgradeScan, UpgradeCancel, ScanOrder, KillCancel,
                CancelRead, Begin, vars
  <2>5. ASSUME NEW c \in Calls, \/ CancelStep(c) \/ ReportStep(c)
                                \/ \E o \in Orders : Report(c, o)
        PROVE  submit' = submit
    BY <2>5 DEF CancelStep, CancelBroker, CancelWrite, CancelDelete, ReportStep,
                UpdateFillRow, UpdateFillUnlink, UpdateFillPublish, UpdateStore, Goto,
                Report, UpdateRead, Begin
  <2>6. ASSUME NEW s \in Flow, CheckFlag(s) \/ CheckLimits(s)
        PROVE  submit' = submit
    BY <2>6 DEF CheckFlag, CheckLimits, vars
  <2>7. CASE Activate \/ ScanEnd \/ CancelEnd \/ Flatten \/ Deactivate \/ UNCHANGED allVars
    BY <2>7 DEF Activate, ScanEnd, CancelEnd, Flatten, Deactivate, allVars, vars
  <2>8. QED
    BY <2>2, <2>3, <2>4, <2>5, <2>6, <2>7 DEF KNext
<1>2. QED
  BY <1>1, KillInductive, PTL DEF KSpec, NoOrderAdmittedWhileKilled
=============================================================================
