----------------------------- MODULE KillSwitch -----------------------------
(* Signals on their way to the broker and the kill switch that stops them:      *)
(* risk/pre_trade.py (check), execution/smart_exec.py (execute, the upgrade of  *)
(* passive orders) and risk/kill_switch.py, over the order manager. Redis does  *)
(* not fail here and no coroutine dies: those are OrderManager's behaviours.    *)
EXTENDS OrderManager, TLC

CONSTANTS
    Signals,          \* signals of the strategies
    Urgency,          \* their urgency, in tenths
    Legs,             \* open positions; a leg also names its flatten signal
    Reporters,        \* coroutines running update_status
    MaxActivations    \* bound: how often activate is called

Flow == Signals \cup Legs

\* An order is a slice of a signal: <<signal, number>>. Orders holds the slices
\* each signal is cut into, numbered from 1. A cancel belongs to the kill
\* switch's loop or to the upgrade task of its order.
ASSUME Urgencies == Urgency \in [Signals -> 0..10]
ASSUME SlicesOfSignals == Orders \subseteq Flow \X (Nat \ {0})
ASSUME CallsOfActors ==
    Calls = ({"upgrade"} \X {1} \X Orders)
              \cup ({"kill"} \X (1..MaxActivations) \X Orders) \cup Reporters
ASSUME ReportersApart ==
    /\ MaxActivations \in Nat
    /\ Reporters \cap ({"kill"} \X (1..MaxActivations) \X Orders) = {}

VARIABLES
    flag,             \* kill_switch:active in Redis
    flow,             \* flow[s]: how far the signal s has got
    kill,             \* where activate stands
    scanned,          \* orders whose key the running scan is past
    found,            \* orders whose document the scan has read
    upgrade,          \* upgrade[o]: the upgrade task of o
    activations,      \* calls of activate so far
    working,          \* history: acknowledged orders at the last activation
    admitted          \* history: signals past the flag at the last activation

ksVars == <<flag, flow, kill, scanned, found, upgrade, activations, working, admitted>>
allVars == <<vars, ksVars>>

\* submit sends a limit order up to an urgency of 0.7, execute starts the task
\* that upgrades it below 0.7.
Limit(o)   == o[1] \in Signals /\ Urgency[o[1]] <= 7
Passive(o) == Limit(o) /\ Urgency[o[1]] < 7
Killer(o)   == <<"kill", activations, o>>
Upgrader(o) == <<"upgrade", 1, o>>

KInit ==
    /\ Init
    /\ ~paperMode
    /\ flag = FALSE
    /\ flow = [s \in Flow |-> IF s \in Signals THEN "queued" ELSE "none"]
    /\ kill = "idle"
    /\ scanned = {} /\ found = {}
    /\ upgrade = [o \in Orders |-> "waiting"]
    /\ activations = 0
    /\ working = {} /\ admitted = {}

-----------------------------------------------------------------------------
\* --- PreTradeChecker.check: the flag first, then the limits ---------------------
Moves(s, from, to) ==
    /\ flow[s] = from
    /\ flow' = [flow EXCEPT ![s] = to]
    /\ UNCHANGED <<flag, kill, scanned, found, upgrade, activations, working, admitted>>

\* Slip: the flag is not looked at.
CheckNoFlag(s) == Moves(s, "queued", "checking") /\ UNCHANGED vars

CheckFlag(s) ==
    /\ Moves(s, "queued", IF flag THEN "blocked" ELSE "checking")
    /\ UNCHANGED vars

CheckLimits(s) ==
    /\ \E verdict \in {"executing", "refused"} : Moves(s, "checking", verdict)
    /\ UNCHANGED vars

\* --- SmartExecutor.execute: one slice after the other -----------------------------
Earlier(o) == {p \in Orders : p[1] = o[1] /\ p[2] < o[2]}

StartSlice(o) ==
    /\ flow[o[1]] = "executing"
    /\ \A p \in Earlier(o) : submit[p] = "done"
    /\ SubmitPending(o)
    /\ UNCHANGED ksVars

Submission(o) ==
    /\ \/ SubmitRow(o)
       \/ SubmitPlace(o)
       \/ submit[o] = "ack" /\ SubmitAck(o) /\ submit'[o] = "done"
       \/ submit[o] = "reject" /\ SubmitReject(o)
    /\ UNCHANGED ksVars

\* _upgrade_to_market, its sleep over: get_open_orders, then cancel if OPEN.
UpgradeStep(o, from, to) ==
    /\ upgrade[o] = from
    /\ upgrade' = [upgrade EXCEPT ![o] = to]
    /\ UNCHANGED <<flag, flow, kill, scanned, found, activations, working, admitted>>

\* Slip: the task ends without a look at the open orders.
UpgradeSkip(o) ==
    /\ Passive(o) /\ submit[o] = "done"
    /\ UpgradeStep(o, "waiting", "done") /\ UNCHANGED vars

UpgradeScan(o) ==
    /\ Passive(o) /\ submit[o] = "done"
    /\ UpgradeStep(o, "waiting", IF doc[o].status = "OPEN" THEN "cancelling" ELSE "done")
    /\ UNCHANGED vars

UpgradeCancel(o) ==
    UpgradeStep(o, "cancelling", "done") /\ CancelRead(Upgrader(o), o)

\* --- KillSwitch ---------------------------------------------------------------------
\* Ghosts: the orders that work and are acknowledged, the signals already past
\* the check of the flag.
Activate ==
    /\ kill = "idle" /\ activations < MaxActivations
    /\ flag' = TRUE /\ kill' = "scanning"
    /\ scanned' = {} /\ found' = {}
    /\ activations' = activations + 1
    /\ working' = {o \in Orders : broker[o] = "live" /\ doc[o].acked}
    /\ admitted' = {s \in Flow : flow[s] \in {"checking", "executing"}}
    /\ UNCHANGED <<vars, flow, upgrade>>

\* Slip: only documents that say PENDING are taken for pending orders.
ScanPending(o) ==
    /\ kill = "scanning" /\ o \notin scanned
    /\ scanned' = scanned \cup {o}
    /\ found' = IF doc[o].status = "PENDING" THEN found \cup {o} ELSE found
    /\ UNCHANGED <<vars, flag, flow, kill, upgrade, activations, working, admitted>>

\* get_open_orders: SCAN and one GET per key; a key written behind the cursor
\* is missed.
ScanOrder(o) ==
    /\ kill = "scanning" /\ o \notin scanned
    /\ scanned' = scanned \cup {o}
    /\ found' = IF Tracked(o) THEN found \cup {o} ELSE found
    /\ UNCHANGED <<vars, flag, flow, kill, upgrade, activations, working, admitted>>

ScanEnd ==
    /\ kill = "scanning" /\ scanned = Orders
    /\ kill' = "cancelling"
    /\ UNCHANGED <<vars, flag, flow, scanned, found, upgrade, activations, working, admitted>>

Awaiting == activations > 0 /\ \E o \in Orders : call[Killer(o)].pc \in InFlight

\* The loop awaits each cancel and does not look at what it returns.
KillCancel(o) ==
    /\ kill = "cancelling" /\ ~Awaiting
    /\ o \in found
    /\ found' = found \ {o}
    /\ CancelRead(Killer(o), o)
    /\ UNCHANGED <<flag, flow, kill, scanned, upgrade, activations, working, admitted>>

\* Slip: the loop goes on until nothing is found working.
CancelUntilDead ==
    /\ kill = "cancelling" /\ ~Awaiting /\ found = {}
    /\ \A o \in Orders : broker[o] # "live"
    /\ kill' = "flattening"
    /\ UNCHANGED <<vars, flag, flow, scanned, found, upgrade, activations, working, admitted>>

CancelEnd ==
    /\ kill = "cancelling" /\ ~Awaiting /\ found = {}
    /\ kill' = "flattening"
    /\ UNCHANGED <<vars, flag, flow, scanned, found, upgrade, activations, working, admitted>>

\* A SignalEvent for every leg. One that is still on its way is not told apart
\* from its repetition.
Flatten ==
    /\ kill = "flattening"
    /\ kill' = "idle"
    /\ flow' = [s \in Flow |-> IF s \in Legs /\ flow[s] = "none" THEN "queued" ELSE flow[s]]
    /\ UNCHANGED <<vars, flag, scanned, found, upgrade, activations, working, admitted>>

Deactivate ==
    /\ flag /\ flag' = FALSE
    /\ UNCHANGED <<vars, flow, kill, scanned, found, upgrade, activations, working, admitted>>

-----------------------------------------------------------------------------
CancelStep(c) ==
    (CancelBroker(c) \/ CancelWrite(c) \/ CancelDelete(c)) /\ UNCHANGED ksVars

Report(c, o) == c \in Reporters /\ UpdateRead(c, o) /\ UNCHANGED ksVars

ReportStep(c) ==
    /\ UpdateFillRow(c) \/ UpdateFillUnlink(c) \/ UpdateFillPublish(c) \/ UpdateStore(c)
    /\ UNCHANGED ksVars

Exchange(o) == BrokerEnds(o) /\ UNCHANGED ksVars

KNext ==
    \/ \E s \in Flow : CheckFlag(s) \/ CheckLimits(s)
    \/ \E o \in Orders : \/ StartSlice(o) \/ Submission(o) \/ Exchange(o)
                         \/ UpgradeScan(o) \/ UpgradeCancel(o)
                         \/ ScanOrder(o) \/ KillCancel(o)
    \/ Activate \/ ScanEnd \/ CancelEnd \/ Flatten \/ Deactivate
    \/ \E c \in Calls : CancelStep(c) \/ ReportStep(c)
    \/ \E c \in Calls, o \in Orders : Report(c, o)

\* Every coroutine is a task of the event loop and every await of it returns;
\* nothing forces the exchange, a report, or anybody to use the switch.
KSpec ==
    /\ KInit /\ [][KNext]_allVars
    /\ \A s \in Flow : WF_allVars(CheckFlag(s)) /\ WF_allVars(CheckLimits(s))
    /\ \A o \in Orders : /\ WF_allVars(StartSlice(o)) /\ WF_allVars(Submission(o))
                         /\ WF_allVars(UpgradeScan(o)) /\ WF_allVars(UpgradeCancel(o))
                         /\ WF_allVars(ScanOrder(o)) /\ WF_allVars(KillCancel(o))
    /\ WF_allVars(ScanEnd) /\ WF_allVars(CancelEnd) /\ WF_allVars(Flatten)
    /\ \A c \in Calls : WF_allVars(CancelStep(c)) /\ WF_allVars(ReportStep(c))

-----------------------------------------------------------------------------
\* The shape of what this module adds.
KTypeOK ==
    /\ TypeOK
    /\ flag \in BOOLEAN
    /\ flow \in [Flow -> {"none", "queued", "checking", "executing", "blocked", "refused"}]
    /\ kill \in {"idle", "scanning", "cancelling", "flattening"}
    /\ found \subseteq scanned /\ scanned \subseteq Orders
    /\ upgrade \in [Orders -> {"waiting", "cancelling", "done"}]
    /\ activations \in 0..MaxActivations

Swept == activations > 0 /\ kill \in {"flattening", "idle"}

\* When activate has been through its loop, no order that was working and
\* acknowledged when it began is still working, unless a cancel of that order was
\* answered False: however upgrades, reports and submissions interleave with it.
SweepReachesWorkingOrders ==
    Swept => \A o \in working : broker[o] = "live" => Refused(o)

\* While the switch is on, an order is only begun for a signal that was already
\* past the check of the flag when it was switched on.
NoOrderAdmittedWhileKilled ==
    [][\A o \in Orders :
          flag /\ submit[o] = "new" /\ submit'[o] # "new" => o[1] \in admitted]_allVars

\* activate always gets to its end.
KillCompletes == kill = "scanning" ~> kill = "idle"

AwaitsUpgrade(o) ==
    /\ Passive(o) /\ submit[o] = "done" /\ upgrade[o] = "waiting"
    /\ doc[o].status = "OPEN" /\ broker[o] = "live"

\* A report has put another status than OPEN on a live order.
Hidden(o) == doc[o].status \in {"PENDING", "TRIGGER PENDING"}

\* A limit order that is open while its upgrade has yet to run does not work for
\* ever: it ends, or its cancel was answered False, or a report of PENDING or
\* TRIGGER PENDING made the upgrade pass it by.
PassiveOrdersSettle ==
    \A o \in Orders :
        AwaitsUpgrade(o) ~> broker[o] # "live" \/ Refused(o) \/ Hidden(o)

-----------------------------------------------------------------------------
\* README.md:41, "cancels all pending orders": with the switch on and activate
\* through its loop, an order works only if a cancel of it was answered False.
KillCancelsAllPending ==
    Swept /\ flag => \A o \in Orders : broker[o] = "live" => Refused(o)

\* README.md:41, "flattens active positions across all legs": the signal that
\* flattens a leg is not rejected because of the very switch that emitted it.
FlattenSignalsPass == \A l \in Legs : flow[l] # "blocked"

\* README.md:50, a passive order "upgrades to market execution if fill-latency
\* exceeds specified timeouts": once the upgrade has cancelled an order, another
\* order of the signal takes its place.
UpgradeReplaces ==
    \A o \in Orders :
        call[Upgrader(o)].pc = "cancel_done" /\ call[Upgrader(o)].success
            ~> \E p \in Orders \ {o} : p[1] = o[1] /\ broker[p] \in {"live", "filled"}
=============================================================================
