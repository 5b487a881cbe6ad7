----------------------------- MODULE RiskMonitor -----------------------------
(* risk/real_time.py and the drawdown of strategies/portfolio.py: tasks that    *)
(* add up the profits kept in Redis key by key, share one peak that each reads, *)
(* compares and writes, and stop what loses too much.                           *)
EXTENDS Integers, FiniteSets, Functions

CONSTANTS
    Strategies,     \* strategy ids, each with a document pnl:<id>
    Profits,        \* total_pnl
    Capital,        \* starting_capital
    MaxDrawdown,    \* max_daily_drawdown_pct of the portfolio
    Allocated,      \* Allocated[s]: capital_allocated
    Limited,        \* strategies whose id matches a key of the limits; no other is checked
    StrategyLimit,  \* StrategyLimit[s]: its max_daily_drawdown_pct, or 100
    Tasks,          \* monitor loops and callers of check_daily_drawdown
    MaxUpdates,     \* bounds of the model: profits booked,
    MaxFailures     \* awaits that raise, and keys that SCAN returns twice

ASSUME RiskAssumption ==
    /\ IsFiniteSet(Strategies) /\ Profits \subseteq Int /\ 0 \in Profits
    /\ Capital \in Int /\ MaxDrawdown \in Nat /\ Limited \subseteq Strategies
    /\ Allocated \in [Strategies -> Nat] /\ StrategyLimit \in [Strategies -> Nat]
    /\ MaxUpdates \in Nat /\ MaxFailures \in Nat

VARIABLES
    profit,     \* profit[s]: pnl:<s>, 0 as long as there is none
    peak,       \* portfolio:peak_capital, the capital as long as there is none
    tripped,    \* the flag of the kill switch
    stopped,    \* strategies that were halted
    running,    \* _running
    latest,     \* _task: the tasks stop cancels, at most one
    round,      \* round[t]: where the task stands and what it has read
    updates, failures,
    equities,   \* history: the equities the portfolio has had
    tainted     \* history: the peak was written by a torn task

\* In round[t], torn (it adds up profits of different times, or one twice) and overtaken (it has
\* read a peak that was written since) are history.
monitorHistory == <<equities, tainted>>
monitorCounts  == <<updates, failures>>
monitorStops   == <<tripped, stopped, running, latest>>
monitorVars    == <<profit, peak, monitorStops, round, monitorCounts, monitorHistory>>

Ended == [pc |-> "off", loop |-> FALSE, left |-> {}, sum |-> 0,
          torn |-> FALSE, overtaken |-> FALSE]
Asleep == [Ended EXCEPT !.pc = "sleep", !.loop = TRUE]
Fresh(loop) == [Ended EXCEPT !.pc = "scan", !.loop = loop, !.left = Strategies]

MonitorInit ==
    /\ profit = [s \in Strategies |-> 0] /\ peak = Capital
    /\ tripped = FALSE /\ stopped = {} /\ running = FALSE /\ latest = {}
    /\ round = [t \in Tasks |-> Ended]
    /\ updates = 0 /\ failures = 0
    /\ equities = {Capital} /\ tainted = FALSE

-----------------------------------------------------------------------------
Total(f) == SumFunctionOnSet(f, Strategies)
Equity == Capital + Total(profit)

Exceeds(high, equity) == high > 0 /\ (high - equity) * 100 > MaxDrawdown * high
Loses(s, p) == s \in Limited /\ Allocated[s] > 0 /\ -p * 100 > StrategyLimit[s] * Allocated[s]

Reads(t) == Capital + round[t].sum
Goes(t, r) == round' = [round EXCEPT ![t] = r]
\* The rest of a round: nothing of the drawdown is used again.
CheckingStrategies == [Fresh(TRUE) EXCEPT !.pc = "strategies"]

\* start: one more loop, whatever runs already.
StartMonitor(t) ==
    /\ round[t].pc = "off"
    /\ running' = TRUE /\ latest' = {t} /\ Goes(t, Fresh(TRUE))
    /\ UNCHANGED <<profit, peak, tripped, stopped, monitorCounts, monitorHistory>>

\* check_daily_drawdown reads, and raises the peak, as the monitor does.
DailyDrawdown(t) ==
    /\ round[t].pc = "off" /\ Goes(t, Fresh(FALSE))
    /\ UNCHANGED <<profit, peak, monitorStops, monitorCounts, monitorHistory>>

\* stop cancels the task of the last start at its await; an earlier loop ends itself.
StopMonitor ==
    /\ running /\ running' = FALSE
    /\ round' = [t \in Tasks |-> IF t \in latest THEN Ended ELSE round[t]]
    /\ latest' = {}
    /\ UNCHANGED <<profit, peak, tripped, stopped, monitorCounts, monitorHistory>>

\* The second of sleep is over.
NextRound(t) ==
    /\ round[t].pc = "sleep"
    /\ Goes(t, IF running THEN Fresh(TRUE) ELSE Ended)
    /\ UNCHANGED <<profit, peak, monitorStops, monitorCounts, monitorHistory>>

\* Slip: the scan ends with the first key.
ReadProfitFirst(t, s) ==
    /\ round[t].pc = "scan" /\ s \in round[t].left
    /\ Goes(t, [round[t] EXCEPT !.left = {}, !.sum = @ + profit[s], !.pc = "peak"])
    /\ UNCHANGED <<profit, peak, monitorStops, monitorCounts, monitorHistory>>

\* One key of the scan.
ReadProfit(t, s) ==
    /\ round[t].pc = "scan" /\ s \in round[t].left
    /\ LET left == round[t].left \ {s}
       IN  Goes(t, [round[t] EXCEPT !.left = left, !.sum = @ + profit[s],
                                    !.pc = IF left = {} THEN "peak" ELSE "scan"])
    /\ UNCHANGED <<profit, peak, monitorStops, monitorCounts, monitorHistory>>

\* SCAN may return a key more than once while Redis resizes its table; the sum counts
\* it as often. check_daily_drawdown asks for every strategy once.
ReadProfitAgain(t, s) ==
    /\ round[t].pc = "scan" /\ round[t].loop /\ s \in round[t].left
    /\ failures < MaxFailures /\ failures' = failures + 1
    /\ Goes(t, [round[t] EXCEPT !.sum = @ + profit[s], !.torn = TRUE])
    /\ UNCHANGED <<profit, peak, monitorStops, updates, monitorHistory>>

\* The drawdown against what was read, after the last await; only the monitor acts.
Verdict(t, high) ==
    IF ~round[t].loop THEN Ended
    ELSE IF Exceeds(high, Reads(t)) THEN [Fresh(TRUE) EXCEPT !.pc = "trip"]
    ELSE CheckingStrategies

\* Slip: every equity is written.
ReadPeakAlways(t) ==
    /\ round[t].pc = "peak"
    /\ Goes(t, [round[t] EXCEPT !.pc = "raise"])
    /\ UNCHANGED <<profit, peak, monitorStops, monitorCounts, monitorHistory>>

ReadPeak(t) ==
    /\ round[t].pc = "peak"
    /\ \/ Reads(t) > peak /\ Goes(t, [round[t] EXCEPT !.pc = "raise"])
       \/ Reads(t) <= peak /\ Goes(t, Verdict(t, peak))
    /\ UNCHANGED <<profit, peak, monitorStops, monitorCounts, monitorHistory>>

RaisePeak(t) ==
    /\ round[t].pc = "raise"
    /\ peak' = Reads(t)
    /\ round' = [u \in Tasks |->
                   IF u = t THEN Verdict(t, Reads(t))
                   ELSE [round[u] EXCEPT !.overtaken = @ \/ round[u].pc = "raise"]]
    /\ tainted' = round[t].torn
    /\ UNCHANGED <<profit, monitorStops, monitorCounts, equities>>

\* KillSwitch.activate, at every round as long as the drawdown lasts.
Trip(t) ==
    /\ round[t].pc = "trip"
    /\ tripped' = TRUE
    /\ Goes(t, CheckingStrategies)
    /\ UNCHANGED <<profit, peak, stopped, running, latest, monitorCounts, monitorHistory>>

\* _check_strategy_drawdowns for one strategy; after the last the exposure is
\* added up, of which only an event comes.
CheckStrategy(t, s) ==
    /\ round[t].pc = "strategies" /\ s \in round[t].left
    /\ stopped' = IF Loses(s, profit[s]) THEN stopped \cup {s} ELSE stopped
    /\ LET left == round[t].left \ {s}
       IN  Goes(t, IF left = {} THEN Asleep ELSE [round[t] EXCEPT !.left = left])
    /\ UNCHANGED <<profit, peak, tripped, running, latest, monitorCounts, monitorHistory>>

\* Slip: the exception ends the loop.
MonitorDies(t) ==
    /\ round[t].pc \notin {"off", "sleep"} /\ failures < MaxFailures
    /\ failures' = failures + 1
    /\ Goes(t, Ended)
    /\ UNCHANGED <<profit, peak, monitorStops, updates, monitorHistory>>

\* An await raises: the loop goes to sleep without the checks that follow, and
\* check_daily_drawdown raises.
MonitorFails(t) ==
    /\ round[t].pc \notin {"off", "sleep"} /\ failures < MaxFailures
    /\ failures' = failures + 1
    /\ Goes(t, IF round[t].loop THEN Asleep ELSE Ended)
    /\ UNCHANGED <<profit, peak, monitorStops, updates, monitorHistory>>

-----------------------------------------------------------------------------
\* update_pnl, which the strategies' owner calls.
UpdatePnl(s, p) ==
    /\ updates < MaxUpdates /\ p # profit[s]
    /\ profit' = [profit EXCEPT ![s] = p]
    /\ updates' = updates + 1
    /\ equities' = equities \cup {Capital + Total(profit')}
    /\ round' = [t \in Tasks |->
                   [round[t] EXCEPT !.torn = @ \/ (round[t].pc = "scan" /\ round[t].left # Strategies)]]
    /\ UNCHANGED <<peak, monitorStops, failures, tainted>>

\* The user switches the kill switch off, or resumes a strategy.
TurnOff ==
    /\ tripped /\ tripped' = FALSE
    /\ UNCHANGED <<profit, peak, stopped, running, latest, round, monitorCounts, monitorHistory>>

ResumeStrategy(s) ==
    /\ s \in stopped /\ stopped' = stopped \ {s}
    /\ UNCHANGED <<profit, peak, tripped, running, latest, round, monitorCounts, monitorHistory>>

RoundStep(t) ==
    \/ NextRound(t) \/ ReadPeak(t) \/ RaisePeak(t) \/ Trip(t)
    \/ \E s \in Strategies : ReadProfit(t, s) \/ CheckStrategy(t, s)

MonitorNext ==
    \/ \E t \in Tasks, s \in Strategies : ReadProfitAgain(t, s)
    \/ \E t \in Tasks : RoundStep(t) \/ StartMonitor(t) \/ DailyDrawdown(t) \/ MonitorFails(t)
    \/ \E s \in Strategies, p \in Profits : UpdatePnl(s, p)
    \/ \E s \in Strategies : ResumeStrategy(s)
    \/ StopMonitor \/ TurnOff

MonitorFairness == \A t \in Tasks : WF_monitorVars(RoundStep(t))
MonitorSpec == MonitorInit /\ [][MonitorNext]_monitorVars /\ MonitorFairness

-----------------------------------------------------------------------------
Pcs == {"off", "sleep", "scan", "peak", "raise", "trip", "strategies"}
Rounds == [pc : Pcs, loop : BOOLEAN, left : SUBSET Strategies, sum : Int,
           torn : BOOLEAN, overtaken : BOOLEAN]

MonitorTypeOK ==
    /\ profit \in [Strategies -> Profits] /\ peak \in Int
    /\ tripped \in BOOLEAN /\ stopped \subseteq Strategies
    /\ running \in BOOLEAN /\ latest \subseteq Tasks
    /\ round \in [Tasks -> Rounds]
    /\ updates \in 0..MaxUpdates /\ failures \in 0..MaxFailures
    /\ equities \subseteq Int /\ tainted \in BOOLEAN

\* The peak only rises, in whatever order the tasks that share it read and write,
\* unless the task that writes has read a peak which another has replaced since.
PeakNeverFalls ==
    [][peak' < peak => \E t \in Tasks : round[t].overtaken /\ round'[t] # round[t]]_monitorVars

\* The peak is an equity the portfolio once had, unless its writer added up profits
\* while one of them changed, or one that SCAN returned twice.
PeakWasReached == tainted \/ peak \in equities

\* As long as the monitor runs, a drawdown that lasts keeps the kill switch on and
\* a strategy that goes on losing halted, whatever the user switches off.
LosesUnhalted(s) == running /\ s \notin stopped /\ Loses(s, profit[s])

LossesAreStopped ==
    /\ (running /\ ~tripped /\ Exceeds(peak, Equity)) ~> (tripped \/ ~running \/ ~Exceeds(peak, Equity))
    /\ \A s \in Limited : LosesUnhalted(s) ~> ~LosesUnhalted(s)
=============================================================================
