----------------------------- MODULE Backtester -----------------------------
(* research/backtester/engine.py and fill_model.py, driven fold by fold as      *)
(* research/walk_forward/runner.py does: one engine whose run resets only a     *)
(* part of what it keeps, over test windows that share a day.                   *)
EXTENDS Integers, Sequences, FiniteSets, Functions

CONSTANTS
    Symbols,
    History,        \* the rows of trading.ticks by timestamp: day, symbol, price,
                    \* bid, ask, and depth on both sides
    TotalStart, TotalEnd,           \* days
    TrainWindow, TestWindow, StepDays,
    StartingCapital,
    Quantities,     \* qty of a signal
    Impact,         \* impact_bps
    Commission,     \* commission_bps
    MaxFills        \* bound of the model: fills of a run

RowType == [day : Nat, symbol : Symbols, price : Nat \ {0}, bid : Nat,
            ask : Nat, depth : Nat]

ASSUME BacktesterAssumption ==
    /\ History \in Seq(RowType) /\ IsFiniteSet(Symbols)
    /\ {TotalStart, TotalEnd, TrainWindow, TestWindow} \subseteq Nat
    /\ StepDays \in Nat \ {0} /\ StartingCapital \in Nat
    /\ Quantities \subseteq Nat \ {0} /\ {Impact, Commission, MaxFills} \subseteq Nat
    /\ Commission <= 10000

VARIABLES
    fold,           \* train_start of the fold that runs next
    toReplay,       \* which rows of History the run has yet to replay
    cash, holding, prices, fillCount,
    filled,         \* the fill of the last row: its symbol and whether the row is its own
    replays         \* history: how many folds have replayed a row

backtestVars ==
    <<fold, toReplay, cash, holding, prices, fillCount, filled, replays>>

NoFillYet == [symbol |-> "none", own |-> FALSE]
DefaultDepth == 1000

BacktestInit ==
    /\ fold = TotalStart /\ toReplay = {}
    /\ cash = StartingCapital /\ fillCount = 0
    /\ holding = [s \in Symbols |-> 0] /\ prices = [s \in Symbols |-> 0]
    /\ filled = NoFillYet /\ replays = [i \in DOMAIN History |-> 0]

-----------------------------------------------------------------------------
MarkToMarket(h, p) == SumFunctionOnSet([s \in Symbols |-> h[s] * p[s]], Symbols)
FinalEquity == cash + MarkToMarket(holding, prices)

\* Slip: the query asks for the days up to the one after the last.
RowsBetweenWider(first, last) ==
    {i \in DOMAIN History : first <= History[i].day /\ History[i].day <= last + 1}

\* The query is inclusive of both days.
RowsBetween(first, last) ==
    {i \in DOMAIN History : first <= History[i].day /\ History[i].day <= last}

\* Iterating over the rows, in the order of their timestamps.
NextRow == CHOOSE i \in toReplay : \A j \in toReplay : i <= j

\* The next fold, as long as its test window ends within the range. A query that
\* fails finds nothing.
RunFold(found) ==
    /\ toReplay = {} /\ fold + TrainWindow + TestWindow <= TotalEnd
    /\ fold' = fold + StepDays
    /\ toReplay' = IF found THEN RowsBetween(fold + TrainWindow, fold + TrainWindow + TestWindow)
               ELSE {}
    /\ cash' = StartingCapital /\ holding' = [s \in Symbols |-> 0]
    /\ fillCount' = 0 /\ filled' = NoFillYet
    /\ UNCHANGED <<prices, replays>>

\* simulate_fill looks at the row that ticked, whatever the symbol of the signal.
FillPrice(row, side) ==
    IF side = "BUY" THEN row.ask + (row.ask * Impact) \div 10000
    ELSE row.bid - (row.bid * Impact) \div 10000

Least(a, b) == IF a < b THEN a ELSE b
FillQty(row, qty) == Least(qty, IF row.depth <= 0 THEN DefaultDepth ELSE row.depth)
CommissionOn(row, side, qty) == (qty * FillPrice(row, side) * Commission) \div 10000

\* Slip: the commission of a sale is paid out.
CashWithCommission(row, side, qty) ==
    LET value == qty * FillPrice(row, side)
    IN  IF side = "BUY" THEN cash - value - CommissionOn(row, side, qty)
        ELSE cash + value + CommissionOn(row, side, qty)

\* _apply_fill
CashAfter(row, side, qty) ==
    LET value == qty * FillPrice(row, side)
    IN  IF side = "BUY" THEN cash - value - CommissionOn(row, side, qty)
        ELSE cash + value - CommissionOn(row, side, qty)

PricesAfter(row) == [prices EXCEPT ![row.symbol] = row.price]

Replayed ==
    /\ toReplay' = toReplay \ {NextRow}
    /\ replays' = [replays EXCEPT ![NextRow] = @ + 1]

\* A row without a signal, or whose signal does not fill: a quote is missing, or the
\* limit order is not lucky.
RowPasses ==
    /\ toReplay # {}
    /\ LET row == History[NextRow]
       IN  prices' = PricesAfter(row)
    /\ Replayed /\ filled' = NoFillYet
    /\ UNCHANGED <<fold, cash, holding, fillCount>>

RowFills(symbol, side, qty) ==
    /\ toReplay # {} /\ fillCount < MaxFills
    /\ LET row == History[NextRow]
           done == FillQty(row, qty)
       IN  /\ row.bid > 0 /\ row.ask > 0
           /\ prices' = PricesAfter(row)
           /\ cash' = CashAfter(row, side, done)
           /\ holding' = [holding EXCEPT ![symbol] = IF side = "BUY" THEN @ + done ELSE @ - done]
           /\ filled' = [symbol |-> symbol, own |-> symbol = row.symbol]
    /\ Replayed /\ fillCount' = fillCount + 1
    /\ UNCHANGED fold

BacktestNext ==
    \/ \E found \in BOOLEAN : RunFold(found)
    \/ RowPasses
    \/ \E s \in Symbols, side \in {"BUY", "SELL"}, qty \in Quantities : RowFills(s, side, qty)

BacktestSpec == BacktestInit /\ [][BacktestNext]_backtestVars

-----------------------------------------------------------------------------
\* The days on which one test window ends and the next begins.
Shared(day) ==
    /\ StepDays = TestWindow
    /\ \E n \in 0..TotalEnd : day = TotalStart + TrainWindow + n * StepDays

\* In the fills of all folds, which the runner joins, no tick is traded twice as long
\* as the windows do not overlap by configuration; the exception are the days that two
\* windows share, whose ticks are traded twice and no more.
TicksCountOnce ==
    TestWindow <= StepDays =>
        \A i \in DOMAIN History : replays[i] <= IF Shared(History[i].day) THEN 2 ELSE 1

\* A fill never makes money by itself: against the prices of its row it costs the
\* spread, the impact and the commission. A signal for another symbol than the one
\* that ticked is filled at the wrong quotes, and may.
FillsCostMoney ==
    [][fillCount' > fillCount /\ filled'.own /\ History[NextRow].bid <= History[NextRow].price
         /\ History[NextRow].price <= History[NextRow].ask
       => FinalEquity' <= cash + MarkToMarket(holding, prices')]_backtestVars
=============================================================================
