----------------------------- MODULE MCResearch -----------------------------
(* Small instances of the components between the ticks, the features and the    *)
(* stored history. They share no state, so a behaviour moves only the one that  *)
(* part names; MarketClock starts at every minute and the others at one state.  *)
EXTENDS Microstructure, FeaturePipeline, MarketClock, Backtester, Backfill, Training

CONSTANTS v1, v2

VARIABLE part

Quoted(p, b, a, v) == [sound |-> TRUE, price |-> p, bid |-> b, ask |-> a, volume |-> v]
SmallTicks ==
    {Quoted(2, 2, 2, 0), Quoted(3, 3, 3, 1), Quoted(2, 2, 3, 1),
     Quoted(2, 2, 2, 3), Quoted(3, 3, 3, 3), Quoted(5, 2, 3, 1), Quoted(2, 3, 2, 0),
     [Quoted(2, 2, 2, 0) EXCEPT !.sound = FALSE]}
SharedOrOwn == {[f \in Feeds |-> v1], [f \in Feeds |-> IF f = 1 THEN v1 ELSE v2]}

\* Rows of five days, prices that move by a tenth, and quotes with and without a spread.
HistoryRow(d, s, p, spread, depth) ==
    [day |-> d, symbol |-> s, price |-> p, bid |-> p - spread, ask |-> p + spread,
     depth |-> depth]
SmallHistory ==
    <<HistoryRow(1, "a", 1000, 10, 0), HistoryRow(2, "a", 1000, 0, 1),
      HistoryRow(2, "b", 500, 10, 1), HistoryRow(3, "a", 1100, 10, 0),
      HistoryRow(4, "b", 600, 0, 0), HistoryRow(4, "a", 900, 10, 1),
      HistoryRow(5, "a", 1000, 0, 1)>>

\* Every tick, every second, two of three, and a symbol that is traded for three days.
SmallLearnable == {1..72, {i \in 1..72 : i % 2 = 0}, {i \in 1..72 : i % 3 # 0}, 1..30}

\* The dispatch loops are alike in the filter and in the pipeline.
LoopSymmetry == Permutations(Loops)

MCInit ==
    /\ part \in {"filter", "pipeline", "clock", "backtest", "backfill", "training"}
    /\ FilterInit /\ PipelineInit /\ ClockInit /\ BacktestInit /\ BackfillInit /\ TrainingInit
    /\ part # "training" => learnable = 1..72
    /\ part # "clock" => now = 0
    /\ part # "filter" => validator = [f \in Feeds |-> v1]

OthersStay ==
    /\ UNCHANGED part
    /\ part # "filter" => UNCHANGED filterVars
    /\ part # "pipeline" => UNCHANGED pipelineVars
    /\ part # "clock" => UNCHANGED clockVars
    /\ part # "backtest" => UNCHANGED backtestVars
    /\ part # "backfill" => UNCHANGED backfillVars
    /\ part # "training" => UNCHANGED trainingVars

MCNext ==
    \/ part = "filter" /\ FilterNext /\ OthersStay
    \/ part = "pipeline" /\ PipelineNext /\ OthersStay
    \/ part = "clock" /\ ClockNext /\ OthersStay
    \/ part = "backtest" /\ BacktestNext /\ OthersStay
    \/ part = "backfill" /\ BackfillNext /\ OthersStay
    \/ part = "training" /\ TrainingNext /\ OthersStay

vars == <<part, filterVars, pipelineVars, clockVars, backtestVars, backfillVars,
          trainingVars>>
MCSpec == MCInit /\ [][MCNext]_vars
=============================================================================
