------------------------------ MODULE Training ------------------------------
(* strategies/ml_directional/trainer.py: which ticks a model learns from, on    *)
(* which it is validated and tested, and which model is saved. A label looks at *)
(* the price some ticks later, so that a row stands for a stretch of ticks.     *)
EXTENDS Integers, FiniteSets

CONSTANTS
    TicksPerDay,    \* ticks of the symbol, the same number each day
    Learnable,      \* sets of ticks with features whose price will have changed
    Ahead,          \* shift(-60): ticks that a label looks ahead
    MaxGap,         \* 300
    Splits,         \* n_splits
    MinRows,        \* 100
    TotalDays,      \* total_days
    TrainDays, TestDays, TrialStep      \* train_window, test_window, step

ASSUME TrainingAssumption ==
    /\ {TicksPerDay, Splits, TrialStep} \subseteq Nat \ {0}
    /\ {Ahead, MaxGap, MinRows, TotalDays, TrainDays, TestDays} \subseteq Nat
    /\ Ahead <= MaxGap
    /\ \A rows \in Learnable : IsFiniteSet(rows) /\ rows \subseteq Nat \ {0}

VARIABLES
    learnable,      \* the ticks with features and a changed price
    current,        \* current, in days from start
    trial,          \* fold, which compute_dsr takes for the number of trials
    learnt,         \* rows that the model at hand was trained on
    onnx            \* the model in <symbol>_directional_<today>.onnx: its trial and, as
                    \* history, what it learnt and was tested on, and from which day

trainingVars == <<learnable, current, trial, learnt, onnx>>

NoModel == [trial |-> 0, learnt |-> {}, tested |-> {}, from |-> 0]

TrainingInit ==
    /\ learnable \in Learnable
    /\ current = 0 /\ trial = 0 /\ learnt = {} /\ onnx = NoModel

-----------------------------------------------------------------------------
DayOf(i) == (i - 1) \div TicksPerDay

\* Both days are inclusive; the label of a row looks at a tick of the same query.
PrepareTrainingData(first, last) ==
    {i \in learnable : first <= DayOf(i) /\ DayOf(i + Ahead) <= last}

\* ORDER BY timestamp: row k of X, from 0.
InOrder(rows) ==
    [k \in 0..Cardinality(rows) - 1 |->
        CHOOSE i \in rows : Cardinality({m \in rows : m < i}) = k]

Smaller(a, b) == IF a < b THEN a ELSE b
GapSize(n) == Smaller(MaxGap, n \div 10)

ValStart(n, fold) == fold * (n \div Splits)
ValidationRows(n, fold) == {k \in 0..n - 1 : ValStart(n, fold) <= k /\ k < ValStart(n, fold + 1)}

\* Slip: the gap is left before the validation rows only.
TrainRowsBefore(n, fold) ==
    {k \in 0..n - 1 : k < ValStart(n, fold) - GapSize(n) \/ ValStart(n, fold + 1) <= k}

TrainRows(n, fold) ==
    {k \in 0..n - 1 : \/ k < ValStart(n, fold) - GapSize(n)
                      \/ ValStart(n, fold + 1) + GapSize(n) <= k}

-----------------------------------------------------------------------------
\* The loop of run_walk_forward, as long as a test window ends in time. A query that
\* fails finds no rows, and no library no model: the trial counts all the same.
SkipTrial ==
    /\ learnt = {} /\ current + TrainDays + TestDays <= TotalDays
    /\ trial' = trial + 1 /\ current' = current + TrialStep
    /\ UNCHANGED <<learnable, learnt, onnx>>

TrainModel ==
    /\ learnt = {} /\ current + TrainDays + TestDays <= TotalDays
    /\ LET rows == PrepareTrainingData(current, current + TrainDays)
       IN  rows # {} /\ Cardinality(rows) >= MinRows /\ learnt' = rows
    /\ trial' = trial + 1
    /\ UNCHANGED <<learnable, current, onnx>>

\* The test. A model with a good ratio, which the first trial always has, replaces
\* the one that an earlier trial of today has left, if it can be converted.
TestModel(saved) ==
    /\ learnt # {} /\ learnt' = {} /\ current' = current + TrialStep
    /\ LET from == current + TrainDays
           rows == PrepareTrainingData(from, from + TestDays)
       IN  /\ saved => rows # {}
           /\ onnx' = IF saved
                      THEN [trial |-> trial, learnt |-> learnt, tested |-> rows, from |-> from]
                      ELSE onnx
    /\ UNCHANGED <<learnable, trial>>

TrainingNext == SkipTrial \/ TrainModel \/ \E saved \in BOOLEAN : TestModel(saved)

TrainingSpec == TrainingInit /\ [][TrainingNext]_trainingVars

-----------------------------------------------------------------------------
Looks(i) == i..i + Ahead
Unseen(i, j) == Looks(i) \cap Looks(j) = {}

\* What a model is judged on it has not seen. With ten times as many rows as a label
\* looks ahead, no row of a training fold, nor its label, is at a tick that a
\* validation row looks at; and of the rows that a saved model was tested on, only
\* those of the first test day, which is the last training day, share ticks with
\* those it was trained on.
JudgedOnUnseen ==
    /\ Cardinality(learnt) >= 10 * Ahead =>
         LET X == InOrder(learnt)
             n == Cardinality(learnt)
         IN  \A fold \in 0..Splits - 1 :
               \A i \in TrainRows(n, fold), j \in ValidationRows(n, fold) :
                  Unseen(X[i], X[j])
    /\ \A i \in onnx.learnt, j \in onnx.tested :
          Unseen(i, j) \/ DayOf(j) = onnx.from
=============================================================================
