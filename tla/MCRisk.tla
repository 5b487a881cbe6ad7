------------------------------- MODULE MCRisk -------------------------------
(* Small instances of three components that read Redis key by key. They share   *)
(* no state, so a behaviour moves only the one that part names.                 *)
EXTENDS RiskMonitor, Exposure, Greeks

CONSTANTS k1, k2

VARIABLE part

SmallProfits == {-1, 0, 1}
SmallLimit == [s \in Strategies |-> IF s = k1 THEN 5 ELSE 100]
SmallAlloc == [s \in Strategies |-> 10]

SmallOrder == [s \in Signals |->
    CASE s = 1 -> [key |-> k1, qty |-> -1, price |-> 1]
      [] s = 2 -> [key |-> k2, qty |-> -2, price |-> 1]
      [] s = 3 -> [key |-> k1, qty |-> 1, price |-> 2]]
SmallPosition == [k \in Keys |-> 2]

MCInit ==
    /\ part \in {"monitor", "exposure", "greeks"}
    /\ MonitorInit /\ ExposureInit /\ GreeksInit

MCNext ==
    \/ part = "monitor" /\ MonitorNext /\ UNCHANGED <<exposureVars, greeksVars>>
    \/ part = "exposure" /\ ExposureNext /\ UNCHANGED <<monitorVars, greeksVars>>
    \/ part = "greeks" /\ GreeksNext /\ UNCHANGED <<monitorVars, exposureVars>>

vars == <<part, monitorVars, exposureVars, greeksVars>>

MCSpec ==
    MCInit /\ [][MCNext /\ UNCHANGED part]_vars /\ (part = "monitor" => MonitorFairness)
=============================================================================
