---------------------------- MODULE MCKillSwitch ----------------------------
(* KillSwitch for TLC: one passive signal, in one slice or in two, one leg, and *)
(* the coroutines these orders can need.                                        *)
EXTENDS KillSwitch

CONSTANTS s1, l1, r1

OneSlice  == {<<s1, 1>>}
TwoSlices == {<<s1, 1>>, <<s1, 2>>}

Halfway == [s \in Signals |-> 5]

ActorCalls == ({"upgrade"} \X {1} \X Orders)
                \cup ({"kill"} \X (1..MaxActivations) \X Orders) \cup Reporters
=============================================================================
