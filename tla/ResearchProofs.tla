---------------------------- MODULE ResearchProofs ----------------------------
(* The components between the ticks, the features and the stored history, each  *)
(* by itself: what a signal rests on and where the rows are, for any features,  *)
(* loops and faults; what a buffer of ticks looks like behind the validators,    *)
(* and what the loops over it compute; what a backfill leaves; what a model is   *)
(* judged on; and how long a caller waits for the market to open.               *)
EXTENDS FeaturePipeline, Microstructure, Backfill, Training, MarketClock,
        FiniteSetTheorems, WellFoundedInduction, TLAPS

-----------------------------------------------------------------------------
(* The feature pipeline.                                                        *)
Reading == [Features -> Nat]
Passes == [pc : {"idle", "write", "read", "spread"}, tick : Nat, writes : SUBSET Features,
           reads : SUBSET Features, read : Reading, disturbed : BOOLEAN]

PipelineTypeOK ==
    /\ tickCount \in Nat /\ stored \in Reading /\ pass \in [Loops -> Passes]
    /\ position \in BOOLEAN /\ open \in Int /\ forgotten \in Nat

\* A pass that is past its writes has none left. If nobody disturbed it, it finds in
\* Redis what it has written itself, and has read nothing else; the spread is read
\* again when all the rest has been read.
Clean(p, redis) ==
    /\ p.pc # "write" => p.writes = {}
    /\ p.pc # "idle" /\ ~p.disturbed =>
          /\ \A f \in Features \ p.writes : redis[f] = p.tick
          /\ p.pc # "write" => \A f \in Features \ p.reads : p.read[f] = p.tick
          /\ p.pc = "spread" => p.reads = {}

\* Two passes that still write are of different ticks, and what a pass has yet
\* to write was never made.
TicksDiffer ==
    /\ \A l \in Loops : pass[l].tick <= tickCount
    /\ \A l, m \in Loops :
         l # m /\ pass[l].writes # {} /\ pass[m].writes # {} => pass[l].tick # pass[m].tick
    /\ \A n \in Nat, f \in Features : <<n, f>> \in made => n <= tickCount
    /\ \A l \in Loops : \A f \in pass[l].writes : <<pass[l].tick, f>> \notin made

\* The four places of a row have none in common.
InOnePlace ==
    /\ IsFiniteSet(batch) /\ IsFiniteSet(flushing) /\ IsFiniteSet(saved) /\ IsFiniteSet(lost)
    /\ batch \cap flushing = {} /\ (batch \cup flushing) \cap saved = {}
    /\ (batch \cup flushing \cup saved) \cap lost = {}
    /\ made = batch \cup flushing \cup saved \cup lost

PipelineInv ==
    /\ PipelineTypeOK /\ OneTickFeatures /\ EntriesAlternate
    /\ \A l \in Loops : Clean(pass[l], stored)
    /\ TicksDiffer /\ InOnePlace

-----------------------------------------------------------------------------
\* A pass by its fields.
LEMMA PassFields ==
    ASSUME PipelineTypeOK, NEW l \in Loops
    PROVE  /\ pass[l].pc \in {"idle", "write", "read", "spread"} /\ pass[l].tick \in Nat
           /\ pass[l].writes \in SUBSET Features /\ pass[l].reads \in SUBSET Features
           /\ pass[l].read \in Reading /\ pass[l].disturbed \in BOOLEAN
  BY DEF PipelineTypeOK, Passes

LEMMA NoPassFields ==
    /\ NoPass \in Passes /\ NoPass.pc = "idle" /\ NoPass.tick = 0
    /\ NoPass.writes = {} /\ NoPass.reads = {} /\ NoPass.read = Unread
    /\ Unread \in Reading
<1>1. Unread \in Reading
  BY DEF Unread, Reading
<1>2. QED
  BY <1>1 DEF NoPass, Passes

LEMMA ToStrategyFields ==
    ASSUME NEW p \in Passes
    PROVE  /\ ToStrategy(p) \in Passes /\ ToStrategy(p).pc = "read"
           /\ ToStrategy(p).tick = p.tick /\ ToStrategy(p).writes = {}
           /\ ToStrategy(p).reads = Features /\ ToStrategy(p).read = p.read
           /\ ToStrategy(p).disturbed = p.disturbed
  BY DEF ToStrategy, Passes

LEMMA PipelineInitInv == PipelineInit => PipelineInv
<1> SUFFICES ASSUME PipelineInit PROVE PipelineInv
  OBVIOUS
<1> USE DEF PipelineInit
<1>1. PipelineTypeOK
  <2>1. stored \in Reading
    BY NoPassFields
  <2>2. pass \in [Loops -> Passes]
    BY NoPassFields
  <2>3. position \in BOOLEAN
    OBVIOUS
  <2>4. tickCount \in Nat /\ open \in Int /\ forgotten \in Nat
    OBVIOUS
  <2>5. QED
    BY <2>1, <2>2, <2>3, <2>4 DEF PipelineTypeOK
<1>2. OneTickFeatures
  <2>1. basis.spread = 0 /\ basis.tick = 0 /\ basis.read = Unread
    BY DEF NoBasis
  <2>2. QED
    BY <2>1 DEF OneTickFeatures, Unread
<1>3. EntriesAlternate
  BY DEF EntriesAlternate
<1>4. \A l \in Loops : Clean(pass[l], stored)
  BY NoPassFields DEF Clean
<1>5. TicksDiffer
  BY NoPassFields DEF TicksDiffer
<1>6. InOnePlace
  BY FS_EmptySet DEF InOnePlace
<1>7. QED
  BY <1>1, <1>2, <1>3, <1>4, <1>5, <1>6 DEF PipelineInv

-----------------------------------------------------------------------------
\* An action that gives one pass a new value, writes nothing to Redis and makes
\* no row keeps what is said of passes.
LEMMA OnePass ==
    ASSUME PipelineInv, NEW l \in Loops, NEW p \in Passes,
           pass' = [pass EXCEPT ![l] = p], stored' = stored, made' = made,
           tickCount' \in Nat, tickCount <= tickCount',
           Clean(p, stored), p.tick <= tickCount',
           \/ p.writes = {}
           \/ p.tick = tickCount + 1
    PROVE  /\ pass' \in [Loops -> Passes]
           /\ \A m \in Loops : Clean(pass[m], stored)'
           /\ TicksDiffer'
<1>1. pass \in [Loops -> Passes] /\ tickCount \in Nat
  BY DEF PipelineInv, PipelineTypeOK
<1>2. pass' \in [Loops -> Passes]
  BY <1>1
<1>3. pass'[l] = p /\ \A m \in Loops \ {l} : pass'[m] = pass[m]
  BY <1>1
<1>4. \A m \in Loops : Clean(pass'[m], stored)
  BY <1>3 DEF PipelineInv
<1>5. \A m \in Loops : pass[m].tick \in Nat /\ p.tick \in Nat /\ p.writes \subseteq Features
  BY PassFields DEF PipelineInv, Passes
<1>6. TicksDiffer'
  <2>1. \A m \in Loops : pass'[m].tick <= tickCount'
    BY <1>1, <1>3, <1>5 DEF PipelineInv, TicksDiffer
  <2>2. \A m \in Loops \ {l} : p.writes # {} => pass[m].tick # p.tick
    BY <1>1, <1>5 DEF PipelineInv, TicksDiffer
  <2>3. \A m, n \in Loops :
          m # n /\ pass'[m].writes # {} /\ pass'[n].writes # {} => pass'[m].tick # pass'[n].tick
    BY <1>3, <2>2 DEF PipelineInv, TicksDiffer
  <2>4. \A n \in Nat, f \in Features : <<n, f>> \in made => n <= tickCount /\ n <= tickCount'
    BY <1>1 DEF PipelineInv, TicksDiffer
  <2>5. \A f \in p.writes : <<p.tick, f>> \notin made
    BY <1>1, <1>5, <2>4
  <2>6. \A m \in Loops : \A f \in pass'[m].writes : <<pass'[m].tick, f>> \notin made
    BY <1>3, <2>5 DEF PipelineInv, TicksDiffer
  <2>7. QED
    BY <2>1, <2>3, <2>4, <2>6 DEF TicksDiffer
<1>7. QED
  BY <1>2, <1>4, <1>6

\* A new tick: its pass has everything to write, or is disturbed from the start.
LEMMA OnTickKeeps ==
    ASSUME PipelineInv, NEW l \in Loops, NEW failed \in SUBSET Features, OnTick(l, failed)
    PROVE  PipelineInv'
<1> DEFINE p == [NoPass EXCEPT !.tick = tickCount + 1]
           early == [ToStrategy(p) EXCEPT !.disturbed = TRUE]
           full == [p EXCEPT !.pc = "write", !.writes = Features \ failed,
                             !.disturbed = failed # {}]
           next == IF rows' < MinHistory THEN early ELSE full
<1>1. /\ tickCount' = tickCount + 1 /\ stored' = stored /\ made' = made
      /\ UNCHANGED <<position, batch, flushing, saved, basis, lost, open, forgotten>>
  BY DEF OnTick, pipelineRows, pipelineHistory
<1>2. pass' = [pass EXCEPT ![l] = next]
  BY <1>1 DEF OnTick
<1>3. tickCount \in Nat
  BY DEF PipelineInv, PipelineTypeOK
<1>4. p \in Passes /\ p.tick = tickCount + 1
  BY <1>3, NoPassFields DEF Passes
<1>5. early \in Passes /\ early.writes = {} /\ early.disturbed /\ early.tick = tickCount + 1
  <2>1. ToStrategy(p) \in Passes /\ ToStrategy(p).writes = {} /\ ToStrategy(p).tick = tickCount + 1
    BY <1>4, ToStrategyFields
  <2>2. QED
    BY <2>1 DEF Passes
<1>6. /\ full \in Passes /\ full.pc = "write" /\ full.writes = Features \ failed
      /\ full.disturbed = (failed # {}) /\ full.tick = tickCount + 1
  BY <1>4 DEF Passes
<1>7. Clean(early, stored) /\ Clean(full, stored)
  BY <1>5, <1>6 DEF Clean
<1>8. next \in Passes /\ Clean(next, stored) /\ next.tick = tickCount + 1
  BY <1>5, <1>6, <1>7
<1>9. tickCount' \in Nat /\ tickCount <= tickCount' /\ next.tick <= tickCount'
  BY <1>1, <1>3, <1>8
<1>10. pass' \in [Loops -> Passes] /\ (\A m \in Loops : Clean(pass[m], stored)') /\ TicksDiffer'
  <2> HIDE DEF next
  <2>1. QED
    BY <1>1, <1>2, <1>8, <1>9, OnePass
<1>11. PipelineTypeOK'
  BY <1>1, <1>9, <1>10 DEF PipelineInv, PipelineTypeOK
<1>12. OneTickFeatures' /\ EntriesAlternate' /\ InOnePlace'
  BY <1>1 DEF PipelineInv, OneTickFeatures, EntriesAlternate, InOnePlace
<1>13. QED
  BY <1>10, <1>11, <1>12 DEF PipelineInv

\* Its feature is what Redis has now, and other passes under way are disturbed.
LEMMA WriteFeatureKeeps ==
    ASSUME PipelineInv, NEW l \in Loops, NEW f \in Features, WriteFeature(l, f)
    PROVE  PipelineInv'
<1> DEFINE rest == pass[l].writes \ {f}
           written == [pass[l] EXCEPT !.writes = rest]
           row == <<pass[l].tick, f>>
           disturbed(m) == [pass[m] EXCEPT !.disturbed = @ \/ pass[m].pc # "idle"]
<1>1. /\ pass[l].pc = "write" /\ f \in pass[l].writes
      /\ stored' = [stored EXCEPT ![f] = pass[l].tick]
      /\ batch' = batch \cup {row} /\ made' = made \cup {row}
      /\ UNCHANGED <<tickCount, position, flushing, saved, basis, lost, open, forgotten>>
  BY DEF WriteFeature, NextToWrite, IsAt
<1>2. pass' = [m \in Loops |-> IF m = l THEN written ELSE disturbed(m)]
  BY DEF WriteFeature, Disturb
<1>3. pass'[l] = written /\ \A m \in Loops \ {l} : pass'[m] = disturbed(m)
  BY <1>2
<1>4. pass[l] \in Passes /\ tickCount \in Nat /\ stored \in Reading
  BY DEF PipelineInv, PipelineTypeOK
<1>5. /\ written \in Passes /\ written.writes = rest /\ written.tick = pass[l].tick
      /\ written.pc = "write" /\ written.disturbed = pass[l].disturbed
  BY <1>1, <1>4 DEF Passes
<1>6. ASSUME NEW m \in Loops
      PROVE  /\ disturbed(m) \in Passes /\ disturbed(m).writes = pass[m].writes
             /\ disturbed(m).tick = pass[m].tick /\ disturbed(m).pc = pass[m].pc
             /\ pass[m].pc = "idle" \/ disturbed(m).disturbed
  <2>1. pass[m] \in Passes
    BY DEF PipelineInv, PipelineTypeOK
  <2>2. (pass[m].disturbed \/ pass[m].pc # "idle") \in BOOLEAN
    OBVIOUS
  <2>3. QED
    BY <2>1, <2>2 DEF Passes
<1>7. PipelineTypeOK'
  <2>1. pass' \in [Loops -> Passes]
    BY <1>2, <1>5, <1>6
  <2>2. stored' \in Reading
    BY <1>1, <1>4 DEF Reading, Passes
  <2>3. QED
    BY <1>1, <2>1, <2>2 DEF PipelineInv, PipelineTypeOK
<1>8. \A m \in Loops : Clean(pass[m], stored)'
  <2>1. Clean(written, stored')
    <3>1. \A g \in Features \ rest : stored'[g] = IF g = f THEN pass[l].tick ELSE stored[g]
      BY <1>1, <1>4 DEF Reading
    <3>2. ~pass[l].disturbed => \A g \in Features \ pass[l].writes : stored[g] = pass[l].tick
      BY <1>1 DEF PipelineInv, Clean
    <3>3. ~pass[l].disturbed => \A g \in Features \ rest : stored'[g] = pass[l].tick
      BY <3>1, <3>2
    <3>4. QED
      BY <1>5, <3>3 DEF Clean
  <2>2. \A m \in Loops \ {l} : Clean(disturbed(m), stored')
    <3>1. \A m \in Loops : pass[m].pc # "write" => pass[m].writes = {}
      BY DEF PipelineInv, Clean
    <3> HIDE DEF disturbed
    <3>2. QED
      BY <1>6, <3>1 DEF Clean
  <2> HIDE DEF written, disturbed
  <2>3. QED
    BY <1>3, <2>1, <2>2 DEF Clean
<1>9. TicksDiffer'
  <2>1. \A m \in Loops : /\ pass'[m].tick = pass[m].tick
                         /\ pass'[m].writes = IF m = l THEN rest ELSE pass[m].writes
    <3> HIDE DEF written, disturbed
    <3>1. QED
      BY <1>3, <1>5, <1>6
  <2>2. \A m \in Loops : pass'[m].writes \subseteq pass[m].writes
    BY <2>1
  <2>3. \A m \in Loops : \A g \in pass'[m].writes : <<pass'[m].tick, g>> # row
    <3>1. \A m \in Loops \ {l} : pass[m].writes # {} => pass[m].tick # pass[l].tick
      BY <1>1 DEF PipelineInv, TicksDiffer
    <3>2. QED
      BY <2>1, <3>1
  <2>4. \A m \in Loops : \A g \in pass'[m].writes : <<pass'[m].tick, g>> \notin made'
    <3>1. \A m \in Loops : \A g \in pass'[m].writes : <<pass'[m].tick, g>> \notin made
      BY <2>1, <2>2 DEF PipelineInv, TicksDiffer
    <3>2. QED
      BY <1>1, <2>3, <3>1
  <2>5. \A n \in Nat, g \in Features : <<n, g>> \in made' => n <= tickCount'
    BY <1>1 DEF PipelineInv, TicksDiffer
  <2>6. \A m \in Loops : pass'[m].tick <= tickCount'
    BY <1>1, <2>1 DEF PipelineInv, TicksDiffer
  <2>7. \A m, n \in Loops :
          m # n /\ pass'[m].writes # {} /\ pass'[n].writes # {} => pass'[m].tick # pass'[n].tick
    <3>1. \A m \in Loops : pass'[m].writes # {} => pass[m].writes # {}
      BY <2>2
    <3>2. QED
      BY <2>1, <3>1 DEF PipelineInv, TicksDiffer
  <2>8. QED
    BY <2>4, <2>5, <2>6, <2>7 DEF TicksDiffer
<1>10. InOnePlace'
  <2>1. row \notin made
    BY <1>1 DEF PipelineInv, TicksDiffer
  <2>2. IsFiniteSet(batch')
    BY <1>1, FS_AddElement DEF PipelineInv, InOnePlace
  <2>3. QED
    BY <1>1, <2>1, <2>2 DEF PipelineInv, InOnePlace
<1>11. OneTickFeatures' /\ EntriesAlternate'
  BY <1>1 DEF PipelineInv, OneTickFeatures, EntriesAlternate
<1>12. QED
  BY <1>7, <1>8, <1>9, <1>10, <1>11 DEF PipelineInv

\* The way to the strategy, with all features written or after one that failed.
LEMMA ToStrategyKeeps ==
    ASSUME PipelineInv, NEW l \in Loops, EndWrites(l) \/ WriteFeatureFails(l)
    PROVE  PipelineInv'
<1> DEFINE on == ToStrategy(pass[l])
           hurt == [ToStrategy(pass[l]) EXCEPT !.disturbed = TRUE]
<1>1. UNCHANGED <<tickCount, stored, position, batch, flushing, saved, basis, made, lost, open, forgotten>>
  BY DEF EndWrites, WriteFeatureFails, pipelineRows, pipelineHistory
<1>2. pass[l] \in Passes /\ pass[l].pc = "write" /\ tickCount \in Nat
  BY DEF PipelineInv, PipelineTypeOK, EndWrites, WriteFeatureFails, IsAt
<1>3. /\ on \in Passes /\ on.pc = "read" /\ on.writes = {} /\ on.reads = Features
      /\ on.tick = pass[l].tick /\ on.disturbed = pass[l].disturbed
  BY <1>2, ToStrategyFields
<1>4. hurt \in Passes /\ hurt.writes = {} /\ hurt.disturbed /\ hurt.tick = pass[l].tick
  BY <1>3 DEF Passes
<1>5. pass[l].writes = {} => Clean(on, stored)
  BY <1>2, <1>3 DEF PipelineInv, Clean
<1>6. Clean(hurt, stored)
  BY <1>4 DEF Clean
<1>7. PICK p \in Passes : /\ pass' = [pass EXCEPT ![l] = p] /\ p.writes = {}
                          /\ p.tick = pass[l].tick /\ Clean(p, stored)
  <2>1. CASE EndWrites(l)
    BY <1>3, <1>5, <2>1 DEF EndWrites
  <2>2. CASE WriteFeatureFails(l)
    BY <1>4, <1>6, <2>2 DEF WriteFeatureFails
  <2>3. QED
    BY <2>1, <2>2
<1>8. tickCount' \in Nat /\ tickCount <= tickCount' /\ p.tick <= tickCount'
  BY <1>1, <1>2, <1>7 DEF PipelineInv, TicksDiffer
<1>9. pass' \in [Loops -> Passes] /\ (\A m \in Loops : Clean(pass[m], stored)') /\ TicksDiffer'
  BY <1>1, <1>7, <1>8, OnePass
<1>10. PipelineTypeOK'
  BY <1>1, <1>9 DEF PipelineInv, PipelineTypeOK
<1>11. OneTickFeatures' /\ EntriesAlternate' /\ InOnePlace'
  BY <1>1 DEF PipelineInv, OneTickFeatures, EntriesAlternate, InOnePlace
<1>12. QED
  BY <1>9, <1>10, <1>11 DEF PipelineInv

\* One more feature is read, as Redis has it.
LEMMA ReadFeatureKeeps ==
    ASSUME PipelineInv, NEW l \in Loops, NEW f \in Features, ReadFeature(l, f)
    PROVE  PipelineInv'
<1> DEFINE seen == [pass[l].read EXCEPT ![f] = stored[f]]
           rest == pass[l].reads \ {f}
           pc == IF pass[l].reads = {f} THEN "spread" ELSE "read"
           p == [pass[l] EXCEPT !.read = seen, !.reads = rest, !.pc = pc]
<1>1. UNCHANGED <<tickCount, stored, position, batch, flushing, saved, basis, made, lost, open, forgotten>>
  BY DEF ReadFeature, pipelineRows, pipelineHistory
<1>2. pass' = [pass EXCEPT ![l] = p]
  BY DEF ReadFeature
<1>3. /\ pass[l] \in Passes /\ pass[l].pc = "read" /\ f \in pass[l].reads
      /\ tickCount \in Nat /\ stored \in Reading /\ pass[l].read \in Reading
  BY PassFields DEF PipelineInv, PipelineTypeOK, ReadFeature, IsAt
<1>4. seen \in Reading /\ \A g \in Features : seen[g] = IF g = f THEN stored[f] ELSE pass[l].read[g]
  BY <1>3 DEF Reading
<1>5. pc \in {"read", "spread"} /\ (pc = "spread" => rest = {})
  OBVIOUS
<1>6. /\ p \in Passes /\ p.pc = pc /\ p.writes = pass[l].writes /\ p.reads = rest
      /\ p.tick = pass[l].tick /\ p.disturbed = pass[l].disturbed /\ p.read = seen
  <2> HIDE DEF seen, rest, pc
  <2>1. rest \in SUBSET Features
    BY <1>3 DEF rest, Passes
  <2>2. QED
    BY <1>3, <1>4, <1>5, <2>1 DEF Passes
<1>7. pass[l].writes = {}
  BY <1>3 DEF PipelineInv, Clean
<1>8. Clean(p, stored)
  <2>1. ASSUME ~pass[l].disturbed
        PROVE  /\ \A g \in Features : stored[g] = pass[l].tick
               /\ \A g \in Features \ pass[l].reads : pass[l].read[g] = pass[l].tick
    BY <1>3, <1>7, <2>1 DEF PipelineInv, Clean
  <2>2. ASSUME ~pass[l].disturbed PROVE \A g \in Features \ rest : seen[g] = pass[l].tick
    BY <1>4, <2>1, <2>2
  <2> HIDE DEF p, seen, rest, pc
  <2>3. QED
    BY <1>5, <1>6, <1>7, <2>1, <2>2 DEF Clean
<1>9. p.tick <= tickCount /\ p.writes = {}
  BY <1>6, <1>7 DEF PipelineInv, TicksDiffer
<1>10. pass' \in [Loops -> Passes] /\ (\A m \in Loops : Clean(pass[m], stored)') /\ TicksDiffer'
  <2> HIDE DEF p
  <2>1. stored' = stored /\ made' = made
    BY <1>1
  <2>2. tickCount' \in Nat /\ tickCount <= tickCount' /\ p.tick <= tickCount'
    BY <1>1, <1>3, <1>9
  <2>3. p \in Passes
    BY <1>6
  <2>4. QED
    BY <1>2, <1>8, <1>9, <2>1, <2>2, <2>3, OnePass
<1>11. PipelineTypeOK'
  BY <1>1, <1>10 DEF PipelineInv, PipelineTypeOK
<1>12. OneTickFeatures' /\ EntriesAlternate' /\ InOnePlace'
  BY <1>1 DEF PipelineInv, OneTickFeatures, EntriesAlternate, InOnePlace
<1>13. QED
  BY <1>10, <1>11, <1>12 DEF PipelineInv

\* A pass that ends leaves nothing to be said of it.
LEMMA PassEnds ==
    ASSUME PipelineInv, NEW l \in Loops, pass' = [pass EXCEPT ![l] = NoPass],
           stored' = stored, made' = made, tickCount' = tickCount
    PROVE  pass' \in [Loops -> Passes] /\ (\A m \in Loops : Clean(pass[m], stored)') /\ TicksDiffer'
<1>1. tickCount' \in Nat /\ tickCount <= tickCount' /\ NoPass.tick <= tickCount'
  BY NoPassFields DEF PipelineInv, PipelineTypeOK
<1>2. Clean(NoPass, stored)
  BY NoPassFields DEF Clean
<1>3. QED
  BY <1>1, <1>2, NoPassFields, OnePass

LEMMA NoSignalKeeps ==
    ASSUME PipelineInv, NEW l \in Loops, NoSignal(l)
    PROVE  PipelineInv'
<1>1. /\ pass' = [pass EXCEPT ![l] = NoPass]
      /\ UNCHANGED <<tickCount, stored, position, batch, flushing, saved, basis, made, lost, open, forgotten>>
  BY DEF NoSignal, pipelineRows, pipelineHistory
<1>2. pass' \in [Loops -> Passes] /\ (\A m \in Loops : Clean(pass[m], stored)') /\ TicksDiffer'
  BY <1>1, PassEnds
<1>3. PipelineTypeOK'
  BY <1>1, <1>2 DEF PipelineInv, PipelineTypeOK
<1>4. OneTickFeatures' /\ EntriesAlternate' /\ InOnePlace'
  BY <1>1 DEF PipelineInv, OneTickFeatures, EntriesAlternate, InOnePlace
<1>5. QED
  BY <1>2, <1>3, <1>4 DEF PipelineInv

\* The signal rests on what the pass has read, and on the spread as it is.
LEMMA SignalKeeps ==
    ASSUME PipelineInv, NEW l \in Loops, Signal(l)
    PROVE  PipelineInv'
<1>1. /\ pass[l].pc = "spread" /\ pass' = [pass EXCEPT ![l] = NoPass]
      /\ position' = ~position /\ open' = IF position THEN open - 1 ELSE open + 1
      /\ UNCHANGED <<tickCount, stored, batch, flushing, saved, made, lost, forgotten>>
  BY DEF Signal, IsAt, pipelineRows
<1>2. /\ basis'.tick = pass[l].tick /\ basis'.read = pass[l].read
      /\ basis'.spread = stored[SpreadZ] /\ basis'.disturbed = pass[l].disturbed
  BY DEF Signal
<1>3. pass' \in [Loops -> Passes] /\ (\A m \in Loops : Clean(pass[m], stored)') /\ TicksDiffer'
  BY <1>1, PassEnds
<1>4. OneTickFeatures'
  <2>1. SpreadZ \in Features
    BY PipelineAssumption DEF SpreadZ, Features
  <2>2. ~pass[l].disturbed => /\ stored[SpreadZ] = pass[l].tick
                              /\ \A f \in Features : pass[l].read[f] = pass[l].tick
    BY <1>1, <2>1 DEF PipelineInv, Clean
  <2>3. QED
    BY <1>2, <2>2 DEF OneTickFeatures
<1>5. position' \in BOOLEAN
  BY <1>1
<1>6. open' \in Int /\ forgotten' \in Nat /\ EntriesAlternate'
  <2>1. CASE position
    <3>1. open' = open - 1 /\ ~position' /\ forgotten' = forgotten
      BY <1>1, <2>1, Zenon
    <3>2. open = forgotten + 1 /\ open \in Int /\ forgotten \in Nat
      BY <2>1 DEF PipelineInv, PipelineTypeOK, EntriesAlternate
    <3>3. open' = forgotten' + 0 /\ open' \in Int /\ forgotten' \in Nat
      BY <3>1, <3>2
    <3>4. QED
      BY <3>1, <3>3 DEF EntriesAlternate
  <2>2. CASE ~position
    <3>1. open' = open + 1 /\ position' /\ forgotten' = forgotten
      BY <1>1, <2>2, Zenon
    <3>2. open = forgotten + 0 /\ open \in Int /\ forgotten \in Nat
      BY <2>2 DEF PipelineInv, PipelineTypeOK, EntriesAlternate
    <3>3. open' = forgotten' + 1 /\ open' \in Int /\ forgotten' \in Nat
      BY <3>1, <3>2
    <3>4. QED
      BY <3>1, <3>3 DEF EntriesAlternate
  <2>3. QED
    BY <2>1, <2>2
<1>7. PipelineTypeOK'
  BY <1>1, <1>3, <1>5, <1>6 DEF PipelineInv, PipelineTypeOK
<1>8. InOnePlace'
  BY <1>1 DEF PipelineInv, InOnePlace
<1>9. QED
  BY <1>3, <1>4, <1>6, <1>7, <1>8 DEF PipelineInv

\* The batch becomes the flush, and the flush the writer's.
LEMMA FlushKeeps ==
    ASSUME PipelineInv, StartFlush \/ EndFlush
    PROVE  PipelineInv'
<1>1. UNCHANGED <<tickCount, stored, pass, position, basis, made, lost, open, forgotten>>
  BY DEF StartFlush, EndFlush, pipelineHistory
<1>2. InOnePlace'
  <2>1. CASE StartFlush
    BY <1>1, <2>1, FS_EmptySet DEF StartFlush, PipelineInv, InOnePlace
  <2>2. CASE EndFlush
    <3>1. IsFiniteSet(saved') /\ IsFiniteSet(flushing') /\ IsFiniteSet(batch')
      BY <2>2, FS_EmptySet, FS_Union DEF EndFlush, PipelineInv, InOnePlace
    <3>2. QED
      BY <1>1, <2>2, <3>1 DEF EndFlush, PipelineInv, InOnePlace
  <2>3. QED
    BY <2>1, <2>2
<1>3. PipelineTypeOK' /\ OneTickFeatures' /\ EntriesAlternate' /\ TicksDiffer'
  BY <1>1 DEF PipelineInv, PipelineTypeOK, OneTickFeatures, EntriesAlternate, TicksDiffer
<1>4. \A l \in Loops : Clean(pass[l], stored)'
  BY <1>1 DEF PipelineInv, Clean
<1>5. QED
  BY <1>2, <1>3, <1>4 DEF PipelineInv

\* A key that expires disturbs every pass.
LEMMA FeatureExpiresKeeps ==
    ASSUME PipelineInv, NEW f \in Features, FeatureExpires(f)
    PROVE  PipelineInv'
<1> DEFINE disturbed(m) == [pass[m] EXCEPT !.disturbed = @ \/ pass[m].pc # "idle"]
<1>1. /\ stored' = [stored EXCEPT ![f] = 0]
      /\ UNCHANGED <<tickCount, position, batch, flushing, saved, basis, made, lost, open, forgotten>>
  BY DEF FeatureExpires, pipelineRows, pipelineHistory
<1>2. pass' = [m \in Loops |-> disturbed(m)]
  BY DEF FeatureExpires
<1>3. ASSUME NEW m \in Loops
      PROVE  /\ disturbed(m) \in Passes /\ disturbed(m).writes = pass[m].writes
             /\ disturbed(m).tick = pass[m].tick /\ disturbed(m).pc = pass[m].pc
             /\ pass[m].pc = "idle" \/ disturbed(m).disturbed
  <2>1. pass[m] \in Passes
    BY DEF PipelineInv, PipelineTypeOK
  <2>2. (pass[m].disturbed \/ pass[m].pc # "idle") \in BOOLEAN
    OBVIOUS
  <2>3. QED
    BY <2>1, <2>2 DEF Passes
<1> HIDE DEF disturbed
<1>4. \A m \in Loops : pass'[m] = disturbed(m)
  BY <1>2
<1>5. PipelineTypeOK'
  <2>1. pass' \in [Loops -> Passes]
    BY <1>2, <1>3
  <2>2. stored' \in Reading
    BY <1>1 DEF PipelineInv, PipelineTypeOK, Reading
  <2>3. QED
    BY <1>1, <2>1, <2>2 DEF PipelineInv, PipelineTypeOK
<1>6. \A m \in Loops : Clean(pass[m], stored)'
  <2>1. \A m \in Loops : pass[m].pc # "write" => pass[m].writes = {}
    BY DEF PipelineInv, Clean
  <2>2. QED
    BY <1>3, <1>4, <2>1 DEF Clean
<1>7. TicksDiffer'
  BY <1>1, <1>3, <1>4 DEF PipelineInv, TicksDiffer
<1>8. OneTickFeatures' /\ EntriesAlternate' /\ InOnePlace'
  BY <1>1 DEF PipelineInv, OneTickFeatures, EntriesAlternate, InOnePlace
<1>9. QED
  BY <1>5, <1>6, <1>7, <1>8 DEF PipelineInv

\* A crash loses the batch and what is flushed, and forgets the position.
LEMMA CrashKeeps ==
    ASSUME PipelineInv, CrashPipeline
    PROVE  PipelineInv'
<1>1. /\ pass' = [l \in Loops |-> NoPass] /\ position' = FALSE
      /\ lost' = lost \cup batch \cup flushing /\ batch' = {} /\ flushing' = {}
      /\ forgotten' = IF position THEN forgotten + 1 ELSE forgotten
      /\ UNCHANGED <<tickCount, stored, saved, basis, made, open>>
  BY DEF CrashPipeline
<1>2. pass' \in [Loops -> Passes] /\ \A l \in Loops : pass'[l] = NoPass
  BY <1>1, NoPassFields
<1>3. position' \in BOOLEAN
  BY <1>1
<1>4. forgotten' \in Nat /\ EntriesAlternate'
  BY <1>1 DEF PipelineInv, PipelineTypeOK, EntriesAlternate
<1>5. PipelineTypeOK'
  BY <1>1, <1>2, <1>3, <1>4 DEF PipelineInv, PipelineTypeOK
<1>6. \A l \in Loops : Clean(pass[l], stored)'
  BY <1>2, NoPassFields DEF Clean
<1>7. TicksDiffer'
  <2>1. \A n \in Nat, f \in Features : <<n, f>> \in made' => n <= tickCount'
    BY <1>1 DEF PipelineInv, TicksDiffer
  <2>2. \A l \in Loops : pass'[l].tick <= tickCount' /\ pass'[l].writes = {}
    BY <1>1, <1>2, NoPassFields DEF PipelineInv, PipelineTypeOK
  <2>3. QED
    BY <2>1, <2>2 DEF TicksDiffer
<1>8. InOnePlace'
  <2>1. IsFiniteSet(lost') /\ IsFiniteSet(batch') /\ IsFiniteSet(flushing')
    BY <1>1, FS_EmptySet, FS_Union DEF PipelineInv, InOnePlace
  <2>2. QED
    BY <1>1, <2>1 DEF PipelineInv, InOnePlace
<1>9. OneTickFeatures'
  BY <1>1 DEF PipelineInv, OneTickFeatures
<1>10. QED
  BY <1>4, <1>5, <1>6, <1>7, <1>8, <1>9 DEF PipelineInv

-----------------------------------------------------------------------------
\* The invariant of the pipeline: types, passes that find what they wrote, rows in
\* one place (features/pipeline.py:52-107, ml_directional/strategy.py:33-93).
THEOREM PipelineInductive == PipelineSpec => []PipelineInv
<1>1. ASSUME PipelineInv, [PipelineNext]_pipelineVars PROVE PipelineInv'
  <2>1. CASE UNCHANGED pipelineVars
    <3>1. UNCHANGED <<tickCount, stored, pass, position, batch, flushing, saved, basis, made, lost, open, forgotten>>
      BY <2>1 DEF pipelineVars, pipelineRows, pipelineHistory
    <3>2. PipelineTypeOK' /\ OneTickFeatures' /\ EntriesAlternate' /\ TicksDiffer' /\ InOnePlace'
      BY <1>1, <3>1 DEF PipelineInv, PipelineTypeOK, OneTickFeatures, EntriesAlternate, TicksDiffer, InOnePlace
    <3>3. \A l \in Loops : Clean(pass[l], stored)'
      BY <1>1, <3>1 DEF PipelineInv, Clean
    <3>4. QED
      BY <3>2, <3>3 DEF PipelineInv
  <2>2. CASE \E l \in Loops : \E failed \in SUBSET Features : OnTick(l, failed)
    BY <1>1, <2>2, OnTickKeeps
  <2>3. CASE \E l \in Loops : \E f \in Features : WriteFeature(l, f)
    BY <1>1, <2>3, WriteFeatureKeeps
  <2>4. CASE \E l \in Loops : \E f \in Features : ReadFeature(l, f)
    BY <1>1, <2>4, ReadFeatureKeeps
  <2>5. CASE \E l \in Loops : EndWrites(l) \/ WriteFeatureFails(l)
    BY <1>1, <2>5, ToStrategyKeeps
  <2>6. CASE \E l \in Loops : NoSignal(l)
    BY <1>1, <2>6, NoSignalKeeps
  <2>7. CASE \E l \in Loops : Signal(l)
    BY <1>1, <2>7, SignalKeeps
  <2>8. CASE StartFlush \/ EndFlush
    BY <1>1, <2>8, FlushKeeps
  <2>9. CASE \E f \in Features : FeatureExpires(f)
    BY <1>1, <2>9, FeatureExpiresKeeps
  <2>10. CASE CrashPipeline
    BY <1>1, <2>10, CrashKeeps
  <2>11. QED
    BY <1>1, <2>1, <2>2, <2>3, <2>4, <2>5, <2>6, <2>7, <2>8, <2>9, <2>10 DEF PipelineNext
<1>2. QED
  BY <1>1, PipelineInitInv, PTL DEF PipelineSpec

\* However many loops dispatch the ticks of a symbol, an undisturbed signal rests on
\* features of its own tick (features/pipeline.py:67-75, predictor.py:60-65).
THEOREM SignalsRestOnOneTick == PipelineSpec => []OneTickFeatures
<1>1. PipelineInv => OneTickFeatures
  BY DEF PipelineInv
<1>2. QED
  BY <1>1, PipelineInductive, PTL

\* No row is in two places or in none, and none is made twice: the counts add up
\* (features/pipeline.py:71-75, 100-107).
THEOREM RowsAreAccounted == PipelineSpec => []RowsAccounted
<1>1. ASSUME PipelineInv PROVE RowsAccounted
  <2>1. /\ IsFiniteSet(batch) /\ IsFiniteSet(flushing) /\ IsFiniteSet(saved) /\ IsFiniteSet(lost)
        /\ batch \cap flushing = {} /\ (batch \cup flushing) \cap saved = {}
        /\ (batch \cup flushing \cup saved) \cap lost = {}
        /\ made = batch \cup flushing \cup saved \cup lost
    BY <1>1 DEF PipelineInv, InOnePlace
  <2>2. \A S, T : IsFiniteSet(S) /\ IsFiniteSet(T) /\ S \cap T = {} =>
          /\ IsFiniteSet(S \cup T) /\ Cardinality(S \cup T) = Cardinality(S) + Cardinality(T)
    <3>1. TAKE S, T
    <3>2. HAVE IsFiniteSet(S) /\ IsFiniteSet(T) /\ S \cap T = {}
    <3>3. Cardinality(S) \in Nat /\ Cardinality(T) \in Nat /\ Cardinality(S \cap T) = 0
      BY <3>2, FS_CardinalityType, FS_EmptySet
    <3>4. /\ IsFiniteSet(S \cup T)
          /\ Cardinality(S \cup T) = Cardinality(S) + Cardinality(T) - Cardinality(S \cap T)
      BY <3>2, FS_Union
    <3>5. QED
      BY <3>3, <3>4
  <2>3. /\ IsFiniteSet(batch \cup flushing)
        /\ Cardinality(batch \cup flushing) = Cardinality(batch) + Cardinality(flushing)
    BY <2>1, <2>2
  <2>4. /\ IsFiniteSet(batch \cup flushing \cup saved)
        /\ Cardinality(batch \cup flushing \cup saved) =
             Cardinality(batch) + Cardinality(flushing) + Cardinality(saved)
    BY <2>1, <2>2, <2>3
  <2>5. Cardinality(made) = Cardinality(batch) + Cardinality(flushing)
                            + Cardinality(saved) + Cardinality(lost)
    BY <2>1, <2>2, <2>4
  <2>6. QED
    BY <2>1, <2>5 DEF RowsAccounted
<1>2. QED
  BY <1>1, PipelineInductive, PTL

\* Entries and exits alternate but for the positions a crash forgot
\* (ml_directional/strategy.py:52-93).
THEOREM EntriesAlwaysAlternate == PipelineSpec => []EntriesAlternate
<1>1. PipelineInv => EntriesAlternate
  BY DEF PipelineInv
<1>2. QED
  BY <1>1, PipelineInductive, PTL

-----------------------------------------------------------------------------
(* The tick filter.                                                             *)
FilterRows ==
    [from : Validators, nr : Nat, price : Nat, bid : Nat, ask : Nat, volume : Nat]

FilterShape ==
    /\ validator \in [Feeds -> Validators]
    /\ last \in [Validators -> [price : Nat, volume : Nat, nr : Nat]]
    /\ queue \in Seq(FilterRows) /\ ticks \in Seq(FilterRows)
    /\ inHand \in [Dispatchers -> Seq(FilterRows)]
    /\ \A d \in Dispatchers : Len(inHand[d]) <= 1
    /\ beside \in BOOLEAN

\* The events wherever they are: published, in hand, or rows of the buffer.
Members(s) == {s[i] : i \in 1..Len(s)}
Held == UNION {Members(inHand[d]) : d \in Dispatchers}
Everywhere == Members(queue) \cup Held \cup Members(ticks)

\* A validator remembers the last of its ticks, and none has more volume.
Remembered(events, memory) ==
    \A e \in events :
        /\ e \in FilterRows /\ e.price > 0
        /\ e.nr <= memory[e.from].nr /\ e.volume <= memory[e.from].volume
        /\ e.nr = memory[e.from].nr => e.price = memory[e.from].price

Chained(events) ==
    \A a, b \in events :
        a.from = b.from =>
          /\ a.nr < b.nr => a.volume <= b.volume
          /\ a.nr + 1 = b.nr => Distance(a.price, b.price) * 100 <= MaxMove * a.price

\* Without two loops beside each other nothing overtakes: the rows are older than the
\* one event in hand, and that is older than those in the queue.
Ordered(s) == \A i, j \in 1..Len(s) : i < j /\ s[i].from = s[j].from => s[i].nr < s[j].nr
Older(first, then) == \A a \in first, b \in then : a.from = b.from => a.nr < b.nr
InLine ==
    /\ Ordered(queue) /\ Ordered(ticks)
    /\ Older(Members(ticks), Held) /\ Older(Members(ticks), Members(queue))
    /\ Older(Held, Members(queue))
    /\ \A d, e \in Dispatchers : inHand[d] # <<>> /\ inHand[e] # <<>> => d = e

FilterInv ==
    /\ FilterShape /\ Remembered(Everywhere, last) /\ Chained(Everywhere)
    /\ ~beside => InLine

\* What LastRows keeps is the end of the rows.
LEMMA LastRowsShift ==
    ASSUME NEW buf \in Seq(FilterRows), buf # <<>>
    PROVE  /\ LastRows(buf) \in Seq(FilterRows)
           /\ \E m \in Nat : /\ m <= Len(buf) /\ Len(LastRows(buf)) = Len(buf) - m
                             /\ \A i \in 1..Len(buf) - m : LastRows(buf)[i] = buf[i + m]
<1> DEFINE n == Len(buf)
           c == Len(buf) - BufferSize + 1
           m == Max({1, c})
<1>1. n \in Nat \ {0} /\ c \in Int /\ c <= n
  BY FilterAssumption
<1>2. m \in Nat \ {0} /\ m <= n
  <2>1. \E x \in {1, c} : \A y \in {1, c} : x >= y
    <3>1. CASE c >= 1
      BY <1>1, <3>1
    <3>2. CASE ~(c >= 1)
      BY <1>1, <3>2
    <3>3. QED
      BY <3>1, <3>2
  <2>2. m \in {1, c} /\ \A y \in {1, c} : m >= y
    BY <2>1 DEF Max
  <2> HIDE DEF m, c, n
  <2>3. QED
    BY <1>1, <2>2
<1>3. LastRows(buf) = SubSeq(buf, m, n)
  BY DEF LastRows
<1> HIDE DEF m, n
<1>4. /\ SubSeq(buf, m, n) \in Seq(FilterRows) /\ Len(SubSeq(buf, m, n)) = n - (m - 1)
      /\ \A i \in 1..n - (m - 1) : SubSeq(buf, m, n)[i] = buf[i + (m - 1)]
  <2>1. \A i \in m..n : buf[i] \in FilterRows
    BY <1>2 DEF n
  <2>2. QED
    BY <1>1, <1>2, <2>1
<1>5. m - 1 \in Nat /\ m - 1 <= n
  BY <1>1, <1>2
<1>6. QED
  BY <1>3, <1>4, <1>5 DEF n

\* Events that are only moved, or lost, stay chained.
LEMMA FewerEvents ==
    ASSUME FilterInv, Everywhere' \subseteq Everywhere, last' = last
    PROVE  Remembered(Everywhere, last)' /\ Chained(Everywhere)'
<1>1. Remembered(Everywhere, last)'
  BY DEF FilterInv, Remembered
<1>2. Chained(Everywhere)'
  BY DEF FilterInv, Chained
<1>3. QED
  BY <1>1, <1>2

\* The members of what the operations make of a sequence.
LEMMA MembersOf ==
    ASSUME NEW s \in Seq(FilterRows)
    PROVE  /\ Members(s) \subseteq FilterRows
           /\ \A e \in FilterRows : Members(Append(s, e)) = Members(s) \cup {e}
           /\ s # <<>> => /\ Head(s) \in Members(s) /\ Tail(s) \in Seq(FilterRows)
                          /\ Members(Tail(s)) \subseteq Members(s)
<1>1. Len(s) \in Nat /\ \A i \in 1..Len(s) : s[i] \in FilterRows
  OBVIOUS
<1>2. ASSUME NEW e \in FilterRows PROVE Members(Append(s, e)) = Members(s) \cup {e}
  <2> DEFINE t == Append(s, e)
  <2>1. Len(t) = Len(s) + 1 /\ t[Len(s) + 1] = e /\ \A i \in 1..Len(s) : t[i] = s[i]
    OBVIOUS
  <2>2. 1..Len(s) + 1 = (1..Len(s)) \cup {Len(s) + 1}
    BY <1>1
  <2> HIDE DEF t
  <2>3. Members(t) = Members(s) \cup {e}
    BY <2>1, <2>2 DEF Members
  <2>4. QED
    BY <2>3 DEF t
<1>3. ASSUME s # <<>>
      PROVE  /\ Head(s) \in Members(s) /\ Tail(s) \in Seq(FilterRows)
             /\ Members(Tail(s)) \subseteq Members(s)
  <2>1. Len(s) > 0 /\ Head(s) = s[1] /\ Tail(s) \in Seq(FilterRows)
    BY <1>3
  <2>2. Len(Tail(s)) = Len(s) - 1 /\ \A i \in 1..Len(s) - 1 : Tail(s)[i] = s[i + 1]
    BY <1>3
  <2>3. \A i \in 1..Len(s) - 1 : i + 1 \in 1..Len(s)
    BY <1>1
  <2>4. Members(Tail(s)) \subseteq Members(s)
    BY <2>2, <2>3 DEF Members
  <2>5. 1 \in 1..Len(s)
    BY <1>1, <2>1
  <2>6. QED
    BY <2>1, <2>4, <2>5 DEF Members
<1>4. Members(s) \subseteq FilterRows
  BY <1>1 DEF Members
<1>5. QED
  BY <1>2, <1>3, <1>4

LEMMA NoMembers == Members(<<>>) = {}
<1>1. Len(<<>>) = 0 /\ 1..0 = {}
  OBVIOUS
<1>2. QED
  BY <1>1 DEF Members

\* A hand that is not empty holds one event.
LEMMA OneInHand ==
    ASSUME FilterShape, NEW d \in Dispatchers, inHand[d] # <<>>
    PROVE  \E e \in FilterRows : /\ inHand[d] = <<e>> /\ Members(inHand[d]) = {e} /\ e \in Held
                                 /\ e \in Everywhere
<1>1. inHand[d] \in Seq(FilterRows) /\ Len(inHand[d]) = 1
  <2>1. inHand[d] \in Seq(FilterRows) /\ Len(inHand[d]) <= 1
    BY DEF FilterShape
  <2>2. PICK s \in Seq(FilterRows) : s = inHand[d]
    BY <2>1
  <2>3. Len(s) \in Nat /\ (Len(s) = 0 => s = <<>>)
    OBVIOUS
  <2>4. Len(s) = 1
    <3>1. Len(s) # 0
      BY ONLY <2>2, <2>3, inHand[d] # <<>>
    <3>2. Len(s) <= 1
      BY <2>1, <2>2
    <3>3. PICK n \in Nat : n = Len(s)
      BY <2>3
    <3>4. n = 1
      BY ONLY <3>1, <3>2, <3>3
    <3>5. QED
      BY <3>3, <3>4
  <2>5. QED
    BY <2>1, <2>2, <2>4
<1>2. PICK e \in FilterRows : e = inHand[d][1] /\ inHand[d] = <<e>>
  BY <1>1
<1>3. Members(inHand[d]) = {e}
  BY <1>1, <1>2 DEF Members
<1>4. e \in Held
  BY <1>3 DEF Held
<1>5. QED
  BY <1>2, <1>3, <1>4 DEF Everywhere

LEMMA FilterInitInv == FilterInit => FilterInv
<1> SUFFICES ASSUME FilterInit PROVE FilterInv
  OBVIOUS
<1>1. /\ queue = <<>> /\ ticks = <<>> /\ inHand = [d \in Dispatchers |-> <<>>]
      /\ Len(<<>>) = 0 /\ <<>> \in Seq(FilterRows) /\ 1..0 = {}
  BY DEF FilterInit
<1>2. FilterShape
  <2>1. validator \in [Feeds -> Validators] /\ beside \in BOOLEAN
    BY FilterAssumption DEF FilterInit
  <2>2. last \in [Validators -> [price : Nat, volume : Nat, nr : Nat]]
    BY DEF FilterInit, NoTick
  <2>3. /\ inHand \in [Dispatchers -> Seq(FilterRows)]
        /\ \A d \in Dispatchers : inHand[d] = <<>> /\ Len(inHand[d]) <= 1
    BY <1>1
  <2>4. QED
    BY <1>1, <2>1, <2>2, <2>3 DEF FilterShape
<1>3. Everywhere = {} /\ Held = {} /\ Members(queue) = {} /\ Members(ticks) = {}
  BY <1>1, NoMembers DEF Everywhere, Held
<1>4. Remembered(Everywhere, last) /\ Chained(Everywhere)
  BY <1>3 DEF Remembered, Chained
<1>5. InLine
  BY <1>1, <1>3 DEF InLine, Ordered, Older
<1>6. QED
  BY <1>2, <1>4, <1>5 DEF FilterInv

\* A tick that its validator accepts continues the chain of the validator: whether or
\* not the event is published, the chain goes on from it.
LEMMA AcceptedContinues ==
    ASSUME FilterInv, NEW v \in Validators, NEW t \in Ticks, Accepts(v, t), Remember(v, t),
           NEW row \in FilterRows, row.from = v, row.price = t.price, row.volume = t.volume,
           row.nr = last[v].nr + 1, Everywhere' \subseteq Everywhere \cup {row}
    PROVE  /\ Remembered(Everywhere, last)' /\ Chained(Everywhere)'
           /\ last' \in [Validators -> [price : Nat, volume : Nat, nr : Nat]]
           /\ \A e \in Everywhere : e.from = v => e.nr < row.nr
<1>1. /\ t.price \in Nat \ {0} /\ t.volume \in Nat
      /\ \A u \in Validators : last[u].price \in Nat /\ last[u].volume \in Nat /\ last[u].nr \in Nat
      /\ last[v].volume <= t.volume
      /\ last[v].price > 0 => Distance(t.price, last[v].price) * 100 <= MaxMove * last[v].price
  BY FilterAssumption DEF FilterInv, FilterShape, Accepts, Sound, Follows
<1>2. /\ last' = [last EXCEPT ![v] = [price |-> t.price, volume |-> t.volume, nr |-> @.nr + 1]]
      /\ last \in [Validators -> [price : Nat, volume : Nat, nr : Nat]]
  BY DEF Remember, FilterInv, FilterShape
<1>3. /\ last'[v].price = t.price /\ last'[v].volume = t.volume /\ last'[v].nr = last[v].nr + 1
      /\ \A u \in Validators : u # v => last'[u] = last[u]
      /\ last' \in [Validators -> [price : Nat, volume : Nat, nr : Nat]]
  BY <1>1, <1>2
<1>4. \A e \in Everywhere :
        /\ e \in FilterRows /\ e.price > 0
        /\ e.nr <= last[e.from].nr /\ e.volume <= last[e.from].volume
        /\ e.nr = last[e.from].nr => e.price = last[e.from].price
  BY DEF FilterInv, Remembered
<1>5. \A e \in FilterRows : e.from \in Validators /\ e.nr \in Nat /\ e.volume \in Nat /\ e.price \in Nat
  BY DEF FilterRows
<1>6. ASSUME NEW e \in Everywhere'
      PROVE  /\ e \in FilterRows /\ e.price > 0
             /\ e.nr <= last'[e.from].nr /\ e.volume <= last'[e.from].volume
             /\ e.nr = last'[e.from].nr => e.price = last'[e.from].price
  <2>1. CASE e = row
    BY <1>1, <1>3, <1>5, <2>1
  <2>2. CASE e \in Everywhere /\ e.from = v
    BY <1>1, <1>3, <1>4, <1>5, <2>2
  <2>3. CASE e \in Everywhere /\ e.from # v
    BY <1>3, <1>4, <1>5, <2>3
  <2>4. QED
    BY <2>1, <2>2, <2>3
<1>7. \A e \in Everywhere : e.from = v => e.nr < row.nr
  BY <1>1, <1>4, <1>5
<1>8. ASSUME NEW a \in Everywhere', NEW b \in Everywhere', a.from = b.from
      PROVE  /\ a.nr < b.nr => a.volume <= b.volume
             /\ a.nr + 1 = b.nr => Distance(a.price, b.price) * 100 <= MaxMove * a.price
  <2>1. CASE a \in Everywhere /\ b \in Everywhere
    BY <1>8, <2>1 DEF FilterInv, Chained
  <2>2. CASE a = row
    <3>1. b.nr <= row.nr /\ b.nr \in Nat /\ row.nr \in Nat
      <4>1. row.nr \in Nat /\ b.from = v
        BY <1>5, <1>8, <2>2
      <4>2. CASE b = row
        BY <4>1, <4>2
      <4>3. CASE b \in Everywhere
        <5>1. b.nr < row.nr /\ b \in FilterRows
          BY <1>4, <1>7, <4>1, <4>3
        <5>2. QED
          BY <1>5, <4>1, <5>1
      <4>4. QED
        BY <4>2, <4>3
    <3>2. QED
      BY <2>2, <3>1
  <2>3. CASE a \in Everywhere /\ b = row
    <3>1. a.from = v /\ a.volume <= t.volume
      BY <1>1, <1>4, <1>5, <1>8, <2>3
    <3>2. ASSUME a.nr + 1 = b.nr
          PROVE  Distance(a.price, b.price) * 100 <= MaxMove * a.price
      <4>1. a.nr = last[v].nr
        <5>1. a.nr \in Nat /\ last[v].nr \in Nat
          BY <1>1, <1>4, <1>5, <2>3
        <5>2. QED
          BY <2>3, <3>2, <5>1
      <4>2. a.price = last[v].price /\ last[v].price > 0
        BY <1>4, <2>3, <3>1, <4>1
      <4>3. Distance(a.price, b.price) = Distance(t.price, last[v].price)
        BY <1>1, <2>3, <4>2 DEF Distance
      <4>4. QED
        BY <1>1, <4>2, <4>3
    <3>3. QED
      BY <2>3, <3>1, <3>2
  <2>4. QED
    BY <2>1, <2>2, <2>3
<1>9. Remembered(Everywhere, last)'
  BY <1>6 DEF Remembered
<1>10. Chained(Everywhere)'
  BY <1>8 DEF Chained
<1>11. QED
  BY <1>3, <1>7, <1>9, <1>10

LEMMA EmitTickKeeps ==
    ASSUME FilterInv, NEW f \in Feeds, NEW t \in Ticks, EmitTick(f, t) PROVE FilterInv'
<1> DEFINE v == validator[f]
           row == [from |-> v, nr |-> last[v].nr + 1, price |-> t.price, bid |-> t.bid,
                   ask |-> t.ask, volume |-> t.volume]
<1>1. /\ Accepts(v, t) /\ Remember(v, t) /\ queue' = Append(queue, row)
      /\ UNCHANGED <<validator, inHand, ticks, beside>>
  BY DEF EmitTick
<1>2. v \in Validators /\ last[v].nr \in Nat
  BY DEF FilterInv, FilterShape
<1>3. row \in FilterRows
  BY <1>2, FilterAssumption DEF FilterRows
<1>4. /\ row.from = v /\ row.price = t.price /\ row.volume = t.volume
      /\ row.nr = last[v].nr + 1
  OBVIOUS
<1> HIDE DEF v, row
<1>5. queue \in Seq(FilterRows) /\ queue' \in Seq(FilterRows) /\ Members(queue') = Members(queue) \cup {row}
  BY <1>1, <1>3, MembersOf DEF FilterInv, FilterShape
<1>6. Held' = Held /\ Members(ticks)' = Members(ticks) /\ Members(queue)' = Members(queue')
  BY <1>1 DEF Held, Members
<1>7. Everywhere' \subseteq Everywhere \cup {row}
  BY <1>5, <1>6 DEF Everywhere
<1>8. /\ Remembered(Everywhere, last)' /\ Chained(Everywhere)'
      /\ last' \in [Validators -> [price : Nat, volume : Nat, nr : Nat]]
      /\ \A e \in Everywhere : e.from = v => e.nr < row.nr
  BY <1>1, <1>2, <1>3, <1>4, <1>7, AcceptedContinues
<1>9. FilterShape'
  BY <1>1, <1>5, <1>8 DEF FilterInv, FilterShape
<1>10. ASSUME ~beside PROVE InLine'
  <2>1. InLine
    BY <1>10 DEF FilterInv
  <2>2. Ordered(queue)'
    <3>1. /\ Len(queue') = Len(queue) + 1 /\ queue'[Len(queue) + 1] = row /\ Len(queue) \in Nat
          /\ \A i \in 1..Len(queue) : queue'[i] = queue[i] /\ queue[i] \in Everywhere
      BY <1>1, <1>5 DEF Everywhere, Members
    <3>2. ASSUME NEW i \in 1..Len(queue'), NEW j \in 1..Len(queue'), i < j,
                 queue'[i].from = queue'[j].from
          PROVE  queue'[i].nr < queue'[j].nr
      <4>1. i \in 1..Len(queue)
        BY <3>1, <3>2
      <4>2. CASE j \in 1..Len(queue)
        BY <2>1, <3>1, <3>2, <4>1, <4>2 DEF InLine, Ordered
      <4>3. CASE j = Len(queue) + 1
        BY <1>4, <1>8, <3>1, <3>2, <4>1, <4>3
      <4>4. QED
        BY <3>1, <4>2, <4>3
    <3>3. QED
      BY <3>2 DEF Ordered
  <2>3. Ordered(ticks)' /\ Older(Members(ticks), Held)'
    BY <1>1, <1>6, <2>1 DEF InLine, Ordered, Older
  <2>4. Older(Members(ticks), Members(queue))' /\ Older(Held, Members(queue))'
    BY <1>4, <1>5, <1>6, <1>8, <2>1 DEF InLine, Older, Everywhere
  <2>5. QED
    BY <1>1, <2>1, <2>2, <2>3, <2>4 DEF InLine
<1>11. QED
  BY <1>1, <1>8, <1>9, <1>10 DEF FilterInv

LEMMA EmitFailsKeeps ==
    ASSUME FilterInv, NEW f \in Feeds, NEW t \in Ticks, EmitFails(f, t) PROVE FilterInv'
<1> DEFINE v == validator[f]
           row == [from |-> v, nr |-> last[v].nr + 1, price |-> t.price, bid |-> t.bid,
                   ask |-> t.ask, volume |-> t.volume]
<1>1. /\ Accepts(v, t) /\ Remember(v, t) /\ UNCHANGED <<validator, queue, inHand, ticks, beside>>
  BY DEF EmitFails
<1>2. v \in Validators /\ last[v].nr \in Nat
  BY DEF FilterInv, FilterShape
<1>3. row \in FilterRows
  BY <1>2, FilterAssumption DEF FilterRows
<1>4. /\ row.from = v /\ row.price = t.price /\ row.volume = t.volume
      /\ row.nr = last[v].nr + 1
  OBVIOUS
<1> HIDE DEF v, row
<1>5. Held' = Held /\ Members(ticks)' = Members(ticks) /\ Members(queue)' = Members(queue)
  BY <1>1 DEF Held, Members
<1>6. Everywhere' \subseteq Everywhere \cup {row}
  BY <1>5 DEF Everywhere
<1>7. /\ Remembered(Everywhere, last)' /\ Chained(Everywhere)'
      /\ last' \in [Validators -> [price : Nat, volume : Nat, nr : Nat]]
  BY <1>1, <1>2, <1>3, <1>4, <1>6, AcceptedContinues
<1>8. FilterShape'
  BY <1>1, <1>7 DEF FilterInv, FilterShape
<1>9. InLine' = InLine
  BY <1>1, <1>5 DEF InLine, Ordered, Older
<1>10. QED
  BY <1>1, <1>7, <1>8, <1>9 DEF FilterInv

LEMMA TakeEventKeeps ==
    ASSUME FilterInv, NEW d \in Dispatchers, TakeEvent(d) PROVE FilterInv'
<1> DEFINE event == Head(queue)
<1>1. /\ inHand[d] = <<>> /\ queue # <<>> /\ queue' = Tail(queue)
      /\ inHand' = [inHand EXCEPT ![d] = <<event>>]
      /\ UNCHANGED <<validator, last, ticks, accepted>>
  BY DEF TakeEvent
<1>2. /\ queue \in Seq(FilterRows) /\ Len(queue) \in Nat \ {0} /\ event = queue[1]
      /\ inHand \in [Dispatchers -> Seq(FilterRows)]
      /\ Len(queue') = Len(queue) - 1 /\ \A i \in 1..Len(queue) - 1 : queue'[i] = queue[i + 1]
  BY <1>1 DEF FilterInv, FilterShape
<1>3. /\ event \in Members(queue) /\ event \in FilterRows /\ queue' \in Seq(FilterRows)
      /\ Members(queue') \subseteq Members(queue)
  BY <1>1, <1>2, MembersOf
<1> HIDE DEF event
<1>4. <<event>> \in Seq(FilterRows) /\ Len(<<event>>) = 1 /\ Members(<<event>>) = {event}
  BY <1>3 DEF Members
<1>5. inHand'[d] = <<event>> /\ \A e \in Dispatchers \ {d} : inHand'[e] = inHand[e]
  BY <1>1, <1>2
<1>6. Held' \subseteq Held \cup {event} /\ Members(ticks)' = Members(ticks) /\ Members(queue)' = Members(queue')
  <2>1. \A e \in Dispatchers : Members(inHand'[e]) \subseteq Held \cup {event}
    BY <1>4, <1>5 DEF Held
  <2>2. Held' = UNION {Members(inHand'[e]) : e \in Dispatchers}
    BY DEF Held, Members
  <2>3. QED
    BY <1>1, <2>1, <2>2 DEF Members
<1>7. Everywhere' \subseteq Everywhere
  BY <1>3, <1>6 DEF Everywhere
<1>8. Remembered(Everywhere, last)' /\ Chained(Everywhere)'
  BY <1>1, <1>7, FewerEvents
<1>9. beside' = (beside \/ \E e \in Dispatchers : inHand[e] # <<>>)
  BY DEF TakeEvent
<1>10. FilterShape'
  <2>1. beside' \in BOOLEAN
    BY <1>9 DEF FilterInv, FilterShape
  <2>2. inHand' \in [Dispatchers -> Seq(FilterRows)] /\ \A e \in Dispatchers : Len(inHand'[e]) <= 1
    BY <1>1, <1>4, <1>5 DEF FilterInv, FilterShape
  <2>3. QED
    BY <1>1, <1>3, <2>1, <2>2 DEF FilterInv, FilterShape
<1>11. ASSUME ~beside' PROVE InLine'
  <2>1. InLine /\ \A e \in Dispatchers : inHand[e] = <<>>
    BY <1>9, <1>11 DEF FilterInv
  <2>2. Held' \subseteq {event}
    BY <1>6, <2>1, NoMembers DEF Held
  <2>3. Ordered(queue)'
    <3>1. \A i \in 1..Len(queue) - 1 : i + 1 \in 1..Len(queue)
      BY <1>2
    <3>2. ASSUME NEW i \in 1..Len(queue'), NEW j \in 1..Len(queue'), i < j,
                 queue'[i].from = queue'[j].from
          PROVE  queue'[i].nr < queue'[j].nr
      <4>1. i \in 1..Len(queue) - 1 /\ j \in 1..Len(queue) - 1
        BY <1>2
      <4>2. i + 1 \in 1..Len(queue) /\ j + 1 \in 1..Len(queue) /\ i + 1 < j + 1
        BY <3>1, <3>2, <4>1
      <4>3. queue'[i] = queue[i + 1] /\ queue'[j] = queue[j + 1]
        BY <1>2, <4>1
      <4>4. QED
        BY <2>1, <3>2, <4>2, <4>3 DEF InLine, Ordered
    <3>3. QED
      BY <3>2 DEF Ordered
  <2>4. Older({event}, Members(queue'))
    <3>1. ASSUME NEW b \in Members(queue'), event.from = b.from PROVE event.nr < b.nr
      <4>1. PICK i \in 1..Len(queue) - 1 : b = queue[i + 1]
        BY <1>2 DEF Members
      <4>2. 1 \in 1..Len(queue) /\ i + 1 \in 1..Len(queue) /\ 1 < i + 1
        BY <1>2
      <4>3. queue[1].from = queue[i + 1].from => queue[1].nr < queue[i + 1].nr
        BY <2>1, <4>2 DEF InLine, Ordered
      <4>4. event = queue[1] /\ b = queue[i + 1]
        BY <1>2, <4>1
      <4>5. QED
        BY <3>1, <4>3, <4>4
    <3>2. QED
      BY <3>1 DEF Older
  <2>5. Ordered(ticks)'
    BY <1>1, <2>1 DEF InLine, Ordered
  <2>6. Older(Members(ticks), Held)'
    BY <1>3, <1>6, <2>1, <2>2 DEF InLine, Older
  <2>7. Older(Members(ticks), Members(queue))'
    BY <1>3, <1>6, <2>1 DEF InLine, Older
  <2>8. Older(Held, Members(queue))'
    BY <1>6, <2>2, <2>4 DEF Older
  <2>9. \A e, g \in Dispatchers : inHand'[e] # <<>> /\ inHand'[g] # <<>> => e = g
    BY <1>5, <2>1
  <2>10. QED
    BY <2>3, <2>5, <2>6, <2>7, <2>8, <2>9 DEF InLine
<1>12. QED
  BY <1>8, <1>10, <1>11 DEF FilterInv

\* A loop that has nothing in hand any more.
LEMMA HandIsEmpty ==
    ASSUME FilterInv, NEW d \in Dispatchers, inHand[d] # <<>>,
           inHand' = [inHand EXCEPT ![d] = <<>>]
    PROVE  /\ inHand' \in [Dispatchers -> Seq(FilterRows)]
           /\ \A e \in Dispatchers : Len(inHand'[e]) <= 1
           /\ Held' \subseteq Held
           /\ ~beside => Held' = {} /\ \A e \in Dispatchers : inHand'[e] = <<>>
<1>1. /\ inHand \in [Dispatchers -> Seq(FilterRows)] /\ \A e \in Dispatchers : Len(inHand[e]) <= 1
      /\ <<>> \in Seq(FilterRows) /\ Len(<<>>) = 0
  BY DEF FilterInv, FilterShape
<1>2. inHand'[d] = <<>> /\ \A e \in Dispatchers \ {d} : inHand'[e] = inHand[e]
  BY <1>1
<1>3. Held' = UNION {Members(inHand'[e]) : e \in Dispatchers}
  BY DEF Held, Members
<1>4. \A e \in Dispatchers : Members(inHand'[e]) \subseteq Members(inHand[e])
  BY <1>2, NoMembers
<1>5. Held' \subseteq Held
  BY <1>3, <1>4 DEF Held
<1>6. ASSUME ~beside PROVE Held' = {} /\ \A e \in Dispatchers : inHand'[e] = <<>>
  <2>1. \A e \in Dispatchers \ {d} : inHand[e] = <<>>
    BY <1>6 DEF FilterInv, InLine
  <2>2. \A e \in Dispatchers : inHand'[e] = <<>>
    BY <1>2, <2>1
  <2>3. QED
    BY <1>3, <2>2, NoMembers
<1>7. inHand' \in [Dispatchers -> Seq(FilterRows)] /\ \A e \in Dispatchers : Len(inHand'[e]) <= 1
  BY <1>1, <1>2
<1>8. QED
  BY <1>5, <1>6, <1>7

LEMMA AppendTickKeeps ==
    ASSUME FilterInv, NEW d \in Dispatchers, AppendTick(d) PROVE FilterInv'
<1>1. /\ inHand[d] # <<>> /\ inHand' = [inHand EXCEPT ![d] = <<>>]
      /\ ticks' = LastRows(ticks \o inHand[d])
      /\ UNCHANGED <<validator, last, queue, accepted, beside>>
  BY DEF AppendTick
<1>2. FilterShape /\ ticks \in Seq(FilterRows)
  BY DEF FilterInv, FilterShape
<1>3. PICK event \in FilterRows : inHand[d] = <<event>> /\ event \in Held
  BY <1>1, <1>2, OneInHand
<1> DEFINE buf == Append(ticks, event)
<1>4. ticks \o <<event>> = buf
  BY <1>2, <1>3
<1>5. /\ buf \in Seq(FilterRows) /\ buf # <<>> /\ Len(ticks) \in Nat
      /\ Len(buf) = Len(ticks) + 1 /\ buf[Len(ticks) + 1] = event
      /\ \A i \in 1..Len(ticks) : buf[i] = ticks[i]
  BY <1>2, <1>3
<1>6. Members(buf) = Members(ticks) \cup {event}
  BY <1>2, <1>3, MembersOf
<1> HIDE DEF buf
<1>7. ticks' = LastRows(buf)
  BY <1>1, <1>3, <1>4
<1>8. PICK m \in Nat : /\ m <= Len(buf) /\ Len(LastRows(buf)) = Len(buf) - m
                       /\ \A i \in 1..Len(buf) - m : LastRows(buf)[i] = buf[i + m]
  BY <1>5, LastRowsShift
<1>9. /\ ticks' \in Seq(FilterRows) /\ Len(ticks') = Len(buf) - m
      /\ \A i \in 1..Len(ticks') : ticks'[i] = buf[i + m] /\ i + m \in 1..Len(buf)
  <2>1. \A i \in 1..Len(buf) - m : i + m \in 1..Len(buf)
    BY <1>5, <1>8
  <2>2. QED
    BY <1>5, <1>7, <1>8, <2>1, LastRowsShift
<1>10. Members(ticks)' \subseteq Members(ticks) \cup {event}
  <2>1. Members(ticks') \subseteq Members(buf)
    BY <1>9 DEF Members
  <2>2. QED
    BY <1>6, <2>1 DEF Members
<1>11. /\ inHand' \in [Dispatchers -> Seq(FilterRows)] /\ \A e \in Dispatchers : Len(inHand'[e]) <= 1
       /\ Held' \subseteq Held
       /\ ~beside => Held' = {} /\ \A e \in Dispatchers : inHand'[e] = <<>>
  BY <1>1, HandIsEmpty
<1>12. Members(queue)' = Members(queue)
  BY <1>1 DEF Members
<1>13. Everywhere' \subseteq Everywhere
  BY <1>3, <1>10, <1>11, <1>12 DEF Everywhere
<1>14. Remembered(Everywhere, last)' /\ Chained(Everywhere)'
  BY <1>1, <1>13, FewerEvents
<1>15. FilterShape'
  BY <1>1, <1>9, <1>11 DEF FilterInv, FilterShape
<1>16. ASSUME ~beside PROVE InLine'
  <2>1. InLine /\ Held' = {} /\ \A e \in Dispatchers : inHand'[e] = <<>>
    BY <1>11, <1>16 DEF FilterInv
  <2>2. \A a \in Members(ticks) : a.from = event.from => a.nr < event.nr
    BY <1>3, <2>1 DEF InLine, Older
  <2>3. Ordered(buf)
    <3>1. ASSUME NEW i \in 1..Len(buf), NEW j \in 1..Len(buf), i < j, buf[i].from = buf[j].from
          PROVE  buf[i].nr < buf[j].nr
      <4>1. i \in 1..Len(ticks) /\ buf[i] = ticks[i] /\ ticks[i] \in Members(ticks)
        BY <1>5, <3>1 DEF Members
      <4>2. CASE j \in 1..Len(ticks)
        BY <1>5, <2>1, <3>1, <4>1, <4>2 DEF InLine, Ordered
      <4>3. CASE j = Len(ticks) + 1
        BY <1>5, <2>2, <3>1, <4>1, <4>3
      <4>4. QED
        BY <1>5, <4>2, <4>3
    <3>2. QED
      BY <3>1 DEF Ordered
  <2>4. Ordered(ticks)'
    <3>1. \A i, j \in 1..Len(ticks') : i < j => i + m < j + m
      OBVIOUS
    <3>2. QED
      BY <1>9, <2>3, <3>1 DEF Ordered
  <2>5. Older(Members(ticks), Members(queue))'
    BY <1>3, <1>10, <1>12, <2>1 DEF InLine, Older
  <2>6. Older(Members(ticks), Held)' /\ Older(Held, Members(queue))'
    BY <2>1 DEF Older
  <2>7. Ordered(queue)'
    BY <1>1, <2>1 DEF InLine, Ordered
  <2>8. QED
    BY <2>1, <2>4, <2>5, <2>6, <2>7 DEF InLine
<1>17. QED
  BY <1>1, <1>14, <1>15, <1>16 DEF FilterInv

LEMMA EventIsLostKeeps ==
    ASSUME FilterInv, NEW d \in Dispatchers, EventIsLost(d) PROVE FilterInv'
<1>1. /\ inHand[d] # <<>> /\ inHand' = [inHand EXCEPT ![d] = <<>>]
      /\ UNCHANGED <<validator, last, queue, ticks, accepted, beside>>
  BY DEF EventIsLost
<1>2. /\ inHand' \in [Dispatchers -> Seq(FilterRows)] /\ \A e \in Dispatchers : Len(inHand'[e]) <= 1
      /\ Held' \subseteq Held
      /\ ~beside => Held' = {} /\ \A e \in Dispatchers : inHand'[e] = <<>>
  BY <1>1, HandIsEmpty
<1>3. Members(queue)' = Members(queue) /\ Members(ticks)' = Members(ticks)
  BY <1>1 DEF Members
<1>4. Everywhere' \subseteq Everywhere
  BY <1>2, <1>3 DEF Everywhere
<1>5. Remembered(Everywhere, last)' /\ Chained(Everywhere)'
  BY <1>1, <1>4, FewerEvents
<1>6. FilterShape'
  BY <1>1, <1>2 DEF FilterInv, FilterShape
<1>7. ~beside => InLine'
  BY <1>1, <1>2, <1>3 DEF FilterInv, InLine, Ordered, Older
<1>8. QED
  BY <1>1, <1>5, <1>6, <1>7 DEF FilterInv

LEMMA FilterNextKeeps == FilterInv /\ [FilterNext]_filterVars => FilterInv'
<1> SUFFICES ASSUME FilterInv, [FilterNext]_filterVars PROVE FilterInv'
  OBVIOUS
<1>1. CASE RestartProcess
  <2>1. /\ queue' = <<>> /\ ticks' = <<>> /\ inHand' = [d \in Dispatchers |-> <<>>]
        /\ Len(<<>>) = 0 /\ <<>> \in Seq(FilterRows) /\ 1..0 = {}
    BY <1>1 DEF RestartProcess
  <2>2. FilterShape'
    <3>1. validator' \in [Feeds -> Validators] /\ beside' \in BOOLEAN
      BY <1>1 DEF RestartProcess, FilterInv, FilterShape
    <3>2. last' \in [Validators -> [price : Nat, volume : Nat, nr : Nat]]
      BY <1>1 DEF RestartProcess, NoTick
    <3>3. /\ inHand' \in [Dispatchers -> Seq(FilterRows)]
          /\ \A d \in Dispatchers : inHand'[d] = <<>> /\ Len(inHand'[d]) <= 1
      BY <2>1
    <3>4. QED
      BY <2>1, <3>1, <3>2, <3>3 DEF FilterShape
  <2>3. Everywhere' = {} /\ Held' = {} /\ Members(queue)' = {} /\ Members(ticks)' = {}
    BY <2>1, NoMembers DEF Everywhere, Held, Members
  <2>4. Remembered(Everywhere, last)' /\ Chained(Everywhere)'
    BY <2>3 DEF Remembered, Chained
  <2>5. InLine'
    BY <2>1, <2>3 DEF InLine, Ordered, Older
  <2>6. QED
    BY <2>2, <2>4, <2>5 DEF FilterInv
<1>2. CASE UNCHANGED filterVars
  <2>1. UNCHANGED <<validator, last, queue, inHand, ticks, beside>>
    BY <1>2 DEF filterVars
  <2>2. Members(queue)' = Members(queue) /\ Members(ticks)' = Members(ticks) /\ Held' = Held
    BY <2>1 DEF Members, Held
  <2>3. Everywhere' = Everywhere
    BY <2>2 DEF Everywhere
  <2>4. Remembered(Everywhere, last)' /\ Chained(Everywhere)'
    BY <2>1, <2>3, FewerEvents
  <2>5. FilterShape'
    BY <2>1 DEF FilterInv, FilterShape
  <2>6. ~beside => InLine'
    BY <2>1, <2>2 DEF FilterInv, InLine, Ordered, Older
  <2>7. QED
    BY <2>1, <2>4, <2>5, <2>6 DEF FilterInv
<1>3. QED
  BY <1>1, <1>2, EmitTickKeeps, EmitFailsKeeps, TakeEventKeeps, AppendTickKeeps, EventIsLostKeeps
     DEF FilterNext

\* The inductive invariant: the events of a validator, in the queue, in the hands of the
\* dispatch loops (events.py) and in the buffer, are the ticks it accepted, and they
\* stand in that order as long as no two loops have run beside each other.
THEOREM FilterInductive == FilterSpec => []FilterInv
  BY FilterInitInv, FilterNextKeeps, PTL DEF FilterSpec

\* What the feature pipeline has in its buffer (pipeline.py) is, validator by
\* validator, in the order of volume but for loops that overtook each other, and within
\* max_price_move where no tick was lost between, for any wiring of feeds to validators,
\* any ticks, buffer and number of loops, and whatever the bus loses.
THEOREM BufferIsChained == FilterSpec => []RowsAreChains
<1>1. FilterInv => RowsAreChains
  <2> SUFFICES ASSUME FilterInv, NEW i \in DOMAIN ticks, NEW j \in DOMAIN ticks,
                      ticks[i].from = ticks[j].from
               PROVE  /\ i < j => beside \/ ticks[i].volume <= ticks[j].volume
                      /\ ticks[i].nr + 1 = ticks[j].nr
                           => Distance(ticks[i].price, ticks[j].price) * 100 <= MaxMove * ticks[i].price
    BY DEF RowsAreChains
  <2>1. i \in 1..Len(ticks) /\ j \in 1..Len(ticks)
    BY DEF FilterInv, FilterShape
  <2>2. ticks[i] \in Everywhere /\ ticks[j] \in Everywhere
    BY <2>1 DEF Everywhere, Members
  <2>3. ~beside /\ i < j => ticks[i].nr < ticks[j].nr
    BY <2>1 DEF FilterInv, InLine, Ordered
  <2>4. QED
    BY <2>2, <2>3 DEF FilterInv, Chained
<1>2. QED
  BY <1>1, FilterInductive, PTL

-----------------------------------------------------------------------------
\* The least of a set of numbers.
LEMMA LeastNumber ==
    ASSUME NEW B \in SUBSET Nat, B # {}
    PROVE  \E n \in B : \A m \in B : n <= m
<1>1. IsWellFoundedOn(OpToRel(<, Nat), Nat)
  BY NatLessThanWellFounded
<1>2. PICK n \in B : \A m \in B : <<m, n>> \notin OpToRel(<, Nat)
  <2> DEFINE R == OpToRel(<, Nat)
  <2> HIDE DEF R
  <2>1. IsWellFoundedOn(R, Nat)
    BY <1>1 DEF R
  <2>2. \E n \in B : \A m \in B : ~ (<<m, n>> \in R)
    BY <2>1, WFMin
  <2>3. QED
    BY <2>2 DEF R
<1>3. \A m \in B : ~ (m < n)
  BY <1>2 DEF OpToRel
<1>4. QED
  BY <1>3

-----------------------------------------------------------------------------
(* The trade signs of a buffer.                                                 *)
\* The greatest of a set of numbers.
LEMMA MaxIs ==
    ASSUME NEW S \in SUBSET Nat, NEW j \in S, \A m \in S : m <= j
    PROVE  Max(S) = j
<1>1. j \in S /\ \A m \in S : j >= m
  OBVIOUS
<1>2. Max(S) \in S /\ \A m \in S : Max(S) >= m
  BY <1>1 DEF Max
<1>3. Max(S) >= j /\ j >= Max(S) /\ Max(S) \in Nat /\ j \in Nat
  BY <1>1, <1>2
<1>4. QED
  BY <1>3

\* What the sign of row i is, if that of the row before is s.
SignAfter(buf, i, s) ==
    IF QuoteSign(buf[i]) # 0 THEN QuoteSign(buf[i])
    ELSE IF i = 1 THEN 0
    ELSE IF buf[i].price # buf[i - 1].price
    THEN SignOf(buf[i].price - buf[i - 1].price)
    ELSE s

LEMMA ToldAfter ==
    ASSUME NEW buf, NEW i \in Nat \ {0}
    PROVE  ToldSign(buf, i) = SignAfter(buf, i, ToldSign(buf, i - 1))
<1> DEFINE told(k) == {j \in 1..k : Telling(buf, j)}
<1>1. CASE Telling(buf, i)
  <2>1. told(i) \in SUBSET Nat /\ i \in told(i) /\ \A m \in told(i) : m <= i
    BY <1>1
  <2>2. Max(told(i)) = i /\ told(i) # {}
    BY <2>1, MaxIs
  <2>3. ToldSign(buf, i) = IF QuoteSign(buf[i]) # 0 THEN QuoteSign(buf[i])
                            ELSE SignOf(buf[i].price - buf[i - 1].price)
    BY <2>2 DEF ToldSign
  <2>4. QuoteSign(buf[i]) # 0 \/ (i # 1 /\ buf[i].price # buf[i - 1].price)
    BY <1>1 DEF Telling
  <2>5. QED
    BY <2>3, <2>4 DEF SignAfter
<1>2. CASE ~Telling(buf, i)
  <2>1. QuoteSign(buf[i]) = 0 /\ (i = 1 \/ buf[i].price = buf[i - 1].price)
    BY <1>2 DEF Telling
  <2>2. CASE i = 1
    <3>1. told(i) = {}
      BY <1>2, <2>2
    <3>2. QED
      BY <2>1, <2>2, <3>1 DEF ToldSign, SignAfter
  <2>3. CASE i # 1
    <3>1. told(i) = told(i - 1)
      BY <1>2, <2>3
    <3>2. ToldSign(buf, i) = ToldSign(buf, i - 1)
      BY <3>1 DEF ToldSign
    <3>3. QED
      BY <2>1, <2>3, <3>2 DEF SignAfter
  <2>4. QED
    BY <2>2, <2>3
<1>3. QED
  BY <1>1, <1>2

\* The loop over the buf, and what it computes.
AreSigns(buf, sign) == sign = [i \in 1..Len(buf) |-> SignAfter(buf, i, sign[i - 1])]
Told(buf) == [i \in 1..Len(buf) |-> ToldSign(buf, i)]

LEMMA SignsAreTold ==
    ASSUME NEW buf, Len(buf) \in Nat
    PROVE  Signs(buf) = Told(buf)
<1>1. PICK n \in Nat : n = Len(buf)
  OBVIOUS
<1>2. AreSigns(buf, Told(buf))
  <2>1. ASSUME NEW i \in 1..n
        PROVE  ToldSign(buf, i) = SignAfter(buf, i, Told(buf)[i - 1])
    <3>1. ToldSign(buf, i) = SignAfter(buf, i, ToldSign(buf, i - 1))
      BY ToldAfter
    <3>2. i # 1 => Told(buf)[i - 1] = ToldSign(buf, i - 1)
      BY <1>1 DEF Told
    <3>3. QED
      BY <3>1, <3>2 DEF SignAfter
  <2>2. QED
    BY <1>1, <2>1 DEF AreSigns, Told
<1>3. AreSigns(buf, Signs(buf))
  <2>1. Signs(buf) = CHOOSE sign : AreSigns(buf, sign)
    BY DEF Signs, AreSigns, SignAfter
  <2>2. QED
    BY <1>2, <2>1
<1>4. PICK f : f = Signs(buf)
  OBVIOUS
<1>5. f = [i \in 1..n |-> SignAfter(buf, i, f[i - 1])]
  BY <1>1, <1>3, <1>4 DEF AreSigns
<1>6. \A i \in 1..n : f[i] = ToldSign(buf, i)
  <2> DEFINE B == {i \in 1..n : f[i] # ToldSign(buf, i)}
  <2>1. SUFFICES ASSUME B # {} PROVE FALSE
    OBVIOUS
  <2>0. B \in SUBSET Nat
    OBVIOUS
  <2>2. PICK i \in B : \A m \in B : i <= m
    BY <2>0, <2>1, LeastNumber
  <2>3. i \in 1..n /\ i - 1 \notin B
    BY <2>2
  <2>4. i # 1 => f[i - 1] = ToldSign(buf, i - 1)
    BY <2>3
  <2>5. f[i] = SignAfter(buf, i, f[i - 1])
    BY <1>5, <2>3
  <2>6. f[i] = SignAfter(buf, i, ToldSign(buf, i - 1))
    BY <2>4, <2>5 DEF SignAfter
  <2>7. f[i] = ToldSign(buf, i)
    BY <2>3, <2>6, ToldAfter
  <2>8. QED
    BY <2>2, <2>7
<1>7. QED
  BY <1>1, <1>4, <1>5, <1>6 DEF Told

\* The loop back from the last of n buf, which goes on at the row k places before
\* it, and the place at which it stops when it is at k.
Goes(sign, n, k) == k < n /\ sign[n - k] = sign[n] /\ sign[n] # 0
IsRun(sign, n, run) == run = [k \in 0..n |-> IF Goes(sign, n, k) THEN 1 + run[k + 1] ELSE 0]
Stops(sign, n, k, j) == /\ j \in k..n /\ ~Goes(sign, n, j)
                        /\ \A m \in k..j-1 : Goes(sign, n, m)
StopOf(sign, n, k) == CHOOSE j : Stops(sign, n, k, j)

LEMMA StopIs ==
    ASSUME NEW sign, NEW n \in Nat, NEW k \in 0..n
    PROVE  /\ Stops(sign, n, k, StopOf(sign, n, k))
           /\ \A j : Stops(sign, n, k, j) => j = StopOf(sign, n, k)
<1> DEFINE B == {j \in k..n : ~Goes(sign, n, j)}
<1>1. n \in B /\ B \in SUBSET Nat
  BY DEF Goes
<1>2. PICK j \in B : \A m \in B : j <= m
  BY <1>1, LeastNumber
<1>3. Stops(sign, n, k, j)
  BY <1>2 DEF Stops
<1>4. Stops(sign, n, k, StopOf(sign, n, k))
  BY <1>3 DEF StopOf
<1>5. ASSUME NEW i, NEW m, Stops(sign, n, k, i), Stops(sign, n, k, m) PROVE i = m
  <2>1. i \in Int /\ m \in Int /\ k <= i /\ k <= m
    BY <1>5 DEF Stops
  <2>2. ~(i < m) /\ ~(m < i)
    BY <1>5, <2>1 DEF Stops
  <2>3. QED
    BY <2>1, <2>2
<1>6. QED
  BY <1>4, <1>5

LEMMA StopAfter ==
    ASSUME NEW sign, NEW n \in Nat, NEW k \in 0..n
    PROVE  /\ StopOf(sign, n, k) \in k..n
           /\ Goes(sign, n, k) => k + 1 \in 0..n /\ StopOf(sign, n, k) = StopOf(sign, n, k + 1)
           /\ ~Goes(sign, n, k) => StopOf(sign, n, k) = k
<1>1. StopOf(sign, n, k) \in k..n
  BY StopIs DEF Stops
<1>2. ASSUME Goes(sign, n, k)
      PROVE  k + 1 \in 0..n /\ StopOf(sign, n, k) = StopOf(sign, n, k + 1)
  <2>1. k + 1 \in 0..n
    BY <1>2 DEF Goes
  <2>2. PICK j : j = StopOf(sign, n, k + 1)
    OBVIOUS
  <2>3. Stops(sign, n, k + 1, j)
    BY <2>1, <2>2, StopIs
  <2>4. Stops(sign, n, k, j)
    BY <1>2, <2>3 DEF Stops
  <2>5. QED
    BY <2>1, <2>2, <2>4, StopIs
<1>3. ASSUME ~Goes(sign, n, k) PROVE StopOf(sign, n, k) = k
  <2>1. Stops(sign, n, k, k)
    BY <1>3 DEF Stops
  <2>2. QED
    BY <2>1, StopIs
<1>4. QED
  BY <1>1, <1>2, <1>3

LEMMA RunStops ==
    ASSUME NEW sign, NEW n \in Nat, NEW run, run = CHOOSE f : IsRun(sign, n, f)
    PROVE  run[0] = StopOf(sign, n, 0)
<1> DEFINE W == [k \in 0..n |-> StopOf(sign, n, k) - k]
<1>1. IsRun(sign, n, W)
  <2>1. ASSUME NEW k \in 0..n
        PROVE  StopOf(sign, n, k) - k = IF Goes(sign, n, k) THEN 1 + W[k + 1] ELSE 0
    <3>1. PICK s : s = StopOf(sign, n, k)
      OBVIOUS
    <3>2. s \in k..n /\ k \in Int
      BY <3>1, StopAfter
    <3>3. CASE Goes(sign, n, k)
      <4>1. k + 1 \in 0..n /\ StopOf(sign, n, k + 1) = s
        BY <3>1, <3>3, StopAfter
      <4>2. W[k + 1] = s - (k + 1)
        BY <4>1
      <4>3. s - k = 1 + (s - (k + 1))
        BY <3>2
      <4>4. QED
        BY <3>1, <3>3, <4>2, <4>3
    <3>4. CASE ~Goes(sign, n, k)
      <4>1. s = k
        BY <3>1, <3>4, StopAfter
      <4>2. s - k = 0
        BY <3>2, <4>1
      <4>3. QED
        BY <3>1, <3>4, <4>2
    <3>5. QED
      BY <3>3, <3>4
  <2>2. QED
    BY <2>1 DEF IsRun
<1>2. IsRun(sign, n, run)
  BY <1>1
<1>3. \A k \in 0..n : run[k] = IF Goes(sign, n, k) THEN 1 + run[k + 1] ELSE 0
  BY <1>2 DEF IsRun
<1> HIDE DEF W
<1>4. \A k \in 0..n : W[k] = (IF Goes(sign, n, k) THEN 1 + W[k + 1] ELSE 0)
                      /\ W[k] = StopOf(sign, n, k) - k
  BY <1>1 DEF IsRun, W
<1> DEFINE B == {m \in 0..n : run[n - m] # W[n - m]}
<1>5. B = {}
  <2>1. SUFFICES ASSUME B # {} PROVE FALSE
    OBVIOUS
  <2>0. B \in SUBSET Nat
    OBVIOUS
  <2>2. PICK m \in B : \A i \in B : m <= i
    BY <2>0, <2>1, LeastNumber
  <2>3. PICK k \in 0..n : k = n - m
    BY <2>2
  <2>4. run[k] # W[k] /\ (k # n => m - 1 \in 0..n /\ n - (m - 1) = k + 1 /\ m - 1 \notin B)
    BY <2>2, <2>3
  <2>5. k # n => run[k + 1] = W[k + 1]
    BY <2>4
  <2>6. Goes(sign, n, k) => k # n
    BY DEF Goes
  <2>7. QED
    BY <1>3, <1>4, <2>4, <2>5, <2>6
<1>6. run[0] = W[0]
  <2>1. n \in 0..n /\ n - n = 0
    OBVIOUS
  <2>2. run[n - n] = W[n - n]
    BY <1>5, <2>1
  <2>3. QED
    BY <2>1, <2>2
<1>7. W[0] = StopOf(sign, n, 0) - 0 /\ StopOf(sign, n, 0) \in 0..n
  BY <1>4, StopAfter
<1>8. QED
  BY <1>6, <1>7

\* For any buffer of rows.
LEMMA LongestRun == ASSUME NEW buf, Len(buf) \in Nat PROVE RunIsLongest(buf)
<1>1. PICK n \in Nat : n = Len(buf)
  OBVIOUS
<1>2. PICK sign : sign = Signs(buf)
  OBVIOUS
<1>3. \A i \in 1..n : sign[i] = ToldSign(buf, i)
  BY <1>1, <1>2, SignsAreTold DEF Told
<1>4. SignRun(buf) = StopOf(sign, n, 0)
  <2> DEFINE loop == CHOOSE f : IsRun(sign, n, f)
  <2>1. SignRun(buf) = loop[0]
    BY <1>1, <1>2 DEF SignRun, IsRun, Goes
  <2> HIDE DEF loop
  <2>2. loop[0] = StopOf(sign, n, 0)
    BY RunStops DEF loop
  <2>3. QED
    BY <2>1, <2>2
<1>5. PICK j : j = StopOf(sign, n, 0)
  OBVIOUS
<1>6. j \in 0..n /\ ~Goes(sign, n, j) /\ \A m \in 0..j-1 : Goes(sign, n, m)
  <2>1. 0 \in 0..n
    OBVIOUS
  <2>2. Stops(sign, n, 0, j)
    BY <1>5, <2>1, StopIs
  <2>3. QED
    BY <2>2 DEF Stops
<1> DEFINE same == {k \in 1..n : \A i \in n - k + 1..n :
                                ToldSign(buf, i) = ToldSign(buf, n) /\ ToldSign(buf, n) # 0}
<1>7. ASSUME n >= 2 PROVE Max(same \cup {0}) = j
  <2>1. ToldSign(buf, n) = sign[n] /\ \A i \in 1..n : ToldSign(buf, i) = sign[i]
    BY <1>3, <1>7
  <2>2. j \in same \cup {0}
    <3>1. CASE j = 0
      BY <3>1
    <3>2. CASE j # 0
      <4>1. j \in 1..n
        BY <1>6, <3>2
      <4>2. ASSUME NEW i \in n - j + 1..n
            PROVE  ToldSign(buf, i) = ToldSign(buf, n) /\ ToldSign(buf, n) # 0
        <5>1. n - i \in 0..j-1 /\ n - (n - i) = i /\ i \in 1..n
          BY <4>1
        <5>2. Goes(sign, n, n - i)
          BY <1>6, <5>1
        <5>3. sign[i] = sign[n] /\ sign[n] # 0
          BY <5>1, <5>2 DEF Goes
        <5>4. QED
          BY <2>1, <5>1, <5>3
      <4>3. QED
        BY <4>1, <4>2
    <3>3. QED
      BY <3>1, <3>2
  <2>3. ASSUME NEW m \in same, ~(m <= j) PROVE FALSE
    <3>1. m \in 1..n /\ j < n /\ n - j \in n - m + 1..n /\ n - j \in 1..n
      BY <1>6, <2>3
    <3>2. ToldSign(buf, n - j) = ToldSign(buf, n) /\ ToldSign(buf, n) # 0
      BY <3>1, <2>3
    <3>3. sign[n - j] = sign[n] /\ sign[n] # 0
      BY <2>1, <3>1, <3>2
    <3>4. QED
      BY <1>6, <3>1, <3>3 DEF Goes
  <2>4. \A m \in same \cup {0} : m <= j
    BY <1>6, <2>3
  <2>5. same \cup {0} \in SUBSET Nat
    OBVIOUS
  <2>6. QED
    BY <2>2, <2>4, <2>5, MaxIs
<1>8. QED
  BY <1>1, <1>4, <1>5, <1>7 DEF RunIsLongest

\* On every buffer that the filter lets the pipeline have (pipeline.py), of any length,
\* the loops of trade_signs.py count the longest end of the rows whose sign is that of
\* the last row.
THEOREM RunIsCounted == FilterSpec => []RunAgrees
<1>1. FilterInv => RunAgrees
  <2>1. SUFFICES ASSUME FilterInv PROVE RunIsLongest(ticks)
    BY DEF RunAgrees
  <2>2. Len(ticks) \in Nat
    BY <2>1 DEF FilterInv, FilterShape
  <2>3. QED
    BY <2>2, LongestRun
<1>2. QED
  BY <1>1, FilterInductive, PTL

-----------------------------------------------------------------------------
(* The buckets of vpin.py.                                                      *)
\* A loop over 1..n whose turn i takes what is in hand to step[<<i, in hand>>].
LoopsFrom(n, s, step, f) == f = [i \in 0..n |-> IF i = 0 THEN s ELSE step[<<i, f[i - 1]>>]]

LEMMA LoopRuns ==
    ASSUME NEW n \in Nat, NEW S, NEW s \in S, NEW step \in [(1..n) \X S -> S]
    PROVE  \E f \in [0..n -> S] : LoopsFrom(n, s, step, f)
<1> DEFINE Upto(k, f) == /\ f \in [0..k -> S] /\ f[0] = s
                         /\ \A i \in 1..k : f[i] = step[<<i, f[i - 1]>>]
           B == {k \in 0..n : ~\E f : Upto(k, f)}
<1>1. B = {}
  <2>1. SUFFICES ASSUME B # {} PROVE FALSE
    OBVIOUS
  <2>2. B \in SUBSET Nat
    OBVIOUS
  <2>3. PICK k \in B : \A m \in B : k <= m
    BY <2>1, <2>2, LeastNumber
  <2>4. CASE k = 0
    <3>1. Upto(0, [i \in 0..0 |-> s])
      OBVIOUS
    <3>2. QED
      BY <2>3, <2>4, <3>1
  <2>5. CASE k # 0
    <3>1. k \in 1..n /\ k - 1 \in 0..n /\ k - 1 \notin B
      BY <2>3, <2>5
    <3>2. PICK f : Upto(k - 1, f)
      BY <3>1
    <3> DEFINE g == [i \in 0..k |-> IF i = k THEN step[<<k, f[k - 1]>>] ELSE f[i]]
    <3>3. f[k - 1] \in S
      BY <3>1, <3>2
    <3>4. step[<<k, f[k - 1]>>] \in S
      BY <3>1, <3>3
    <3>5. g \in [0..k -> S]
      <4>1. ASSUME NEW i \in 0..k, i # k PROVE f[i] \in S
        <5>1. i \in 0..k-1
          BY <3>1, <4>1
        <5>2. QED
          BY <3>2, <5>1
      <4>2. QED
        BY <3>4, <4>1
    <3>6. g[0] = s
      BY <3>1, <3>2
    <3>7. ASSUME NEW i \in 1..k PROVE g[i] = step[<<i, g[i - 1]>>]
      <4>1. i - 1 \in 0..k /\ i - 1 # k /\ i \in 0..k
        BY <3>1
      <4>2. g[i - 1] = f[i - 1]
        BY <4>1
      <4>3. CASE i = k
        BY <4>1, <4>2, <4>3
      <4>4. CASE i # k
        <5>1. i \in 1..k-1
          BY <3>1, <4>4
        <5>2. g[i] = f[i]
          BY <4>1, <4>4
        <5>3. QED
          BY <3>2, <4>2, <5>1, <5>2
      <4>5. QED
        BY <4>3, <4>4
    <3>8. Upto(k, g)
      BY <3>5, <3>6, <3>7
    <3>9. QED
      BY <2>3, <3>8
  <2>6. QED
    BY <2>4, <2>5
<1>2. PICK f : Upto(n, f)
  <2> HIDE DEF Upto
  <2>1. n \in 0..n
    OBVIOUS
  <2>2. QED
    BY <1>1, <2>1
<1>3. f = [i \in 0..n |-> IF i = 0 THEN s ELSE step[<<i, f[i - 1]>>]]
  <2>1. \A i \in 0..n : i = 0 \/ i \in 1..n
    OBVIOUS
  <2>2. \A i \in 0..n : f[i] = IF i = 0 THEN s ELSE step[<<i, f[i - 1]>>]
    BY <1>2, <2>1
  <2>3. QED
    BY <1>2, <2>2
<1>4. f \in [0..n -> S]
  BY <1>2
<1>5. QED
  BY <1>3, <1>4 DEF LoopsFrom

Ratios  == [num : Int, den : Nat \ {0}]
Tallies == [volume : Nat, imbalance : Ratios, buckets : Seq(Ratios)]
Within(r, k) == -(r.den * k) <= r.num /\ r.num <= r.den * k

\* Arithmetic that the solver is told.
LEMMA Products ==
    /\ \A a, b \in Int : a * b \in Int
    /\ \A a, b \in Nat : a * b \in Nat
    /\ \A a, b \in Nat \ {0} : a * b \in Nat \ {0}
    /\ \A a \in Nat \ {0}, x, y \in Int : a * x <= a * y => x <= y
    /\ \A a \in Nat, x, y \in Int : x <= y => a * x <= a * y
    /\ \A a, b, c \in Int : a * (b * c) = (a * b) * c /\ a * b = b * a
    /\ \A a, b, c \in Int : a * (b + c) = a * b + a * c /\ a * (b - c) = a * b - a * c
    /\ \A a, b \in Int : a * (-b) = -(a * b)
<1>1. \A a, b \in Int : a * b \in Int
  OBVIOUS
<1>2. \A a, b \in Nat : a * b \in Nat
  OBVIOUS
<1>3. \A a, b \in Nat \ {0} : a * b \in Nat \ {0}
  OBVIOUS
<1>5. \A a \in Nat, x, y \in Int : x <= y => a * x <= a * y
  OBVIOUS
<1>4. \A a \in Nat \ {0}, x, y \in Int : a * x <= a * y => x <= y
  <2>1. ASSUME NEW a \in Nat \ {0}, NEW x \in Int, NEW y \in Int, y < x PROVE a * y < a * x
    <3>1. y + 1 \in Int /\ y + 1 <= x /\ a \in Nat
      BY <2>1
    <3>2. a * (y + 1) <= a * x
      BY <3>1, <1>5
    <3>3. a * (y + 1) = a * y + a
      OBVIOUS
    <3>4. a * y \in Int /\ a * x \in Int /\ a > 0
      BY <1>1
    <3>5. QED
      BY <3>2, <3>3, <3>4
  <2>2. ASSUME NEW a \in Nat \ {0}, NEW x \in Int, NEW y \in Int, a * x <= a * y PROVE x <= y
    <3>1. a * x \in Int /\ a * y \in Int
      BY <1>1
    <3>2. ~(y < x)
      BY <2>1, <2>2, <3>1
    <3>3. QED
      BY <3>2
  <2>3. QED
    BY <2>2
<1>6. \A a, b, c \in Int : a * (b * c) = (a * b) * c /\ a * b = b * a
  OBVIOUS
<1>7. \A a, b, c \in Int : a * (b + c) = a * b + a * c /\ a * (b - c) = a * b - a * c
  OBVIOUS
<1>8. \A a, b \in Int : a * (-b) = -(a * b)
  OBVIOUS
<1>9. QED
  BY <1>1, <1>2, <1>3, <1>4, <1>5, <1>6, <1>7, <1>8

\* What a divisor divides evenly.
LEMMA Divides ==
    ASSUME NEW n \in Int, NEW g \in Nat \ {0}, n % g = 0
    PROVE  n \div g \in Int /\ n = g * (n \div g)
  OBVIOUS

LEMMA DividesMinus ==
    ASSUME NEW n \in Nat, NEW g \in Nat \ {0}, n % g = 0
    PROVE  (-n) \div g \in Int /\ -n = g * ((-n) \div g)
<1>1. n = g * (n \div g) /\ n \div g \in Int
  BY Divides
<1>2. PICK q \in Int : q = n \div g
  BY <1>1
<1>3. -n = g * (-q)
  BY <1>1, <1>2, Products
<1>4. (-n) \div g = -q
  BY <1>3
<1>5. QED
  BY <1>2, <1>3, <1>4

\* A reduced fraction is the fraction: both parts were divided evenly by one number.
LEMMA ReducedIs ==
    ASSUME NEW n \in Int, NEW d \in Nat \ {0}
    PROVE  /\ Reduced(n, d) \in Ratios
           /\ \E g \in Nat \ {0} : n = g * Reduced(n, d).num /\ d = g * Reduced(n, d).den
<1> DEFINE a == IF n < 0 THEN -n ELSE n
           D == {c \in 1..d : d % c = 0 /\ a % c = 0}
<1>1. a \in Nat
  OBVIOUS
<1>2. 1 \in D
  <2>1. d % 1 = 0 /\ a % 1 = 0
    BY <1>1
  <2>2. QED
    BY <2>1
<1>3. PICK g \in D : \A c \in D : c <= g
  <2> DEFINE B == {d - c : c \in D}
  <2>1. B \in SUBSET Nat /\ d - 1 \in B
    BY <1>2
  <2>2. PICK b \in B : \A m \in B : b <= m
    BY <2>1, LeastNumber
  <2>3. PICK g \in D : b = d - g
    BY <2>2
  <2>4. ASSUME NEW c \in D PROVE c <= g
    <3>1. d - c \in B /\ c \in Int /\ g \in Int
      OBVIOUS
    <3>2. d - g <= d - c
      BY <2>2, <2>3, <3>1
    <3>3. QED
      BY <3>1, <3>2
  <2>5. QED
    BY <2>4
<1>4. Max(D) = g /\ g \in Nat \ {0} /\ d % g = 0 /\ a % g = 0
  <2>1. D \in SUBSET Nat
    OBVIOUS
  <2>2. QED
    BY <1>3, <2>1, MaxIs
<1>5. Reduced(n, d) = [num |-> n \div g, den |-> d \div g]
  BY <1>4 DEF Reduced
<1> HIDE DEF D
<1>6. d \div g \in Int /\ d = g * (d \div g)
  BY <1>4, Divides
<1>7. n \div g \in Int /\ n = g * (n \div g)
  <2>1. CASE n < 0
    <3>1. PICK m \in Nat : m = -n
      BY <2>1
    <3>2. m % g = 0 /\ n = -m
      BY <1>4, <2>1, <3>1
    <3>3. QED
      BY <1>4, <3>2, DividesMinus
  <2>2. CASE ~(n < 0)
    BY <1>4, <2>2, Divides
  <2>3. QED
    BY <2>1, <2>2
<1> HIDE DEF a
<1>8. PICK q \in Int : q = d \div g
  BY <1>6
<1>9. q \in Nat \ {0}
  <2>1. g * 0 < g * q
    BY <1>4, <1>6, <1>8
  <2>2. q > 0
    BY <1>4, <2>1
  <2>3. QED
    BY <2>2
<1>10. QED
  BY <1>4, <1>5, <1>6, <1>7, <1>8, <1>9 DEF Ratios

\* A bound on a fraction survives that it is reduced.
LEMMA ReducedWithin ==
    ASSUME NEW n \in Int, NEW d \in Nat \ {0}, NEW k \in Nat, -(d * k) <= n, n <= d * k
    PROVE  Reduced(n, d) \in Ratios /\ Within(Reduced(n, d), k)
<1>1. Reduced(n, d) \in Ratios
  BY ReducedIs
<1>2. PICK p \in Int, q \in Nat \ {0} : p = Reduced(n, d).num /\ q = Reduced(n, d).den
  BY <1>1 DEF Ratios
<1>3. PICK g \in Nat \ {0} : n = g * p /\ d = g * q
  BY <1>2, ReducedIs
<1>4. q * k \in Int /\ -(q * k) \in Int /\ q \in Int /\ k \in Int /\ g \in Int
  BY Products
<1>5. d * k = g * (q * k) /\ -(d * k) = g * (-(q * k))
  BY <1>3, <1>4, Products
<1>6. g * p <= g * (q * k) /\ g * (-(q * k)) <= g * p
  BY <1>3, <1>5
<1>7. p <= q * k /\ -(q * k) <= p
  BY <1>4, <1>6, Products
<1>8. QED
  BY <1>1, <1>2, <1>7 DEF Within

\* What is in hand is no more out of balance than there is volume, and no bucket is
\* by more than it holds.
Balanced(t) ==
    /\ t \in Tallies /\ Within(t.imbalance, t.volume)
    /\ \A i \in DOMAIN t.buckets : Within(t.buckets[i], 1)
Taken(t, size) == size * Len(t.buckets) + t.volume

LEMMA TallyFields ==
    ASSUME NEW t \in Tallies
    PROVE  /\ t.volume \in Nat /\ t.imbalance \in Ratios /\ t.buckets \in Seq(Ratios)
           /\ t.imbalance.num \in Int /\ t.imbalance.den \in Nat \ {0}
           /\ Len(t.buckets) \in Nat
  BY DEF Tallies, Ratios

LEMMA FillBucketKeeps ==
    ASSUME NEW t, Balanced(t), NEW size \in Nat \ {0}, NEW short
    PROVE  LET f == FillBucket(t, size, short)
           IN  /\ Balanced(f) /\ Taken(f, size) = Taken(t, size)
               /\ IF Reaches(t, size, short) THEN f.volume = t.volume - size ELSE f = t
<1>1. CASE ~Reaches(t, size, short)
  <2>1. FillBucket(t, size, short) = t
    BY <1>1 DEF FillBucket
  <2>2. QED
    BY <1>1, <2>1
<1>2. CASE Reaches(t, size, short)
  <2>1. /\ t.volume \in Nat /\ t.buckets \in Seq(Ratios) /\ Len(t.buckets) \in Nat
        /\ t.imbalance.num \in Int /\ t.imbalance.den \in Nat \ {0}
        /\ t.volume >= size
    BY <1>2, TallyFields DEF Balanced, Reaches
  <2>2. PICK V \in Nat \ {0}, a \in Int, b \in Nat \ {0}, B \in Seq(Ratios) :
             V = t.volume /\ a = t.imbalance.num /\ b = t.imbalance.den /\ B = t.buckets
    BY <2>1
  <2>3. PICK rest \in Nat : rest = V - size
    BY <2>1, <2>2
  <2>4. PICK r : r = Reduced(a, b * V)
    OBVIOUS
  <2>5. PICK s : s = Reduced(r.num * rest, r.den)
    OBVIOUS
  <2>6. FillBucket(t, size, short) = [volume |-> rest, imbalance |-> s, buckets |-> Append(B, r)]
    BY <1>2, <2>2, <2>3, <2>4, <2>5 DEF FillBucket
  <2>7. b * V \in Nat \ {0} /\ -(b * V) <= a /\ a <= b * V /\ (b * V) * 1 = b * V
    BY <2>2, Products DEF Balanced, Within
  <2>8. r \in Ratios /\ Within(r, 1)
    <3>1. -((b * V) * 1) <= a /\ a <= (b * V) * 1 /\ 1 \in Nat
      BY <2>7
    <3>2. QED
      BY <2>4, <2>7, <3>1, ReducedWithin
  <2>9. PICK p \in Int, q \in Nat \ {0} : p = r.num /\ q = r.den /\ -q <= p /\ p <= q
    BY <2>8 DEF Ratios, Within
  <2>10. p * rest \in Int /\ -(q * rest) <= p * rest /\ p * rest <= q * rest
    <3>1. p * rest \in Int /\ q * rest \in Int /\ q \in Int /\ -q \in Int /\ rest \in Int
      BY Products
    <3>2. rest * p <= rest * q /\ rest * (-q) <= rest * p
      BY <2>9, <3>1, Products
    <3>3. rest * p = p * rest /\ rest * q = q * rest /\ rest * (-q) = -(rest * q)
      BY <3>1, Products
    <3>4. QED
      BY <3>1, <3>2, <3>3
  <2>11. s \in Ratios /\ Within(s, rest)
    BY <2>5, <2>9, <2>10, ReducedWithin
  <2>12. PICK A : A = Append(B, r)
    OBVIOUS
  <2>13. /\ A \in Seq(Ratios) /\ Len(A) = Len(B) + 1 /\ Len(B) \in Nat
         /\ \A i \in 1..Len(B) : A[i] = B[i]
         /\ A[Len(B) + 1] = r
    BY <2>8, <2>12
  <2>14. \A i \in DOMAIN A : Within(A[i], 1)
    <3>1. \A i \in 1..Len(B) : Within(B[i], 1)
      BY <2>2 DEF Balanced
    <3>2. DOMAIN A = 1..Len(B) + 1
      BY <2>13
    <3>3. ASSUME NEW i \in DOMAIN A PROVE Within(A[i], 1)
      <4>1. CASE i = Len(B) + 1
        BY <2>8, <2>13, <4>1
      <4>2. CASE i # Len(B) + 1
        <5>1. i \in 1..Len(B)
          BY <3>2, <2>13, <4>2
        <5>2. QED
          BY <2>13, <3>1, <5>1
      <4>3. QED
        BY <4>1, <4>2
    <3>4. QED
      BY <3>3
  <2>15. PICK f : f = FillBucket(t, size, short)
    OBVIOUS
  <2>16. f = [volume |-> rest, imbalance |-> s, buckets |-> A]
    BY <2>6, <2>12, <2>15
  <2>17. f.volume = rest /\ f.imbalance = s /\ f.buckets = A /\ f \in Tallies
    BY <2>11, <2>13, <2>16 DEF Tallies
  <2>18. Balanced(f)
    BY <2>11, <2>14, <2>17 DEF Balanced
  <2>19. Taken(f, size) = Taken(t, size)
    <3>1. size * (Len(B) + 1) = size * Len(B) + size /\ size * Len(B) \in Int
      BY <2>13, Products
    <3>2. Taken(f, size) = size * (Len(B) + 1) + rest /\ Taken(t, size) = size * Len(B) + V
      BY <2>2, <2>13, <2>17 DEF Taken
    <3>3. QED
      BY <2>3, <3>1, <3>2
  <2>20. QED
    BY <1>2, <2>2, <2>3, <2>15, <2>17, <2>18, <2>19
<1>3. QED
  BY <1>1, <1>2

\* The while loop leaves what does not reach a bucket, as it is rounded.
LEMMA FillBucketsKeeps ==
    ASSUME NEW t, Balanced(t), NEW size \in Nat \ {0}, NEW short
    PROVE  LET f == FillBuckets(t, size, short)
           IN  Balanced(f) /\ Taken(f, size) = Taken(t, size) /\ ~Reaches(f, size, short)
<1> DEFINE S == {u \in Tallies : Balanced(u)}
           Turns(f) == f = [k \in 0..t.volume |-> IF k = 0 THEN t ELSE FillBucket(f[k - 1], size, short)]
<1>1. PICK V \in Nat : V = t.volume
  BY TallyFields DEF Balanced
<1>2. t \in S /\ \A u : u \in S <=> Balanced(u)
  BY DEF Balanced
<1> HIDE DEF S
<1>3. \E f : Turns(f)
  <2> DEFINE step == [x \in (1..V) \X S |-> FillBucket(x[2], size, short)]
  <2>1. \A x \in (1..V) \X S : FillBucket(x[2], size, short) \in S
    BY <1>2, FillBucketKeeps
  <2>2. step \in [(1..V) \X S -> S]
    BY <2>1
  <2>3. \A i \in 1..V, u \in S : step[<<i, u>>] = FillBucket(u, size, short)
    OBVIOUS
  <2> HIDE DEF step
  <2>4. PICK f \in [0..V -> S] : LoopsFrom(V, t, step, f)
    BY <1>2, <2>2, LoopRuns
  <2>5. ASSUME NEW k \in 0..V, k # 0 PROVE step[<<k, f[k - 1]>>] = FillBucket(f[k - 1], size, short)
    <3>1. k \in 1..V /\ k - 1 \in 0..V
      BY <2>5
    <3>2. f[k - 1] \in S
      BY <3>1
    <3>3. QED
      BY <2>3, <3>1, <3>2
  <2>6. f = [k \in 0..V |-> IF k = 0 THEN t ELSE FillBucket(f[k - 1], size, short)]
    BY <2>4, <2>5 DEF LoopsFrom
  <2>7. QED
    BY <1>1, <2>6
<1>4. PICK f : Turns(f) /\ FillBuckets(t, size, short) = f[V]
  <2> DEFINE g == CHOOSE f : Turns(f)
  <2>1. FillBuckets(t, size, short) = g[t.volume]
    BY DEF FillBuckets
  <2>2. Turns(g)
    <3> HIDE DEF Turns
    <3>1. QED
      BY <1>3
  <2> HIDE DEF g
  <2>3. QED
    BY <1>1, <2>1, <2>2
<1>5. /\ f[0] = t
      /\ \A k \in 1..V : f[k] = FillBucket(f[k - 1], size, short)
  BY <1>1, <1>4
<1> DEFINE P(k) == /\ Balanced(f[k]) /\ Taken(f[k], size) = Taken(t, size)
                   /\ ~Reaches(f[k], size, short) \/ f[k].volume <= V - k
           B == {k \in 0..V : ~P(k)}
<1>6. P(0)
  BY <1>1, <1>5
<1>7. ASSUME NEW k \in 1..V, P(k - 1) PROVE P(k)
  <2>1. PICK u : u = f[k - 1]
    OBVIOUS
  <2>2. PICK w : w = FillBucket(u, size, short)
    OBVIOUS
  <2>3. f[k] = w /\ Balanced(u) /\ Taken(u, size) = Taken(t, size)
        /\ (~Reaches(u, size, short) \/ u.volume <= V - (k - 1))
    BY <1>5, <1>7, <2>1, <2>2
  <2>4. /\ Balanced(w) /\ Taken(w, size) = Taken(u, size)
        /\ IF Reaches(u, size, short) THEN w.volume = u.volume - size ELSE w = u
    BY <2>2, <2>3, FillBucketKeeps
  <2>5. u.volume \in Nat
    BY <2>3, TallyFields DEF Balanced
  <2>6. ~Reaches(w, size, short) \/ w.volume <= V - k
    BY <2>3, <2>4, <2>5
  <2>7. QED
    BY <2>3, <2>4, <2>6
<1>8. B = {}
  <2>1. SUFFICES ASSUME B # {} PROVE FALSE
    OBVIOUS
  <2> HIDE DEF P
  <2>2. B \in SUBSET Nat
    OBVIOUS
  <2>3. PICK k \in B : \A m \in B : k <= m
    BY <2>1, <2>2, LeastNumber
  <2>4. k \in 1..V /\ k - 1 \in 0..V /\ k - 1 \notin B
    BY <1>6, <2>3
  <2>5. P(k - 1)
    BY <2>4
  <2>6. QED
    BY <1>7, <2>3, <2>4, <2>5
<1>9. P(V)
  <2> HIDE DEF P
  <2>1. V \in 0..V
    OBVIOUS
  <2>2. QED
    BY <1>8, <2>1
<1>10. f[V].volume \in Nat
  BY <1>9, TallyFields DEF Balanced
<1>11. ~Reaches(f[V], size, short)
  BY <1>9, <1>10 DEF Reaches
<1>12. QED
  BY <1>4, <1>9, <1>11

\* A trade is taken whole, and what does not reach a bucket is left in hand.
LEMMA TallyTradeKeeps ==
    ASSUME NEW trades, NEW t, NEW i, NEW short, trades[i].volume \in Nat, Balanced(t),
           Traded(trades) \in Nat \ {0}, ~Reaches(t, Traded(trades), short)
    PROVE  LET f == TallyTrade(trades, t, i, short)
           IN  /\ Balanced(f) /\ ~Reaches(f, Traded(trades), short)
               /\ Taken(f, Traded(trades))
                    = Taken(t, Traded(trades)) + trades[i].volume * BucketCount
<1>1. PICK size \in Nat \ {0} : size = Traded(trades)
  OBVIOUS
<1>2. PICK v \in Nat : v = trades[i].volume * BucketCount
  BY Products, MicrostructureAssumption
<1>3. PICK f : f = TallyTrade(trades, t, i, short)
  OBVIOUS
<1>4. t \in Tallies /\ t.volume \in Nat /\ t.buckets \in Seq(Ratios) /\ Len(t.buckets) \in Nat
      /\ t.imbalance.num \in Int /\ t.imbalance.den \in Nat \ {0}
  BY TallyFields DEF Balanced
<1>5. Taken(t, size) \in Int
  BY <1>4, Products DEF Taken
<1>6. CASE v = 0
  <2>1. f = t
    BY <1>2, <1>3, <1>6 DEF TallyTrade
  <2>2. QED
    BY <1>1, <1>2, <1>3, <1>5, <1>6, <2>1
<1>7. CASE v # 0
  <2>1. PICK V \in Nat, a \in Int, b \in Nat \ {0} :
             V = t.volume /\ a = t.imbalance.num /\ b = t.imbalance.den
    BY <1>4
  <2>2. PICK w \in {v, -v} : w = IF Bought(trades, i) THEN v ELSE -v
    OBVIOUS
  <2>3. PICK r : r = Reduced(a + w * b, b)
    OBVIOUS
  <2>4. PICK u : u = [volume |-> V + v, buckets |-> t.buckets, imbalance |-> r]
    OBVIOUS
  <2>5. f = FillBuckets(u, size, short)
    BY <1>1, <1>2, <1>3, <1>7, <2>1, <2>2, <2>3, <2>4 DEF TallyTrade
  <2>6. r \in Ratios /\ Within(r, V + v)
    <3>1. -(b * V) <= a /\ a <= b * V
      BY <2>1 DEF Balanced, Within
    <3>2. b * V \in Int /\ b * v \in Nat /\ b * (V + v) = b * V + b * v
      BY Products
    <3>3. w * b = b * v \/ w * b = -(b * v)
      <4>1. v * b = b * v /\ (-v) * b = b * (-v) /\ b * (-v) = -(b * v)
        BY Products
      <4>2. QED
        BY <2>2, <4>1
    <3>4. a + w * b \in Int /\ -(b * (V + v)) <= a + w * b /\ a + w * b <= b * (V + v)
      BY <3>1, <3>2, <3>3
    <3>5. V + v \in Nat
      OBVIOUS
    <3>6. QED
      BY <2>3, <3>4, <3>5, ReducedWithin
  <2>7. u.volume = V + v /\ u.imbalance = r /\ u.buckets = t.buckets /\ u \in Tallies
    <3>1. V + v \in Nat
      OBVIOUS
    <3>2. QED
      BY <1>4, <2>4, <2>6, <3>1 DEF Tallies
  <2>8. Balanced(u)
    BY <2>6, <2>7 DEF Balanced
  <2>9. Taken(u, size) = Taken(t, size) + v
    <3>1. size * Len(t.buckets) \in Int
      BY <1>4, Products
    <3>2. QED
      BY <2>1, <2>7, <3>1 DEF Taken
  <2>10. Balanced(f) /\ Taken(f, size) = Taken(u, size) /\ ~Reaches(f, size, short)
    BY <2>5, <2>8, FillBucketsKeeps
  <2>11. QED
    BY <1>1, <1>2, <1>3, <2>9, <2>10
<1>8. QED
  BY <1>6, <1>7

\* The loops over the trades.
Amounts(trades, n) == n \in Nat /\ n = Len(trades) /\ \A i \in 1..n : trades[i].volume \in Nat
IsUpTo(trades, f) ==
    f = [i \in 0..Len(trades) |-> IF i = 0 THEN 0 ELSE f[i - 1] + trades[i].volume]
UpTo(trades) == CHOOSE f : IsUpTo(trades, f)

LEMMA UpToIs ==
    ASSUME NEW trades, NEW n, Amounts(trades, n)
    PROVE  /\ Traded(trades) = UpTo(trades)[n] /\ UpTo(trades)[0] = 0
           /\ \A i \in 1..n : UpTo(trades)[i] = UpTo(trades)[i - 1] + trades[i].volume
           /\ \A i \in 0..n : UpTo(trades)[i] \in Nat
<1>1. n \in Nat /\ n = Len(trades) /\ \A i \in 1..n : trades[i].volume \in Nat
  BY DEF Amounts
<1>2. \E f : IsUpTo(trades, f)
  <2> DEFINE step == [x \in (1..n) \X Nat |-> x[2] + trades[x[1]].volume]
  <2>1. \A x \in (1..n) \X Nat : x[2] + trades[x[1]].volume \in Nat
    BY <1>1
  <2>2. step \in [(1..n) \X Nat -> Nat]
    BY <2>1
  <2>3. \A i \in 1..n, u \in Nat : step[<<i, u>>] = u + trades[i].volume
    OBVIOUS
  <2> HIDE DEF step
  <2>4. 0 \in Nat
    OBVIOUS
  <2>5. PICK f \in [0..n -> Nat] : LoopsFrom(n, 0, step, f)
    BY <1>1, <2>2, <2>4, LoopRuns
  <2>6. ASSUME NEW k \in 0..n, k # 0 PROVE step[<<k, f[k - 1]>>] = f[k - 1] + trades[k].volume
    <3>1. k \in 1..n /\ k - 1 \in 0..n
      BY <1>1, <2>6
    <3>2. f[k - 1] \in Nat
      BY <3>1
    <3>3. QED
      BY <2>3, <3>1, <3>2
  <2>7. f = [k \in 0..n |-> IF k = 0 THEN 0 ELSE f[k - 1] + trades[k].volume]
    BY <2>5, <2>6 DEF LoopsFrom
  <2>8. QED
    BY <1>1, <2>7 DEF IsUpTo
<1>3. IsUpTo(trades, UpTo(trades))
  BY <1>2 DEF UpTo
<1>4. PICK f : f = UpTo(trades)
  OBVIOUS
<1>5. f = [i \in 0..n |-> IF i = 0 THEN 0 ELSE f[i - 1] + trades[i].volume]
  BY <1>1, <1>3, <1>4 DEF IsUpTo
<1>6. f[0] = 0 /\ \A i \in 1..n : f[i] = f[i - 1] + trades[i].volume
  BY <1>1, <1>5
<1>7. \A i \in 0..n : f[i] \in Nat
  <2> DEFINE B == {i \in 0..n : f[i] \notin Nat}
  <2>1. SUFFICES ASSUME B # {} PROVE FALSE
    OBVIOUS
  <2>2. B \in SUBSET Nat
    BY <1>1
  <2>3. PICK k \in B : \A m \in B : k <= m
    BY <2>1, <2>2, LeastNumber
  <2>4. k \in 1..n /\ k - 1 \in 0..n /\ k - 1 \notin B
    BY <1>1, <1>6, <2>3
  <2>5. f[k - 1] \in Nat /\ trades[k].volume \in Nat
    BY <1>1, <2>4
  <2>6. f[k] \in Nat
    BY <1>6, <2>4, <2>5
  <2>7. QED
    BY <2>3, <2>6
<1>8. Traded(trades) = f[n]
  BY <1>1, <1>4 DEF Traded, UpTo, IsUpTo
<1>9. QED
  BY <1>4, <1>6, <1>7, <1>8

IsTally(trades, short, f) ==
    f = [i \in 0..Len(trades) |->
           IF i = 0 THEN EmptyTally ELSE TallyTrade(trades, f[i - 1], i, short)]

\* However many trades and buckets and however they are rounded, the buckets take the
\* volume of all trades, but for a last one that falls short.
LEMMA BucketsTake ==
    ASSUME NEW trades, NEW n, Amounts(trades, n), Traded(trades) > 0, NEW short
    PROVE  LET t == Tally(trades, short)
           IN  /\ Balanced(t)
               /\ \/ Len(t.buckets) = BucketCount /\ t.volume = 0
                  \/ /\ Len(t.buckets) + 1 = BucketCount /\ t.volume = Traded(trades)
                     /\ BucketCount \in short
<1>1. n \in Nat /\ n = Len(trades) /\ \A i \in 1..n : trades[i].volume \in Nat
  BY DEF Amounts
<1>2. PICK upTo : upTo = UpTo(trades)
  OBVIOUS
<1>3. /\ Traded(trades) = upTo[n] /\ upTo[0] = 0
      /\ \A i \in 1..n : upTo[i] = upTo[i - 1] + trades[i].volume
      /\ \A i \in 0..n : upTo[i] \in Nat
  BY <1>2, UpToIs
<1>4. PICK size \in Nat \ {0} : size = Traded(trades)
  <2>1. upTo[n] \in Nat
    BY <1>1, <1>3
  <2>2. QED
    BY <1>3, <2>1
<1> DEFINE S == {u \in Tallies : Balanced(u) /\ ~Reaches(u, size, short)}
<1>5. EmptyTally \in S /\ Taken(EmptyTally, size) = 0
  <2>1. <<>> \in Seq(Ratios) /\ Len(<<>>) = 0 /\ DOMAIN <<>> = {} /\ size * 0 = 0
    OBVIOUS
  <2>2. EmptyTally.volume = 0 /\ EmptyTally.buckets = <<>> /\ EmptyTally.imbalance = [num |-> 0, den |-> 1]
    BY DEF EmptyTally
  <2>3. [num |-> 0, den |-> 1] \in Ratios /\ Within([num |-> 0, den |-> 1], 0)
    BY DEF Ratios, Within
  <2>4. EmptyTally \in Tallies
    BY <2>1, <2>3 DEF EmptyTally, Tallies
  <2>5. Balanced(EmptyTally)
    BY <2>1, <2>2, <2>3, <2>4 DEF Balanced
  <2>6. Taken(EmptyTally, size) = 0
    BY <2>1, <2>2 DEF Taken
  <2>7. ~Reaches(EmptyTally, size, short)
    BY <2>2 DEF Reaches
  <2>8. QED
    BY <2>4, <2>5, <2>6, <2>7
<1>6. \A u \in S : Balanced(u) /\ ~Reaches(u, size, short)
  OBVIOUS
<1>7. ASSUME NEW u \in S, NEW i \in 1..n
      PROVE  /\ TallyTrade(trades, u, i, short) \in S
             /\ Taken(TallyTrade(trades, u, i, short), size)
                   = Taken(u, size) + trades[i].volume * BucketCount
  <2>1. Balanced(u) /\ ~Reaches(u, Traded(trades), short) /\ Traded(trades) \in Nat \ {0}
    BY <1>4, <1>6
  <2>2. trades[i].volume \in Nat
    BY <1>1
  <2>3. PICK f : f = TallyTrade(trades, u, i, short)
    OBVIOUS
  <2>4. /\ Balanced(f) /\ ~Reaches(f, Traded(trades), short)
        /\ Taken(f, Traded(trades)) = Taken(u, Traded(trades)) + trades[i].volume * BucketCount
    BY <2>1, <2>2, <2>3, TallyTradeKeeps
  <2>5. f \in Tallies
    BY <2>4 DEF Balanced
  <2>6. QED
    BY <1>4, <2>3, <2>4, <2>5
<1> HIDE DEF S
<1>8. \E f : IsTally(trades, short, f)
  <2> DEFINE step == [x \in (1..n) \X S |-> TallyTrade(trades, x[2], x[1], short)]
  <2>1. \A x \in (1..n) \X S : TallyTrade(trades, x[2], x[1], short) \in S
    BY <1>7
  <2>2. step \in [(1..n) \X S -> S]
    BY <2>1
  <2>3. \A i \in 1..n, u \in S : step[<<i, u>>] = TallyTrade(trades, u, i, short)
    OBVIOUS
  <2> HIDE DEF step
  <2>4. PICK f \in [0..n -> S] : LoopsFrom(n, EmptyTally, step, f)
    BY <1>1, <1>5, <2>2, LoopRuns
  <2>5. ASSUME NEW k \in 0..n, k # 0
        PROVE  step[<<k, f[k - 1]>>] = TallyTrade(trades, f[k - 1], k, short)
    <3>1. k \in 1..n /\ k - 1 \in 0..n
      BY <1>1, <2>5
    <3>2. f[k - 1] \in S
      BY <3>1
    <3>3. QED
      BY <2>3, <3>1, <3>2
  <2>6. f = [k \in 0..n |-> IF k = 0 THEN EmptyTally ELSE TallyTrade(trades, f[k - 1], k, short)]
    BY <2>4, <2>5 DEF LoopsFrom
  <2>7. QED
    BY <1>1, <2>6 DEF IsTally
<1>9. PICK f : IsTally(trades, short, f) /\ Tally(trades, short) = f[n]
  <2> DEFINE g == CHOOSE f : IsTally(trades, short, f)
  <2>1. Tally(trades, short) = g[n]
    BY <1>1 DEF Tally, IsTally
  <2>2. IsTally(trades, short, g)
    BY <1>8
  <2> HIDE DEF g
  <2>3. QED
    BY <2>1, <2>2
<1>10. f[0] = EmptyTally /\ \A i \in 1..n : f[i] = TallyTrade(trades, f[i - 1], i, short)
  BY <1>1, <1>9 DEF IsTally
<1> DEFINE P(i) == f[i] \in S /\ Taken(f[i], size) = BucketCount * upTo[i]
<1>11. P(0)
  BY <1>3, <1>5, <1>10, MicrostructureAssumption
<1>12. ASSUME NEW i \in 1..n, P(i - 1) PROVE P(i)
  <2>1. PICK u \in S : u = f[i - 1]
    BY <1>12
  <2>2. /\ f[i] \in S
        /\ Taken(f[i], size) = Taken(u, size) + trades[i].volume * BucketCount
    BY <1>7, <1>10, <2>1
  <2>3. PICK a \in Nat, v \in Nat : a = upTo[i - 1] /\ v = trades[i].volume
    <3>1. i - 1 \in 0..n
      BY <1>1
    <3>2. QED
      BY <1>1, <1>3, <3>1
  <2>4. BucketCount * (a + v) = BucketCount * a + v * BucketCount
    <3>1. BucketCount * (a + v) = BucketCount * a + BucketCount * v /\ BucketCount * v = v * BucketCount
      BY MicrostructureAssumption, Products
    <3>2. QED
      BY <3>1
  <2>5. upTo[i] = a + v /\ Taken(u, size) = BucketCount * a
    BY <1>3, <1>12, <2>1, <2>3
  <2>6. QED
    BY <2>2, <2>3, <2>4, <2>5
<1>13. P(n)
  <2> HIDE DEF P
  <2> DEFINE B == {k \in 0..n : ~P(k)}
  <2>1. SUFFICES ASSUME B # {} PROVE FALSE
    BY <1>1
  <2>2. B \in SUBSET Nat
    BY <1>1
  <2>3. PICK k \in B : \A m \in B : k <= m
    BY <2>1, <2>2, LeastNumber
  <2>4. k \in 1..n /\ k - 1 \in 0..n /\ k - 1 \notin B
    BY <1>1, <1>11, <2>3
  <2>5. P(k - 1)
    BY <2>4
  <2>6. QED
    BY <1>12, <2>3, <2>4, <2>5
<1>14. PICK t : t = Tally(trades, short)
  OBVIOUS
<1>15. Balanced(t) /\ ~Reaches(t, size, short) /\ Taken(t, size) = BucketCount * size
  BY <1>3, <1>4, <1>6, <1>9, <1>13, <1>14
<1>16. PICK V \in Nat, L \in Nat : V = t.volume /\ L = Len(t.buckets)
  BY <1>15, TallyFields DEF Balanced
<1>17. /\ size * L + V = BucketCount * size /\ V <= size
       /\ V = size => L + 1 \in short
  BY <1>15, <1>16 DEF Taken, Reaches
<1>18. /\ V < size => L = BucketCount /\ V = 0
       /\ V = size => L + 1 = BucketCount
  <2>1. BucketCount \in Nat \ {0} /\ BucketCount * size = size * BucketCount
    BY MicrostructureAssumption, Products
  <2>2. PICK b \in Nat : b = BucketCount
    BY <2>1
  <2>3. size * b = size * L + V /\ size * L \in Int /\ size * b \in Int
    BY <1>17, <2>1, <2>2, Products
  <2>4. L <= b
    <3>1. size * L <= size * b
      BY <2>3
    <3>2. QED
      BY <3>1, Products
  <2>5. size * (L + 1) = size * L + size
    OBVIOUS
  <2>6. ASSUME V < size PROVE L = b
    <3>1. ASSUME L + 1 <= b PROVE FALSE
      <4>1. L + 1 \in Int /\ size \in Nat /\ b \in Int
        OBVIOUS
      <4>2. size * (L + 1) <= size * b
        BY <3>1, <4>1, Products
      <4>3. QED
        BY <2>3, <2>5, <2>6, <4>2
    <3>2. QED
      BY <2>4, <3>1
  <2>7. ASSUME V = size PROVE L + 1 = b
    <3>1. size * (L + 1) = size * b
      BY <2>3, <2>5, <2>7
    <3>2. size * (L + 1) <= size * b /\ size * b <= size * (L + 1)
      BY <2>3, <2>5, <3>1
    <3>3. L + 1 \in Int /\ b \in Int
      OBVIOUS
    <3>4. L + 1 <= b /\ b <= L + 1
      BY <3>2, <3>3, Products
    <3>5. QED
      BY <3>4
  <2>8. V < size => V = 0
    BY <2>3, <2>6
  <2>9. QED
    BY <2>2, <2>6, <2>7, <2>8
<1>19. V < size \/ V = size
  BY <1>17
<1>20. QED
  BY <1>4, <1>14, <1>15, <1>16, <1>17, <1>18, <1>19

\* For any buffer of rows.
LEMMA BucketsTakeRows ==
    ASSUME NEW R, NEW buf \in Seq(R), \A i \in 1..Len(buf) : buf[i].volume \in Nat
    PROVE  BucketsTakeAll(buf)
<1>0. Len(buf) \in Nat /\ (Len(buf) = 0 => buf = <<>>)
  OBVIOUS
<1>1. CASE buf = <<>> \/ ~(Traded(Trades(buf)) > 0)
  BY <1>1 DEF BucketsTakeAll
<1>2. CASE buf # <<>> /\ Traded(Trades(buf)) > 0 /\ Len(buf) # 0
  <2>1. PICK n \in Nat : n = Len(buf) - 1
    BY <1>0, <1>2
  <2>2. PICK trades : trades = Trades(buf)
    OBVIOUS
  <2>3. ASSUME NEW i \in 1..n PROVE Max({buf[i + 1].volume - buf[i].volume, 0}) \in Nat
    <3>1. i + 1 \in 1..Len(buf) /\ i \in 1..Len(buf)
      BY <2>1
    <3>2. PICK d \in Int : d = buf[i + 1].volume - buf[i].volume
      BY <3>1
    <3>3. CASE d >= 0
      <4>1. {d, 0} \in SUBSET Nat /\ d \in {d, 0} /\ \A m \in {d, 0} : m <= d
        BY <3>3
      <4>2. QED
        BY <3>2, <4>1, MaxIs
    <3>4. CASE d < 0
      <4>1. 0 \in {d, 0} /\ (\A m \in {d, 0} : 0 >= m) /\ ~(d >= 0)
        BY <3>4
      <4>2. Max({d, 0}) \in {d, 0} /\ \A m \in {d, 0} : Max({d, 0}) >= m
        BY <4>1 DEF Max
      <4>3. Max({d, 0}) = 0
        BY <4>1, <4>2
      <4>4. QED
        BY <3>2, <4>3
    <3>5. QED
      BY <3>3, <3>4
  <2>4. trades = [i \in 1..n |-> [price |-> buf[i + 1].price,
                                 volume |-> Max({buf[i + 1].volume - buf[i].volume, 0})]]
    BY <2>1, <2>2 DEF Trades
  <2>5. Amounts(trades, n)
    <3>1. \A i \in 1..n : trades[i].volume \in Nat
      BY <2>3, <2>4
    <3>2. DOMAIN trades = 1..n
      BY <2>4
    <3>3. Len(trades) = n
      BY <2>4, <3>2
    <3>4. QED
      BY <3>1, <3>3 DEF Amounts
  <2>6. ASSUME NEW short \in SUBSET (1..BucketCount), NEW t, t = Tally(trades, short)
        PROVE  /\ \A i \in DOMAIN t.buckets :
                     -(t.buckets[i].den) <= t.buckets[i].num /\ t.buckets[i].num <= t.buckets[i].den
               /\ \/ Len(t.buckets) = BucketCount /\ t.volume = 0
                  \/ /\ Len(t.buckets) + 1 = BucketCount /\ t.volume = Traded(trades)
                     /\ BucketCount \in short
    <3>1. /\ Balanced(t)
          /\ \/ Len(t.buckets) = BucketCount /\ t.volume = 0
             \/ /\ Len(t.buckets) + 1 = BucketCount /\ t.volume = Traded(trades)
                /\ BucketCount \in short
      BY <1>2, <2>2, <2>5, <2>6, BucketsTake
    <3>2. ASSUME NEW i \in DOMAIN t.buckets
          PROVE  -(t.buckets[i].den) <= t.buckets[i].num /\ t.buckets[i].num <= t.buckets[i].den
      <4>1. Within(t.buckets[i], 1)
        BY <3>1, <3>2 DEF Balanced
      <4>2. t.buckets \in Seq(Ratios)
        BY <3>1, TallyFields DEF Balanced
      <4>3. t.buckets[i] \in Ratios
        BY <3>2, <4>2
      <4>4. t.buckets[i].den * 1 = t.buckets[i].den
        BY <4>3 DEF Ratios
      <4>5. QED
        BY <4>1, <4>4 DEF Within
    <3>3. QED
      BY <3>1, <3>2
  <2>7. QED
    BY <2>2, <2>6 DEF BucketsTakeAll
<1>3. QED
  BY <1>0, <1>1, <1>2

\* On every buffer that the filter and the bus let the pipeline have (pipeline.py), of any
\* length and volume, and whichever buckets its floats let fall short by rounding, the
\* while loop of vpin.py fills bucket_count buckets, which take the whole volume traded,
\* but for the last one, which stays in hand when it falls short itself; and no bucket is
\* more out of balance than it holds.
THEOREM BucketsAreFilled == FilterSpec => []BucketsAgree
<1>1. FilterInv => BucketsAgree
  <2>1. SUFFICES ASSUME FilterInv PROVE BucketsTakeAll(ticks)
    BY DEF BucketsAgree
  <2>2. ticks \in Seq(FilterRows) /\ \A i \in 1..Len(ticks) : ticks[i] \in FilterRows
    BY <2>1 DEF FilterInv, FilterShape
  <2>3. \A i \in 1..Len(ticks) : ticks[i].volume \in Nat
    BY <2>2 DEF FilterRows
  <2>4. QED
    BY <2>2, <2>3, BucketsTakeRows
<1>2. QED
  BY <1>1, FilterInductive, PTL

-----------------------------------------------------------------------------
(* Backfill.                                                                    *)
ScriptPcs == {"off", "check", "download", "write", "flush", "end"}
Scripts == [pc : ScriptPcs, date : 0..LastDate, attempt : Nat, part : 0..Parts + 1]
Flushers == {ByScript, ByLoop}

BackfillShape ==
    /\ script \in Scripts
    /\ buffer \subseteq Rows /\ inserting \in [Flushers -> SUBSET Rows]
    /\ table \in [Rows -> Nat] /\ file \subseteq Rows
    /\ cut \subseteq Dates /\ doubtful \subseteq Rows
    /\ script.pc \in {"check", "download", "write", "flush"} => script.date \in Dates
    /\ script.pc = "write" => script.part \in 1..Parts

\* Who goes on to the next date has handed all of the last one to an insert and has
\* awaited it, unless the flush loop has it.
HandedOver ==
    /\ script.pc # "write" => buffer = {}
    /\ script.pc \notin {"write", "flush"} => inserting[ByScript] = {}
    /\ script.pc = "off" => inserting[ByLoop] = {}

\* A row that is in the table, in the file or on its way. What is in the table or on
\* its way belongs to a date that is complete, is being loaded, or was cut.
Known(r) == table[r] > 0 \/ r \in file \/ r \in InMemory
Loading(d) == d = script.date /\ script.pc \in {"write", "flush"}
Touched(d) == HasRows(d) \/ d \in DatesOf(InMemory)
Complete(d) == \A p \in 1..Parts : Known(<<d, p>>)

DatesComplete == \A d \in Dates : Touched(d) => d \in cut \/ Loading(d) \/ Complete(d)
WrittenSoFar ==
    Loading(script.date) /\ script.date \notin cut =>
      \A p \in 1..Parts : (script.pc = "write" /\ script.part <= p) \/ Known(<<script.date, p>>)

\* A row whose insert is not doubtful is in one place at most, and what is yet to be
\* written is in none.
One(b) == IF b THEN 1 ELSE 0
Copies(r) == table[r] + One(r \in buffer) + One(r \in inserting[ByScript]) + One(r \in inserting[ByLoop])
OnePlace == \A r \in Rows : r \in doubtful \/ Copies(r) <= 1
Absent(r) == r \notin InMemory /\ (table[r] = 0 \/ r \in doubtful)
NotYetWritten ==
    /\ script.pc \in {"check", "download"} => \A r \in InMemory : r[1] < script.date
    /\ script.pc \in {"write", "flush"} => \A r \in InMemory : r[1] <= script.date
    /\ script.pc = "download" => \A p \in 1..Parts : Absent(<<script.date, p>>)
    /\ script.pc = "write" => \A p \in script.part..Parts : Absent(<<script.date, p>>)

BackfillInv ==
    BackfillShape /\ HandedOver /\ DatesComplete /\ WrittenSoFar /\ OnePlace /\ NotYetWritten

LEMMA RowFacts ==
    /\ \A r \in Rows : r[1] \in Dates /\ r[2] \in 1..Parts /\ r = <<r[1], r[2]>>
    /\ \A d \in Dates, p \in 1..Parts : <<d, p>> \in Rows /\ <<d, p>>[1] = d /\ <<d, p>>[2] = p
  BY DEF Rows

LEMMA NextDateFacts ==
    ASSUME NEW d \in Dates
    PROVE  /\ NextDate(d) \in Scripts
           /\ \/ NextDate(d).pc = "check" /\ NextDate(d).date = d + 1 /\ d + 1 \in Dates
              \/ NextDate(d).pc = "end"
<1>1. LastDate \in Nat /\ Parts \in Nat /\ d \in 1..LastDate
  BY BackfillAssumption DEF Dates
<1>2. CASE d < LastDate
  <2>1. d + 1 \in 1..LastDate /\ NextDate(d) = Stand("check", d + 1)
    BY <1>1, <1>2 DEF NextDate
  <2>2. QED
    BY <1>1, <2>1 DEF Stand, Scripts, ScriptPcs, Dates
<1>3. CASE ~(d < LastDate)
  <2>1. NextDate(d) = Stand("end", 0)
    BY <1>3 DEF NextDate
  <2>2. QED
    BY <1>1, <2>1 DEF Stand, Scripts, ScriptPcs
<1>4. QED
  BY <1>2, <1>3

LEMMA BackfillInitInv == BackfillInit => BackfillInv
<1> SUFFICES ASSUME BackfillInit PROVE BackfillInv
  OBVIOUS
<1>1. /\ script.pc = "off" /\ script \in Scripts /\ InMemory = {}
      /\ \A r \in Rows : table[r] = 0
  BY BackfillAssumption DEF BackfillInit, Off, Scripts, ScriptPcs, InMemory
<1>2. \A d \in Dates : ~Touched(d)
  <2>1. DatesOf(InMemory) = {}
    BY <1>1 DEF DatesOf
  <2>2. ASSUME NEW d \in Dates, NEW p \in 1..Parts PROVE ~(table[<<d, p>>] > 0)
    <3>1. <<d, p>> \in Rows
      BY DEF Rows
    <3>2. QED
      BY <1>1, <3>1
  <2>3. QED
    BY <2>1, <2>2 DEF Touched, HasRows
<1>3. OnePlace
  BY <1>1 DEF BackfillInit, OnePlace, Copies, One
<1>4. BackfillShape /\ HandedOver
  BY <1>1 DEF BackfillInit, BackfillShape, HandedOver, Flushers
<1>5. QED
  BY <1>1, <1>2, <1>3, <1>4 DEF BackfillInv, DatesComplete, WrittenSoFar, Loading, NotYetWritten

\* A step of the script that moves no row.
LEMMA ScriptMoves ==
    ASSUME BackfillInv, UNCHANGED <<buffer, inserting, table, file, cut>>,
           doubtful \subseteq doubtful', doubtful' \subseteq Rows,
           script' \in Scripts,
           script'.pc \in {"check", "download", "write", "flush"} => script'.date \in Dates,
           script'.pc = "write" => script'.part = 1,
           script'.pc \notin {"off", "flush"},
           script.pc # "write", script.pc = "flush" => inserting[ByScript] = {},
           script'.pc \in {"check", "download", "write"} => \A r \in InMemory : r[1] < script'.date,
           script'.pc \in {"download", "write"} =>
             \A p \in 1..Parts : table[<<script'.date, p>>] = 0 \/ <<script'.date, p>> \in doubtful'
    PROVE  BackfillInv'
<1>1. BackfillShape'
  <2>1. script'.pc = "write" => script'.part \in 1..Parts
    BY BackfillAssumption
  <2>2. QED
    BY <2>1 DEF BackfillInv, BackfillShape
<1>2. HandedOver'
  BY DEF BackfillInv, HandedOver, Scripts, ScriptPcs
<1>3. InMemory' = InMemory
  BY DEF InMemory
<1>4. /\ \A r : Known(r)' <=> Known(r)
      /\ \A d : Touched(d)' <=> Touched(d)
  BY <1>3 DEF Known, Touched, HasRows
<1>5. ASSUME NEW d \in Dates, Loading(d), d \notin cut PROVE Complete(d)
  BY <1>5 DEF BackfillInv, WrittenSoFar, Loading, Complete
<1>6. DatesComplete'
  BY <1>4, <1>5 DEF BackfillInv, DatesComplete, Complete
<1>7. WrittenSoFar'
  <2>1. ASSUME NEW p \in 1..Parts, Loading(script.date)' PROVE script'.pc = "write" /\ script'.part <= p
    BY <2>1 DEF Loading
  <2>2. QED
    BY <2>1 DEF WrittenSoFar, Loading
<1>8. OnePlace'
  BY DEF BackfillInv, OnePlace, Copies
<1>9. NotYetWritten'
  <2>1. ASSUME script'.pc \in {"download", "write"}, NEW p \in 1..Parts
        PROVE  Absent(<<script.date, p>>)'
    <3>1. script'.date \in Dates /\ <<script'.date, p>>[1] = script'.date
      BY <2>1
    <3>2. \A r \in InMemory : r[1] < script'.date
      BY <2>1
    <3>3. <<script'.date, p>> \notin InMemory
      BY <3>1, <3>2 DEF Dates
    <3>4. QED
      BY <1>3, <2>1, <3>3 DEF Absent
  <2>2. script'.pc \in {"check", "download"} => \A r \in InMemory' : r[1] < script'.date
    BY <1>3
  <2>3. script'.pc \in {"write", "flush"} => \A r \in InMemory' : r[1] <= script'.date
    <3>1. ASSUME script'.pc = "write", NEW r \in InMemory PROVE r[1] <= script'.date
      <4>1. r[1] \in Dates /\ script'.date \in Dates /\ r[1] < script'.date
        BY <3>1, RowFacts DEF BackfillInv, BackfillShape, InMemory, Flushers
      <4>2. QED
        BY <4>1 DEF Dates
    <3>2. QED
      BY <1>3, <3>1
  <2>4. script'.pc = "write" => \A p \in script'.part..Parts : Absent(<<script.date, p>>)'
    BY <2>1
  <2>5. QED
    BY <2>1, <2>2, <2>3, <2>4 DEF NotYetWritten
<1>10. QED
  BY <1>1, <1>2, <1>6, <1>7, <1>8, <1>9 DEF BackfillInv

LEMMA ScriptStepsKeep ==
    ASSUME BackfillInv, StartScript \/ CheckDate \/ CheckFails \/ Download \/ DownloadFails \/ DateDone
    PROVE  BackfillInv'
<1>1. BackfillShape /\ HandedOver /\ NotYetWritten
  BY DEF BackfillInv
<1>2. ASSUME script.pc \in {"check", "download", "flush"}, script' = NextDate(script.date),
             script.pc = "flush" => inserting[ByScript] = {},
             UNCHANGED <<buffer, inserting, table, file, cut>>, UNCHANGED doubtful
      PROVE  BackfillInv'
  <2>1. script.date \in Dates
    BY <1>1, <1>2 DEF BackfillShape
  <2>2. /\ script' \in Scripts
        /\ \/ script'.pc = "check" /\ script'.date = script.date + 1 /\ script.date + 1 \in Dates
           \/ script'.pc = "end"
    BY <1>2, <2>1, NextDateFacts
  <2>3. script'.pc = "check" => \A r \in InMemory : r[1] < script'.date
    <3>1. ASSUME NEW r \in InMemory PROVE r[1] \in Dates /\ r[1] <= script.date
      <4>1. r[1] \in Dates
        BY <1>1, RowFacts DEF BackfillShape, InMemory, Flushers
      <4>2. r[1] < script.date \/ r[1] <= script.date
        BY <1>1, <1>2 DEF NotYetWritten
      <4>3. QED
        BY <2>1, <4>1, <4>2 DEF Dates
    <3>2. QED
      BY <2>1, <2>2, <3>1 DEF Dates
  <2>4. doubtful' \subseteq Rows
    BY <1>1, <1>2 DEF BackfillShape
  <2>5. QED
    BY <1>2, <2>2, <2>3, <2>4, ScriptMoves
<1>3. CASE StartScript
  <2>1. script' = Stand("check", 1) /\ UNCHANGED <<buffer, inserting, table, file, cut, doubtful>>
        /\ script.pc = "off" /\ LastDate > 0
    BY <1>3 DEF StartScript
  <2>2. InMemory = {}
    BY <1>1, <2>1 DEF HandedOver, InMemory
  <2>3. script' \in Scripts /\ script'.pc = "check" /\ script'.date \in Dates
    BY <2>1, BackfillAssumption DEF Stand, Scripts, ScriptPcs, Dates
  <2>4. QED
    BY <1>1, <2>1, <2>2, <2>3, ScriptMoves DEF BackfillShape
<1>4. CASE CheckDate /\ HasRows(script.date)
  BY <1>2, <1>4 DEF CheckDate
<1>5. CASE (CheckDate /\ ~HasRows(script.date)) \/ CheckFails
  <2>1. /\ script' = Stand("download", script.date) /\ script.pc = "check"
        /\ UNCHANGED <<buffer, inserting, table, file, cut>> /\ doubtful \subseteq doubtful'
    BY <1>5 DEF CheckDate, CheckFails
  <2>2. script.date \in Dates
    BY <1>1, <2>1 DEF BackfillShape
  <2>3. script' \in Scripts /\ script'.pc = "download" /\ script'.date = script.date
    BY <2>1, <2>2, BackfillAssumption DEF Stand, Scripts, ScriptPcs, Dates
  <2>4. doubtful' \subseteq Rows
    BY <1>1, <1>5, <2>2 DEF CheckDate, CheckFails, BackfillShape, Rows
  <2>5. \A p \in 1..Parts : table[<<script.date, p>>] = 0 \/ <<script.date, p>> \in doubtful'
    <3>1. CASE CheckFails
      BY <3>1 DEF CheckFails
    <3>2. CASE ~HasRows(script.date)
      <4>1. \A p \in 1..Parts : table[<<script.date, p>>] \in Nat
        BY <1>1, <2>2, RowFacts DEF BackfillShape
      <4>2. QED
        BY <3>2, <4>1 DEF HasRows
    <3>3. QED
      BY <1>5, <3>1, <3>2
  <2>6. \A r \in InMemory : r[1] < script'.date
    BY <1>1, <2>1, <2>3 DEF NotYetWritten
  <2>7. QED
    BY <2>1, <2>2, <2>3, <2>4, <2>5, <2>6, ScriptMoves
<1>6. CASE Download \/ DownloadFails
  <2>1. /\ script.pc = "download" /\ UNCHANGED <<buffer, inserting, table, file, cut, doubtful>>
        /\ \/ script' = NextDate(script.date)
           \/ script' = [script EXCEPT !.pc = "write", !.part = 1]
           \/ script' = [script EXCEPT !.attempt = @ + 1]
    BY <1>6 DEF Download, DownloadFails
  <2>2. CASE script' = NextDate(script.date)
    BY <1>2, <2>1, <2>2
  <2>3. CASE script' # NextDate(script.date)
    <3>1. /\ script' \in Scripts /\ script'.date = script.date /\ script.date \in Dates
          /\ script'.pc \in {"download", "write"} /\ (script'.pc = "write" => script'.part = 1)
      <4>1. script \in Scripts /\ script.date \in Dates /\ script.attempt + 1 \in Nat /\ 1 \in 0..Parts + 1
        BY <1>1, <2>1, BackfillAssumption DEF BackfillShape, Scripts
      <4>2. CASE script' = [script EXCEPT !.pc = "write", !.part = 1]
        BY <4>1, <4>2 DEF Scripts, ScriptPcs
      <4>3. CASE script' = [script EXCEPT !.attempt = @ + 1]
        BY <2>1, <4>1, <4>3 DEF Scripts
      <4>4. QED
        BY <2>1, <2>3, <4>2, <4>3
    <3>2. \A r \in InMemory : r[1] < script'.date
      BY <1>1, <2>1, <3>1 DEF NotYetWritten
    <3>3. \A p \in 1..Parts : table[<<script.date, p>>] = 0 \/ <<script.date, p>> \in doubtful'
      BY <1>1, <2>1 DEF NotYetWritten, Absent
    <3>4. doubtful \subseteq doubtful' /\ doubtful' \subseteq Rows
      BY <1>1, <2>1 DEF BackfillShape
    <3>5. QED
      BY <2>1, <3>1, <3>2, <3>3, <3>4, ScriptMoves
  <2>4. QED
    BY <2>2, <2>3
<1>7. CASE DateDone
  BY <1>2, <1>7 DEF DateDone
<1>8. QED
  BY <1>3, <1>4, <1>5, <1>6, <1>7

\* A step that hands rows on, or has an insert end: no row is forgotten or doubled.
LEMMA RowsMove ==
    ASSUME BackfillInv, UNCHANGED script, cut \subseteq cut', BackfillShape', HandedOver',
           InMemory' \subseteq InMemory, doubtful \subseteq doubtful',
           \A r \in Rows : Known(r) => Known(r)' \/ r[1] \in cut',
           \A r \in Rows : r \in InMemory \/ table'[r] = table[r],
           \A r \in Rows : r \in doubtful' \/ Copies(r)' <= Copies(r)
    PROVE  BackfillInv'
<1>1. ASSUME NEW d \in Dates, Touched(d)' PROVE Touched(d)
  <2>1. ASSUME NEW p \in 1..Parts, table'[<<d, p>>] > 0 PROVE Touched(d)
    <3>1. <<d, p>> \in Rows /\ <<d, p>>[1] = d
      BY RowFacts
    <3>2. CASE <<d, p>> \in InMemory
      BY <3>1, <3>2 DEF Touched, DatesOf
    <3>3. CASE table'[<<d, p>>] = table[<<d, p>>]
      BY <2>1, <3>3 DEF Touched, HasRows
    <3>4. QED
      BY <3>1, <3>2, <3>3
  <2>2. CASE HasRows(d)'
    BY <2>1, <2>2 DEF HasRows
  <2>3. CASE d \in DatesOf(InMemory')
    BY <2>3 DEF Touched, DatesOf
  <2>4. QED
    BY <1>1, <2>2, <2>3 DEF Touched
<1>2. DatesComplete'
  <2>1. \A d \in Dates : Complete(d) => Complete(d)' \/ d \in cut'
    BY RowFacts DEF Complete
  <2>2. QED
    BY <1>1, <2>1 DEF BackfillInv, DatesComplete, Loading
<1>3. WrittenSoFar'
  <2>1. Loading(script.date) => script.date \in Dates
    BY DEF Loading, BackfillInv, BackfillShape
  <2>2. QED
    BY <2>1, RowFacts DEF BackfillInv, WrittenSoFar, Loading
<1>4. OnePlace'
  <2>1. \A r \in Rows : Copies(r) \in Int /\ Copies(r)' \in Int
    BY DEF BackfillInv, BackfillShape, Copies, One
  <2>2. QED
    BY <2>1 DEF BackfillInv, OnePlace
<1>5. NotYetWritten'
  <2>1. \A r \in Rows : Absent(r) => Absent(r)'
    BY DEF Absent
  <2>2. script.pc \in {"download", "write"} => script.date \in Dates
    BY DEF BackfillInv, BackfillShape
  <2>3. \A p \in script.part..Parts : script.pc = "write" => p \in 1..Parts
    BY DEF BackfillInv, BackfillShape
  <2>4. script.pc = "download" => \A p \in 1..Parts : Absent(<<script.date, p>>)'
    BY <2>1, <2>2, RowFacts DEF BackfillInv, NotYetWritten
  <2>5. script.pc = "write" => \A p \in script.part..Parts : Absent(<<script.date, p>>)'
    BY <2>1, <2>2, <2>3, RowFacts DEF BackfillInv, NotYetWritten
  <2>6. QED
    BY <2>4, <2>5 DEF BackfillInv, NotYetWritten
<1>6. QED
  BY <1>2, <1>3, <1>4, <1>5 DEF BackfillInv

LEMMA LoopFlushesKeeps == ASSUME BackfillInv, LoopFlushes PROVE BackfillInv'
<1>1. /\ inserting[ByLoop] = {} /\ buffer # {} /\ buffer' = {}
      /\ inserting' = [inserting EXCEPT ![ByLoop] = buffer]
      /\ UNCHANGED <<script, table, file, cut, doubtful>>
  BY DEF LoopFlushes
<1>2. BackfillShape /\ HandedOver /\ ByScript # ByLoop
  BY DEF BackfillInv, ByScript, ByLoop
<1>3. inserting'[ByLoop] = buffer /\ inserting'[ByScript] = inserting[ByScript]
      /\ inserting' \in [Flushers -> SUBSET Rows]
  BY <1>1, <1>2 DEF BackfillShape, Flushers
<1>4. InMemory' = InMemory
  BY <1>1, <1>3 DEF InMemory
<1>5. BackfillShape'
  BY <1>1, <1>2, <1>3 DEF BackfillShape
<1>6. HandedOver'
  BY <1>1, <1>2, <1>3 DEF HandedOver
<1>7. \A r \in Rows : Copies(r)' <= Copies(r)
  BY <1>1, <1>2, <1>3 DEF BackfillShape, Copies, One
<1>8. \A r \in Rows : Known(r) => Known(r)'
  BY <1>1, <1>4 DEF Known
<1>9. QED
  BY <1>1, <1>4, <1>5, <1>6, <1>7, <1>8, RowsMove

\* The end of an insert: its rows are in the table, once or twice, in the file, or gone.
LEMMA InsertsKeep ==
    ASSUME BackfillInv, NEW w \in Flushers, Insert(w) \/ InsertTwice(w) \/ InsertFails(w)
    PROVE  BackfillInv'
<1>1. inserting' = [inserting EXCEPT ![w] = {}] /\ UNCHANGED <<script, buffer>>
  <2>1. CASE InsertFails(w)
    BY <2>1 DEF InsertFails, Inserted
  <2>2. CASE Insert(w) \/ InsertTwice(w)
    BY <2>2 DEF Insert, InsertTwice, Inserted
  <2>3. QED
    BY <2>1, <2>2
<1>2. BackfillShape /\ HandedOver /\ ByScript # ByLoop
  BY DEF BackfillInv, ByScript, ByLoop
<1>3. /\ inserting' \in [Flushers -> SUBSET Rows] /\ inserting'[w] = {}
      /\ \A v \in Flushers \ {w} : inserting'[v] = inserting[v]
  BY <1>1, <1>2 DEF BackfillShape, Flushers
<1>4. inserting[w] \subseteq Rows /\ inserting[w] \subseteq InMemory
      /\ InMemory' \subseteq InMemory /\ InMemory \subseteq InMemory' \cup inserting[w]
  BY <1>1, <1>2, <1>3 DEF BackfillShape, InMemory, Flushers
<1> DEFINE Ends(k, kept) ==
        /\ \A r \in Rows : table'[r] = IF r \in inserting[w] THEN table[r] + k ELSE table[r]
        /\ k = 0 => /\ file' = file \cup kept /\ doubtful' = doubtful
                    /\ cut' = cut \cup DatesOf(inserting[w] \ kept)
        /\ k = 1 => file' = file /\ doubtful' = doubtful /\ cut' = cut
        /\ k = 2 => file' = file /\ doubtful' = doubtful \cup inserting[w] /\ cut' = cut
<1>5. PICK k \in {0, 1, 2}, kept \in SUBSET inserting[w] : Ends(k, kept)
  <2>1. \A r \in Rows : table[r] + 0 = table[r]
    BY <1>2 DEF BackfillShape
  <2>2. CASE InsertFails(w)
    <3>1. PICK kept \in SUBSET inserting[w] :
            file' = file \cup kept /\ cut' = cut \cup DatesOf(inserting[w] \ kept)
      BY <2>2 DEF InsertFails
    <3>2. \A r \in Rows : table'[r] = IF r \in inserting[w] THEN table[r] + 0 ELSE table[r]
      BY <2>1, <2>2 DEF InsertFails
    <3>3. doubtful' = doubtful
      BY <2>2 DEF InsertFails
    <3>4. Ends(0, kept) /\ 0 \in {0, 1, 2}
      BY <3>1, <3>2, <3>3
    <3> HIDE DEF Ends
    <3>5. QED
      BY <3>4
  <2>3. CASE Insert(w)
    <3>1. Ends(1, {}) /\ 1 \in {0, 1, 2} /\ {} \in SUBSET inserting[w]
      BY <2>3 DEF Insert
    <3> HIDE DEF Ends
    <3>2. QED
      BY <3>1
  <2>4. CASE InsertTwice(w)
    <3>1. Ends(2, {}) /\ 2 \in {0, 1, 2} /\ {} \in SUBSET inserting[w]
      BY <2>4 DEF InsertTwice
    <3> HIDE DEF Ends
    <3>2. QED
      BY <3>1
  <2>5. QED
    BY <2>2, <2>3, <2>4
<1>6. table' \in [Rows -> Nat]
  <2>1. \E f : table' = [r \in Rows |-> f[r]]
    <3>1. table' = table \/ table' = [r \in Rows |-> IF r \in inserting[w] THEN table[r] + 1 ELSE table[r]]
          \/ table' = [r \in Rows |-> IF r \in inserting[w] THEN table[r] + 2 ELSE table[r]]
      BY DEF Insert, InsertTwice, InsertFails
    <3>2. table = [r \in Rows |-> table[r]]
      BY <1>2 DEF BackfillShape
    <3>3. QED
      BY <1>2, <1>5, <3>1, <3>2
  <2>2. \A r \in Rows : table'[r] \in Nat
    BY <1>2, <1>5 DEF BackfillShape
  <2>3. QED
    BY <2>1, <2>2
<1>7. BackfillShape'
  <2>1. file' \subseteq Rows /\ doubtful' \subseteq Rows
    BY <1>2, <1>4, <1>5 DEF BackfillShape
  <2>2. cut' \subseteq Dates
    <3>1. \A r \in inserting[w] : r[1] \in Dates
      BY <1>4, RowFacts
    <3>2. DatesOf(inserting[w] \ kept) \subseteq Dates
      BY <3>1 DEF DatesOf
    <3>3. QED
      BY <1>2, <1>5, <3>2 DEF BackfillShape
  <2>3. QED
    BY <1>1, <1>2, <1>3, <1>6, <2>1, <2>2 DEF BackfillShape
<1>8. HandedOver'
  BY <1>1, <1>2, <1>3 DEF HandedOver, Flushers
<1>9. \A r \in Rows : Known(r) => Known(r)' \/ r[1] \in cut'
  <2>1. \A r \in Rows : r \in inserting[w] => table'[r] > 0 \/ r \in file' \/ r[1] \in cut'
    <3>1. ASSUME NEW r \in inserting[w], r \in Rows, k = 0 PROVE r \in file' \/ r[1] \in cut'
      BY <1>5, <3>1 DEF DatesOf
    <3>2. ASSUME NEW r \in inserting[w], r \in Rows, k # 0 PROVE table'[r] > 0
      BY <1>2, <1>5, <3>2 DEF BackfillShape
    <3>3. QED
      BY <3>1, <3>2
  <2>2. \A r \in Rows : table[r] > 0 => table'[r] > 0
    BY <1>2, <1>5 DEF BackfillShape
  <2>3. file \subseteq file'
    BY <1>5
  <2>4. QED
    BY <1>4, <2>1, <2>2, <2>3 DEF Known
<1>10. \A r \in Rows : r \in InMemory \/ table'[r] = table[r]
  BY <1>4, <1>5
<1>11. ASSUME NEW r \in Rows PROVE r \in doubtful' \/ Copies(r)' <= Copies(r)
  <2>1. CASE r \in inserting[w]
    BY <1>1, <1>2, <1>3, <1>5, <2>1 DEF Copies, One, Flushers, BackfillShape
  <2>2. CASE r \notin inserting[w]
    <3>1. /\ table'[r] = table[r] /\ (r \in buffer' <=> r \in buffer)
          /\ \A v \in Flushers : r \in inserting'[v] <=> r \in inserting[v]
      BY <1>1, <1>3, <1>5, <2>2
    <3>2. Copies(r)' = Copies(r)
      BY <3>1 DEF Copies, Flushers, One
    <3>3. QED
      BY <3>2, <1>2 DEF Copies, One, BackfillShape
  <2>3. QED
    BY <2>1, <2>2
<1>12. doubtful \subseteq doubtful' /\ cut \subseteq cut'
  BY <1>5
<1>13. QED
  BY <1>1, <1>4, <1>7, <1>8, <1>9, <1>10, <1>11, <1>12, RowsMove

\* One more row is on its way, which was nowhere before.
LEMMA WritePartKeeps == ASSUME BackfillInv, WritePart PROVE BackfillInv'
<1>1. BackfillShape /\ HandedOver /\ ByScript # ByLoop /\ ByScript \in Flushers /\ ByLoop \in Flushers
  BY DEF BackfillInv, ByScript, ByLoop, Flushers
<1>2. PICK d \in Dates, q \in 1..Parts : d = script.date /\ q = script.part
  BY <1>1 DEF BackfillShape, WritePart
<1> DEFINE r0 == <<d, q>>
           added == buffer \cup {r0}
           next == IF q = Parts THEN "flush" ELSE "write"
<1>3. /\ script.pc = "write" /\ inserting[ByScript] = {}
      /\ \/ inserting' = [inserting EXCEPT ![ByScript] = added] /\ buffer' = {}
         \/ buffer' = added /\ inserting' = inserting /\ q # Parts
      /\ script' = [script EXCEPT !.part = q + 1, !.pc = next]
      /\ UNCHANGED <<table, file, cut, doubtful>>
  BY <1>2 DEF WritePart
<1>4. /\ r0 \in Rows /\ r0[1] = d /\ r0[2] = q /\ Parts \in Nat \ {0}
  BY RowFacts, BackfillAssumption
<1>5. /\ script' \in Scripts /\ script'.date = d /\ script'.part = q + 1 /\ script'.pc = next
  <2>1. q + 1 \in 0..Parts + 1 /\ next \in ScriptPcs
    BY <1>4 DEF ScriptPcs
  <2> HIDE DEF next
  <2>2. QED
    BY <1>1, <1>2, <1>3, <2>1 DEF BackfillShape, Scripts
<1> HIDE DEF r0
<1>6. /\ inserting'[ByLoop] = inserting[ByLoop] /\ inserting' \in [Flushers -> SUBSET Rows]
      /\ \/ inserting'[ByScript] = added /\ buffer' = {}
         \/ inserting'[ByScript] = {} /\ buffer' = added /\ next = "write"
      /\ buffer' \subseteq Rows
  BY <1>1, <1>3, <1>4 DEF BackfillShape
<1>7. InMemory' = InMemory \cup {r0}
  BY <1>3, <1>6 DEF InMemory
<1>8. BackfillShape'
  <2>1. script'.pc = "write" => script'.part \in 1..Parts
    BY <1>4, <1>5
  <2>2. QED
    BY <1>1, <1>2, <1>3, <1>4, <1>5, <1>6, <2>1 DEF BackfillShape
<1>9. HandedOver'
  BY <1>3, <1>5, <1>6 DEF HandedOver
<1>10. \A r : Known(r)' <=> Known(r) \/ r = r0
  BY <1>3, <1>7 DEF Known
<1>11. DatesComplete'
  <2>1. ASSUME NEW e \in Dates, Touched(e)' PROVE Touched(e) \/ e = d
    <3>1. HasRows(e)' => HasRows(e)
      BY <1>3 DEF HasRows
    <3>2. e \in DatesOf(InMemory)' => e \in DatesOf(InMemory) \/ e = d
      BY <1>4, <1>7 DEF DatesOf
    <3>3. QED
      BY <2>1, <3>1, <3>2 DEF Touched
  <2>2. /\ \A e : e = d => Loading(e)'
        /\ \A e : Loading(e) => e = d
    BY <1>2, <1>5 DEF Loading
  <2>3. \A e : Complete(e) => Complete(e)'
    BY <1>10 DEF Complete
  <2>4. \A e \in Dates : Touched(e) => e \in cut \/ Loading(e) \/ Complete(e)
    BY DEF BackfillInv, DatesComplete
  <2>5. ASSUME NEW e \in Dates, Touched(e)' PROVE e \in cut' \/ Loading(e)' \/ Complete(e)'
    BY <1>3, <2>1, <2>2, <2>3, <2>4, <2>5
  <2>6. QED
    BY <2>5 DEF DatesComplete
<1>12. WrittenSoFar'
  <2>1. ASSUME NEW p \in 1..Parts, ~(script'.pc = "write" /\ script'.part <= p)
        PROVE  p = q \/ ~(q <= p)
    BY <1>4, <1>5, <2>1
  <2>2. ASSUME d \notin cut, NEW p \in 1..Parts PROVE q <= p \/ Known(<<d, p>>)
    <3>1. Loading(script.date)
      BY <1>3 DEF Loading
    <3>2. (script.pc = "write" /\ script.part <= p) \/ Known(<<script.date, p>>)
      BY <1>2, <2>2, <3>1 DEF BackfillInv, WrittenSoFar
    <3>3. QED
      BY <1>2, <3>2
  <2>3. ASSUME d \notin cut, NEW p \in 1..Parts
        PROVE  (script'.pc = "write" /\ script'.part <= p) \/ Known(<<script.date, p>>)'
    <3>1. CASE p = q
      BY <1>5, <1>10, <3>1 DEF r0
    <3>2. CASE Known(<<d, p>>)
      BY <1>5, <1>10, <3>2
    <3>3. QED
      BY <2>1, <2>2, <2>3, <3>1, <3>2
  <2>4. QED
    BY <1>3, <1>5, <2>3 DEF WrittenSoFar
<1>13. Absent(r0) /\ \A p \in q..Parts : Absent(<<d, p>>)
  BY <1>2, <1>3, <1>4 DEF BackfillInv, NotYetWritten, r0
<1>14. OnePlace'
  <2>1. ASSUME NEW r \in Rows, r # r0 PROVE Copies(r)' = Copies(r)
    <3>1. /\ table'[r] = table[r] /\ inserting'[ByLoop] = inserting[ByLoop] /\ table[r] \in Nat
          /\ r \notin inserting[ByScript]
      BY <1>1, <1>3, <1>6 DEF BackfillShape
    <3>2. \/ r \in inserting'[ByScript] <=> r \in buffer /\ r \notin buffer'
          \/ r \notin inserting'[ByScript] /\ (r \in buffer' <=> r \in buffer)
      BY <1>6, <2>1
    <3>3. CASE inserting'[ByScript] = added /\ buffer' = {}
      BY <2>1, <3>1, <3>3 DEF Copies, One
    <3>4. CASE inserting'[ByScript] = {} /\ buffer' = added
      BY <2>1, <3>1, <3>4 DEF Copies, One
    <3>5. QED
      BY <1>6, <3>3, <3>4
  <2>2. r0 \notin doubtful => Copies(r0)' = 1
    <3>1. r0 \notin doubtful => table'[r0] = 0 /\ r0 \notin inserting'[ByLoop]
      BY <1>3, <1>6, <1>13 DEF Absent, InMemory
    <3>2. CASE inserting'[ByScript] = added /\ buffer' = {}
      BY <3>1, <3>2 DEF Copies, One
    <3>3. CASE inserting'[ByScript] = {} /\ buffer' = added
      BY <3>1, <3>3 DEF Copies, One
    <3>4. QED
      BY <1>6, <3>2, <3>3
  <2>3. ASSUME NEW r \in Rows PROVE r \in doubtful' \/ Copies(r)' <= 1
    <3>1. r \in doubtful \/ Copies(r) <= 1
      BY DEF BackfillInv, OnePlace
    <3>2. QED
      BY <1>3, <2>1, <2>2, <3>1
  <2>4. QED
    BY <2>3 DEF OnePlace
<1>15. NotYetWritten'
  <2>1. \A r \in InMemory' : r[1] <= d
    <3>1. \A r \in InMemory : r[1] <= d
      BY <1>2, <1>3 DEF BackfillInv, NotYetWritten
    <3>2. r0[1] <= d
      BY <1>4 DEF Dates
    <3>3. QED
      BY <1>7, <3>1, <3>2
  <2>2. ASSUME script'.pc = "write", NEW p \in script'.part..Parts PROVE Absent(<<script.date, p>>)'
    <3>1. p \in q..Parts /\ p # q /\ p \in 1..Parts
      BY <1>4, <1>5, <2>2
    <3>2. <<d, p>> # r0
      BY <3>1 DEF r0
    <3>3. Absent(<<d, p>>)'
      BY <1>3, <1>7, <1>13, <3>1, <3>2 DEF Absent
    <3>4. QED
      BY <1>5, <3>3
  <2>3. script'.pc \in {"write", "flush"} /\ \A r \in InMemory' : r[1] <= script'.date
    BY <1>5, <2>1
  <2>4. QED
    BY <2>2, <2>3 DEF NotYetWritten
<1>16. QED
  BY <1>8, <1>9, <1>11, <1>12, <1>14, <1>15 DEF BackfillInv

\* At the end of a process what is in memory is lost, unless the insert arrives; the
\* dates that lose something are cut.
LEMMA EndProcessKeeps == ASSUME BackfillInv, EndProcess PROVE BackfillInv'
<1> DEFINE came(r, arrived) == {w \in arrived : r \in inserting[w]}
<1>1. PICK arrived \in SUBSET Flushers :
        table' = [r \in Rows |-> table[r] + Cardinality(came(r, arrived))]
  BY DEF EndProcess, Flushers
<1>2. /\ script' = Off /\ buffer' = {} /\ inserting' = [w \in Flushers |-> {}]
      /\ cut' = cut \cup DatesOf(IF script.pc = "end" THEN inserting[ByLoop] ELSE InMemory)
                    \cup (IF script.pc = "write" THEN {script.date} ELSE {})
      /\ UNCHANGED <<file, doubtful>>
  BY DEF EndProcess, Flushers
<1>3. BackfillShape /\ HandedOver /\ ByScript # ByLoop /\ Flushers = {ByScript, ByLoop}
  BY DEF BackfillInv, ByScript, ByLoop, Flushers
<1>4. InMemory \subseteq Rows /\ InMemory' = {}
  BY <1>2, <1>3 DEF BackfillShape, InMemory
<1>5. ASSUME NEW r \in Rows
      PROVE  /\ Cardinality(came(r, arrived)) \in Nat
             /\ Cardinality(came(r, arrived)) <= One(r \in inserting[ByScript]) + One(r \in inserting[ByLoop])
  <2> DEFINE C == came(r, arrived)
  <2>1. IsFiniteSet({}) /\ Cardinality({}) = 0
    BY FS_EmptySet
  <2>2. /\ IsFiniteSet({ByScript}) /\ Cardinality({ByScript}) = 1
        /\ IsFiniteSet({ByLoop}) /\ Cardinality({ByLoop}) = 1
    BY FS_Singleton
  <2>3. Cardinality({ByScript} \cup {ByLoop}) = 2
    <3>1. Cardinality({ByScript} \cup {ByLoop})
            = IF ByLoop \in {ByScript} THEN Cardinality({ByScript}) ELSE Cardinality({ByScript}) + 1
      BY <2>2, FS_AddElement
    <3>2. ByLoop \notin {ByScript}
      BY <1>3
    <3>3. QED
      BY <2>2, <3>1, <3>2
  <2>4. \/ C = {}
        \/ C = {ByScript} /\ r \in inserting[ByScript]
        \/ C = {ByLoop} /\ r \in inserting[ByLoop]
        \/ C = {ByScript} \cup {ByLoop} /\ r \in inserting[ByScript] /\ r \in inserting[ByLoop]
    BY <1>3
  <2> HIDE DEF C
  <2>5. Cardinality(C) \in Nat /\ Cardinality(C) <= One(r \in inserting[ByScript]) + One(r \in inserting[ByLoop])
    <3>1. CASE C = {}
      BY <2>1, <3>1 DEF One
    <3>2. CASE C = {ByScript} /\ r \in inserting[ByScript]
      BY <2>2, <3>2 DEF One
    <3>3. CASE C = {ByLoop} /\ r \in inserting[ByLoop]
      BY <2>2, <3>3 DEF One
    <3>4. CASE C = {ByScript} \cup {ByLoop} /\ r \in inserting[ByScript] /\ r \in inserting[ByLoop]
      BY <2>3, <3>4 DEF One
    <3>5. QED
      BY <2>4, <3>1, <3>2, <3>3, <3>4
  <2>6. QED
    BY <2>5 DEF C
<1> HIDE DEF came
<1>6. table' \in [Rows -> Nat] /\ \A r \in Rows : table'[r] >= table[r] /\ Copies(r)' <= Copies(r)
  <2>1. table' \in [Rows -> Nat]
    BY <1>1, <1>3, <1>5 DEF BackfillShape
  <2>2. ASSUME NEW r \in Rows PROVE table'[r] >= table[r] /\ Copies(r)' <= Copies(r)
    <3>1. table'[r] = table[r] + Cardinality(came(r, arrived)) /\ table[r] \in Nat
      BY <1>1, <1>3 DEF BackfillShape
    <3>2. Copies(r)' = table'[r]
      BY <1>2, <1>3, <2>1 DEF Copies, One
    <3>3. Copies(r) >= table[r] + (One(r \in inserting[ByScript]) + One(r \in inserting[ByLoop]))
      BY <3>1 DEF Copies, One
    <3>4. Copies(r) \in Int /\ One(r \in inserting[ByScript]) \in Int /\ One(r \in inserting[ByLoop]) \in Int
      BY <3>1 DEF Copies, One
    <3>5. QED
      BY <1>5, <3>1, <3>2, <3>3, <3>4
  <2>3. QED
    BY <2>1, <2>2
<1>7. \A r \in Rows : r \notin InMemory => table'[r] = table[r]
  <2>1. ASSUME NEW r \in Rows, r \notin InMemory PROVE table'[r] = table[r]
    <3>1. table'[r] = table[r] + Cardinality(came(r, arrived)) /\ table[r] \in Nat
      BY <1>1, <1>3 DEF BackfillShape
    <3>2. One(r \in inserting[ByScript]) = 0 /\ One(r \in inserting[ByLoop]) = 0
      BY <2>1 DEF InMemory, One
    <3>3. QED
      BY <1>5, <3>1, <3>2
  <2>2. QED
    BY <2>1
<1>8. script' \in Scripts /\ script'.pc = "off"
  BY <1>2, BackfillAssumption DEF Off, Scripts, ScriptPcs
<1>9. BackfillShape'
  <2>1. cut' \subseteq Dates
    <3>1. \A r \in InMemory : r[1] \in Dates
      BY <1>4, RowFacts
    <3>2. inserting[ByLoop] \subseteq InMemory
      BY DEF InMemory
    <3>3. script.pc = "write" => script.date \in Dates
      BY <1>3 DEF BackfillShape
    <3>4. QED
      BY <1>2, <1>3, <3>1, <3>2, <3>3 DEF DatesOf, BackfillShape
  <2>2. QED
    BY <1>2, <1>3, <1>6, <1>8, <2>1 DEF BackfillShape
<1>10. HandedOver'
  BY <1>2, <1>3 DEF HandedOver
<1>11. DatesOf(InMemory) \subseteq cut'
  <2>1. script.pc = "end" => InMemory = inserting[ByLoop]
    BY <1>3 DEF HandedOver, InMemory
  <2>2. QED
    BY <1>2, <2>1
<1>12. DatesComplete'
  <2>1. SUFFICES ASSUME NEW e \in Dates, Touched(e)', e \notin cut' PROVE Complete(e)'
    BY DEF DatesComplete
  <2>2. \A p \in 1..Parts : <<e, p>> \in Rows /\ <<e, p>> \notin InMemory
    BY <1>11, <2>1, RowFacts DEF DatesOf
  <2>3. Touched(e) /\ e \notin cut
    <3>1. HasRows(e)'
      BY <1>4, <2>1 DEF Touched, DatesOf
    <3>2. QED
      BY <1>2, <1>7, <2>1, <2>2, <3>1 DEF Touched, HasRows
  <2>4. Loading(e) => script.pc = "flush"
    BY <1>2, <2>1 DEF Loading
  <2>5. Loading(e) => Complete(e)
    BY <2>3, <2>4 DEF BackfillInv, WrittenSoFar, Loading, Complete
  <2>6. Complete(e)
    BY <2>3, <2>5 DEF BackfillInv, DatesComplete
  <2>7. QED
    BY <1>2, <1>7, <2>2, <2>6 DEF Complete, Known
<1>13. OnePlace'
  <2>1. \A r \in Rows : Copies(r) \in Int /\ Copies(r)' \in Int
    BY <1>3, <1>9 DEF BackfillShape, Copies, One
  <2>2. QED
    BY <1>2, <1>6, <2>1 DEF BackfillInv, OnePlace
<1>14. QED
  BY <1>8, <1>9, <1>10, <1>12, <1>13 DEF BackfillInv, WrittenSoFar, Loading, NotYetWritten

LEMMA BackfillNextKeeps == BackfillInv /\ [BackfillNext]_backfillVars => BackfillInv'
<1> SUFFICES ASSUME BackfillInv, [BackfillNext]_backfillVars PROVE BackfillInv'
  OBVIOUS
<1>1. CASE UNCHANGED backfillVars
  <2>1. UNCHANGED <<script, buffer, inserting, table, file, cut, doubtful>>
    BY <1>1 DEF backfillVars
  <2>2. InMemory' = InMemory
    BY <2>1 DEF InMemory
  <2>3. BackfillShape' /\ HandedOver'
    BY <2>1 DEF BackfillInv, BackfillShape, HandedOver
  <2>4. \A r : (Known(r)' <=> Known(r)) /\ Copies(r)' = Copies(r)
    BY <2>1, <2>2 DEF Known, Copies
  <2>5. \A r \in Rows : Copies(r) <= Copies(r)
    BY DEF BackfillInv, BackfillShape, Copies, One
  <2>6. QED
    BY <2>1, <2>2, <2>3, <2>4, <2>5, RowsMove
<1>2. CASE BackfillNext
  BY <1>2, ScriptStepsKeep, LoopFlushesKeeps, InsertsKeep, WritePartKeeps, EndProcessKeeps
     DEF BackfillNext, Flushers
<1>3. QED
  BY <1>1, <1>2

\* The inductive invariant: no row is in two places unless its insert was doubtful,
\* and a date is complete, being loaded, or was cut.
THEOREM BackfillInductive == BackfillSpec => []BackfillInv
  BY BackfillInitInv, BackfillNextKeeps, PTL DEF BackfillSpec

\* A date that a later run takes for loaded (backfill.py, is_date_loaded) is complete
\* unless an end of the process cut it or rows of it were neither inserted nor saved
\* (clickhouse_writer.py, _write_fallback), and no row is loaded twice unless its insert
\* was tried again or the query failed: for any dates, sizes, runs and errors.
THEOREM BackfillLoadsOnce == BackfillSpec => []LoadedOnce
<1>1. BackfillInv => LoadedOnce
  <2> SUFFICES ASSUME BackfillInv PROVE LoadedOnce
    OBVIOUS
  <2>1. ASSUME NEW d \in Dates, HasRows(d)
        PROVE  \/ d \in cut
               \/ d = script.date /\ script.pc \in {"write", "flush"}
               \/ \A p \in 1..Parts : table[<<d, p>>] > 0 \/ <<d, p>> \in file \cup InMemory
    BY <2>1 DEF BackfillInv, DatesComplete, Touched, Loading, Complete, Known
  <2>2. ASSUME NEW r \in Rows, table[r] > 1 PROVE r \in doubtful
    BY <2>2 DEF BackfillInv, BackfillShape, OnePlace, Copies, One
  <2>3. QED
    BY <2>1, <2>2 DEF LoadedOnce
<1>2. QED
  BY <1>1, BackfillInductive, PTL

-----------------------------------------------------------------------------
(* Training.                                                                    *)
\* A model at hand has learnt the rows of its window; the saved one has learnt nothing
\* later than the day it was tested from, and was tested on nothing earlier.
TrainingInv ==
    /\ learnable \in Learnable /\ current \in Nat
    /\ learnt \subseteq learnable
    /\ learnt # {} => learnt = PrepareTrainingData(current, current + TrainDays)
    /\ onnx.from \in Nat /\ onnx.learnt \subseteq Nat /\ onnx.tested \subseteq Nat
    /\ \A i \in onnx.learnt : DayOf(i + Ahead) <= onnx.from
    /\ \A j \in onnx.tested : onnx.from <= DayOf(j)

Below(S, i) == {m \in S : m < i}

\* InOrder numbers the rows from 0 by their ticks.
LEMMA RowsInOrder ==
    ASSUME NEW S \in SUBSET Nat, IsFiniteSet(S), NEW k \in 0..Cardinality(S) - 1
    PROVE  InOrder(S)[k] \in S /\ Cardinality(Below(S, InOrder(S)[k])) = k
<1> DEFINE n == Cardinality(S)
           places == 0..n - 1
           rank == [i \in S |-> Cardinality(Below(S, i))]
<1>1. n \in Nat /\ \A i \in S : i \in Nat
  BY FS_CardinalityType
<1>2. ASSUME NEW i \in S
      PROVE  /\ IsFiniteSet(Below(S, i)) /\ Cardinality(Below(S, i)) \in Nat
             /\ IsFiniteSet(Below(S, i) \cup {i})
             /\ Cardinality(Below(S, i) \cup {i}) = Cardinality(Below(S, i)) + 1
  <2>1. Below(S, i) \in SUBSET S /\ i \notin Below(S, i)
    BY DEF Below
  <2>2. IsFiniteSet(Below(S, i))
    BY <2>1, FS_Subset
  <2>3. QED
    BY <2>1, <2>2, FS_CardinalityType, FS_AddElement
<1>3. ASSUME NEW i \in S, NEW j \in S, i < j
      PROVE  Cardinality(Below(S, i)) < Cardinality(Below(S, j))
  <2>1. Below(S, i) \cup {i} \in SUBSET Below(S, j)
    <3>1. i \in Nat /\ j \in Nat /\ \A m \in S : m \in Nat
      BY <1>1
    <3>2. \A m \in S : m < i => m < j
      BY <1>3, <3>1
    <3>3. QED
      BY <1>3, <3>2 DEF Below
  <2>2. Cardinality(Below(S, i) \cup {i}) <= Cardinality(Below(S, j))
    BY <1>2, <2>1, FS_Subset
  <2>3. QED
    <3>1. Cardinality(Below(S, i)) \in Nat /\ Cardinality(Below(S, j)) \in Nat
          /\ Cardinality(Below(S, i) \cup {i}) = Cardinality(Below(S, i)) + 1
      BY <1>2
    <3>2. QED
      BY <2>2, <3>1
<1>4. \A i \in S : Cardinality(Below(S, i)) \in places
  <2>1. ASSUME NEW i \in S PROVE Cardinality(Below(S, i)) \in places
    <3>1. Below(S, i) \cup {i} \in SUBSET S
      BY DEF Below
    <3>2. Cardinality(Below(S, i) \cup {i}) <= n
      BY <3>1, FS_Subset
    <3>3. QED
      BY <1>1, <1>2, <3>2
  <2>2. QED
    BY <2>1
<1>5. rank \in Injection(S, places)
  <2>1. rank \in [S -> places]
    BY <1>4
  <2>2. ASSUME NEW i \in S, NEW j \in S, rank[i] = rank[j] PROVE i = j
    <3>1. Cardinality(Below(S, i)) = Cardinality(Below(S, j))
      BY <2>2
    <3>2. Cardinality(Below(S, i)) \in Nat /\ Cardinality(Below(S, j)) \in Nat
      BY <1>2
    <3>3. ~(i < j) /\ ~(j < i)
      BY <1>3, <3>1, <3>2
    <3>4. QED
      BY <1>1, <3>3
  <2>3. DOMAIN rank = S
    OBVIOUS
  <2> HIDE DEF rank, places
  <2>4. QED
    BY <2>1, <2>2, <2>3 DEF Injection, IsInjective
<1>6. IsFiniteSet(places) /\ Cardinality(places) = n
  <2>0. 0 \in Int /\ n - 1 \in Int
    BY <1>1
  <2>1. IsFiniteSet(places) /\ Cardinality(places) = IF 0 > n - 1 THEN 0 ELSE (n - 1) - 0 + 1
    BY <2>0, FS_Interval
  <2>2. QED
    BY <1>1, <2>1
<1>7. rank \in Surjection(S, places)
  <2> HIDE DEF rank, places
  <2>1. Cardinality(S) = Cardinality(places)
    BY <1>6 DEF n
  <2>2. QED
    BY <1>5, <1>6, <2>1, FS_Injection
<1>8. \E i \in S : Cardinality(Below(S, i)) = k
  <2>1. \E i \in S : rank[i] = k
    BY <1>7 DEF Surjection
  <2>2. QED
    BY <2>1
<1>9. InOrder(S)[k] = CHOOSE i \in S : Cardinality(Below(S, i)) = k
  BY DEF InOrder, Below
<1>10. QED
  BY <1>8, <1>9

\* Rows that are some places apart are at least as many ticks apart.
LEMMA RowsApart ==
    ASSUME NEW S \in SUBSET Nat, IsFiniteSet(S), NEW k \in 0..Cardinality(S) - 1,
           NEW l \in 0..Cardinality(S) - 1, k < l
    PROVE  InOrder(S)[l] - InOrder(S)[k] >= l - k
<1> DEFINE a == InOrder(S)[k]
           b == InOrder(S)[l]
<1>1. a \in Nat /\ b \in Nat /\ Cardinality(Below(S, a)) = k /\ Cardinality(Below(S, b)) = l
  BY RowsInOrder
<1> HIDE DEF a, b
<1>2. IsFiniteSet(Below(S, a)) /\ IsFiniteSet(Below(S, b))
  <2>1. Below(S, a) \in SUBSET S /\ Below(S, b) \in SUBSET S
    BY DEF Below
  <2>2. QED
    BY <2>1, FS_Subset
<1>3. k \in Int /\ l \in Int
  OBVIOUS
<1>4. a < b
  <2>1. SUFFICES ASSUME b <= a PROVE FALSE
    BY <1>1
  <2>2. Below(S, b) \in SUBSET Below(S, a)
    <3>1. \A m \in S : m \in Nat
      OBVIOUS
    <3>2. \A m \in S : m < b => m < a
      BY <1>1, <2>1, <3>1
    <3>3. QED
      BY <3>2 DEF Below
  <2>3. l <= k
    BY <1>1, <1>2, <2>2, FS_Subset
  <2>4. QED
    BY <1>3, <2>3
<1>5. IsFiniteSet(a..b - 1) /\ Cardinality(a..b - 1) = b - a
  <2>0. a \in Int /\ b - 1 \in Int
    BY <1>1
  <2>1. IsFiniteSet(a..b - 1) /\ Cardinality(a..b - 1) = IF a > b - 1 THEN 0 ELSE (b - 1) - a + 1
    BY <2>0, FS_Interval
  <2>2. QED
    BY <1>1, <1>4, <2>1
<1>6. Below(S, b) \in SUBSET (Below(S, a) \cup (a..b - 1))
  <2>1. \A m \in S : m \in Nat
    OBVIOUS
  <2>2. \A m \in S : m < b => m < a \/ m \in a..b - 1
    BY <1>1, <2>1
  <2>3. QED
    BY <2>2 DEF Below
<1>7. /\ IsFiniteSet(Below(S, a) \cup (a..b - 1))
      /\ Cardinality(Below(S, a) \cup (a..b - 1))
           = k + (b - a) - Cardinality(Below(S, a) \cap (a..b - 1))
  BY <1>1, <1>2, <1>5, FS_Union
<1>8. Cardinality(Below(S, a) \cap (a..b - 1)) \in Nat
  <2>1. Below(S, a) \cap (a..b - 1) \in SUBSET Below(S, a)
    OBVIOUS
  <2>2. IsFiniteSet(Below(S, a) \cap (a..b - 1))
    BY <1>2, <2>1, FS_Subset
  <2>3. QED
    BY <2>2, FS_CardinalityType
<1>9. l <= k + (b - a) - Cardinality(Below(S, a) \cap (a..b - 1))
  <2>1. Cardinality(Below(S, b)) <= Cardinality(Below(S, a) \cup (a..b - 1))
    BY <1>6, <1>7, FS_Subset
  <2>2. QED
    BY <1>1, <1>7, <2>1
<1>10. b - a >= l - k
  BY <1>1, <1>3, <1>8, <1>9
<1>11. QED
  BY <1>10 DEF a, b

\* With the gap as wide as a label looks ahead, the rows of a training fold and the
\* validation rows look at different ticks.
LEMMA FoldsApart ==
    ASSUME NEW S \in SUBSET Nat, IsFiniteSet(S), Cardinality(S) >= 10 * Ahead,
           NEW f \in 0..Splits - 1, NEW i \in TrainRows(Cardinality(S), f),
           NEW j \in ValidationRows(Cardinality(S), f)
    PROVE  Unseen(InOrder(S)[i], InOrder(S)[j])
<1> DEFINE n == Cardinality(S)
           gap == GapSize(n)
           first == ValStart(n, f)
           end == ValStart(n, f + 1)
<1>1. n \in Nat /\ Ahead \in Nat /\ MaxGap \in Nat /\ Ahead <= MaxGap
  BY FS_CardinalityType, TrainingAssumption
<1>2. gap \in Nat /\ gap >= Ahead
  BY <1>1 DEF GapSize, Smaller
<1>3. first \in Int /\ end \in Int
  <2>1. Splits \in Nat \ {0} /\ f \in Nat
    BY TrainingAssumption
  <2>2. n \div Splits \in Int
    BY <1>1, <2>1
  <2>3. \A q \in Int : f * q \in Int /\ (f + 1) * q \in Int
    BY <2>1
  <2>4. QED
    BY <2>2, <2>3 DEF ValStart
<1>4. /\ i \in 0..n - 1 /\ (i < first - gap \/ end + gap <= i)
      /\ j \in 0..n - 1 /\ first <= j /\ j < end
  BY DEF TrainRows, ValidationRows
<1> HIDE DEF gap, first, end
<1>5. i - j > Ahead \/ j - i > Ahead
  BY <1>1, <1>2, <1>3, <1>4
<1>6. InOrder(S)[i] \in Nat /\ InOrder(S)[j] \in Nat
  BY <1>4, RowsInOrder
<1>7. CASE i - j > Ahead
  <2>1. j < i
    BY <1>1, <1>4, <1>7
  <2>2. InOrder(S)[i] - InOrder(S)[j] >= i - j
    BY <1>4, <2>1, RowsApart
  <2>3. InOrder(S)[i] - InOrder(S)[j] > Ahead
    BY <1>1, <1>4, <1>6, <1>7, <2>2
  <2>4. QED
    BY <1>1, <1>6, <2>3 DEF Unseen, Looks
<1>8. CASE j - i > Ahead
  <2>1. i < j
    BY <1>1, <1>4, <1>8
  <2>2. InOrder(S)[j] - InOrder(S)[i] >= j - i
    BY <1>4, <2>1, RowsApart
  <2>3. InOrder(S)[j] - InOrder(S)[i] > Ahead
    BY <1>1, <1>4, <1>6, <1>8, <2>2
  <2>4. QED
    BY <1>1, <1>6, <2>3 DEF Unseen, Looks
<1>9. QED
  BY <1>5, <1>7, <1>8

\* Days do not decrease with the ticks.
LEMMA DaysInOrder ==
    ASSUME NEW i \in Nat, NEW j \in Nat, i <= j
    PROVE  DayOf(i) \in Int /\ DayOf(j) \in Int /\ DayOf(i) <= DayOf(j)
<1> DEFINE T == TicksPerDay
           a == (i - 1) \div T
           b == (j - 1) \div T
           ra == (i - 1) % T
           rb == (j - 1) % T
<1>1. T \in Nat \ {0}
  BY TrainingAssumption
<1>2. /\ a \in Int /\ b \in Int /\ ra \in 0..T - 1 /\ rb \in 0..T - 1
      /\ i - 1 = T * a + ra /\ j - 1 = T * b + rb
  BY <1>1
<1> HIDE DEF a, b, ra, rb, T
<1>3. a <= b
  <2>1. SUFFICES ASSUME b + 1 <= a PROVE FALSE
    BY <1>2
  <2>2. T * (b + 1) <= T * a
    BY <1>1, <1>2, <2>1
  <2>3. T * (b + 1) = T * b + T
    BY <1>1, <1>2
  <2>4. T * a \in Int /\ T * b \in Int
    BY <1>1, <1>2
  <2>5. QED
    BY <1>1, <1>2, <2>2, <2>3, <2>4
<1>4. QED
  BY <1>2, <1>3 DEF DayOf, a, b, T

LEMMA TrainingInitInv == TrainingInit => TrainingInv
  BY DEF TrainingInit, TrainingInv, NoModel

LEMMA TrainingNextKeeps == TrainingInv /\ [TrainingNext]_trainingVars => TrainingInv'
<1> SUFFICES ASSUME TrainingInv, [TrainingNext]_trainingVars PROVE TrainingInv'
  OBVIOUS
<1>1. learnable \subseteq Nat /\ current + TrialStep \in Nat /\ current + TrainDays \in Nat /\ Ahead \in Nat
  BY TrainingAssumption DEF TrainingInv
<1>2. CASE UNCHANGED trainingVars
  BY <1>2 DEF trainingVars, TrainingInv, PrepareTrainingData, DayOf
<1>3. CASE SkipTrial
  BY <1>1, <1>3 DEF SkipTrial, TrainingInv
<1>4. CASE TrainModel
  <2>1. /\ learnt' = PrepareTrainingData(current, current + TrainDays) /\ UNCHANGED <<learnable, current, onnx>>
    BY <1>4 DEF TrainModel
  <2>2. learnt' \subseteq learnable'
    BY <2>1 DEF PrepareTrainingData
  <2>3. PrepareTrainingData(current, current + TrainDays)' = PrepareTrainingData(current, current + TrainDays)
    BY <2>1 DEF PrepareTrainingData, DayOf
  <2>4. QED
    BY <2>1, <2>2, <2>3 DEF TrainingInv
<1>5. ASSUME NEW good \in BOOLEAN, TestModel(good) PROVE TrainingInv'
  <2> DEFINE from == current + TrainDays
             S == PrepareTrainingData(from, from + TestDays)
  <2>1. /\ learnt # {} /\ learnt' = {} /\ current' = current + TrialStep /\ learnable' = learnable
        /\ onnx' = IF good THEN [trial |-> trial, learnt |-> learnt, tested |-> S, from |-> from]
                   ELSE onnx
    BY <1>5 DEF TestModel
  <2>2. learnt \subseteq Nat /\ S \subseteq Nat
    BY <1>1, <2>1 DEF TrainingInv, PrepareTrainingData
  <2>3. \A i \in learnt : DayOf(i + Ahead) <= from
    BY <2>1 DEF TrainingInv, PrepareTrainingData
  <2>4. \A j \in S : from <= DayOf(j)
    BY DEF PrepareTrainingData
  <2> HIDE DEF from, S
  <2>5. from \in Nat
    BY <1>1 DEF from
  <2>6. CASE good
    <3>1. /\ onnx'.learnt = learnt /\ onnx'.tested = S /\ onnx'.from = from
      BY <2>1, <2>6
    <3>2. QED
      BY <1>1, <2>1, <2>2, <2>3, <2>4, <2>5, <3>1 DEF TrainingInv
  <2>7. CASE ~good
    BY <1>1, <2>1, <2>7 DEF TrainingInv
  <2>8. QED
    BY <2>6, <2>7
<1>6. QED
  BY <1>2, <1>3, <1>4, <1>5 DEF TrainingNext

THEOREM TrainingInductive == TrainingSpec => []TrainingInv
  BY TrainingInitInv, TrainingNextKeeps, PTL DEF TrainingSpec

\* No model is judged on what it has seen (trainer.py): the folds of a training with
\* enough rows share no tick with their validation, nor the test of a saved model with
\* its training but for the day they share; for any ticks, gaps, windows and splits.
THEOREM JudgementIsFair == TrainingSpec => []JudgedOnUnseen
<1>1. TrainingInv => JudgedOnUnseen
  <2> SUFFICES ASSUME TrainingInv PROVE JudgedOnUnseen
    OBVIOUS
  <2>1. learnable \in SUBSET Nat /\ IsFiniteSet(learnable)
    BY TrainingAssumption DEF TrainingInv
  <2>2. learnt \in SUBSET Nat /\ IsFiniteSet(learnt)
    <3>1. learnt \in SUBSET learnable
      BY DEF TrainingInv
    <3>2. QED
      BY <2>1, <3>1, FS_Subset
  <2>3. ASSUME NEW i \in onnx.learnt, NEW j \in onnx.tested, DayOf(j) # onnx.from PROVE Unseen(i, j)
    <3>1. i \in Nat /\ j \in Nat /\ i + Ahead \in Nat /\ Ahead \in Nat
      BY TrainingAssumption DEF TrainingInv
    <3>2. DayOf(i + Ahead) <= onnx.from /\ onnx.from <= DayOf(j) /\ onnx.from \in Nat
      BY DEF TrainingInv
    <3>3. ASSUME j <= i + Ahead PROVE FALSE
      <4>1. DayOf(j) \in Int /\ DayOf(i + Ahead) \in Int /\ DayOf(j) <= DayOf(i + Ahead)
        BY <3>1, <3>3, DaysInOrder
      <4>2. QED
        BY <2>3, <3>2, <4>1
    <3>4. i + Ahead < j
      BY <3>1, <3>3
    <3>5. QED
      BY <3>1, <3>4 DEF Unseen, Looks
  <2>4. QED
    BY <2>2, <2>3, FoldsApart DEF JudgedOnUnseen
<1>2. QED
  BY <1>1, TrainingInductive, PTL

-----------------------------------------------------------------------------
(* The clock.                                                                   *)
ClockInv == now \in Nat

\* x is the first trading day from e on.
FirstFrom(e, x) == x \in Nat /\ e <= x /\ TradingDay(x) /\ \A y \in e..x - 1 : ~TradingDay(y)

LEMMA OneFirst ==
    ASSUME NEW e \in Nat, NEW x, NEW z, FirstFrom(e, x), FirstFrom(e, z)
    PROVE  x = z
<1>1. x \in Nat /\ z \in Nat /\ e <= x /\ e <= z
  BY DEF FirstFrom
<1>2. ~(x < z) /\ ~(z < x)
  BY <1>1 DEF FirstFrom
<1>3. QED
  BY <1>1, <1>2

LEMMA OpenWithinAWeek ==
    ASSUME NEW d \in Nat
    PROVE  \E x \in d+1..d+7 : FirstFrom(d + 1, x)
<1>1. PICK e \in d+1..d+7 : TradingDay(e)
  <2>1. CASE \E h \in d+1..d+7 : h \in Holidays
    <3>1. PICK h \in d+1..d+7 : h \in Holidays
      BY <2>1
    <3>2. d \in h-7..h-1 /\ d >= 0
      BY <3>1
    <3>3. QED
      BY <3>1, <3>2, NeverClosedForAWeek
  <2>2. CASE \A h \in d+1..d+7 : h \notin Holidays
    <3>1. (d + 1) % 7 < 5 \/ (d + 3) % 7 < 5
      OBVIOUS
    <3>2. d + 1 \in d+1..d+7 /\ d + 3 \in d+1..d+7
      OBVIOUS
    <3>3. QED
      BY <2>2, <3>1, <3>2 DEF TradingDay
  <2>3. QED
    BY <2>1, <2>2
<1> DEFINE Open == {x \in Nat : d + 1 <= x /\ TradingDay(x)}
<1>2. PICK x \in Open : \A y \in Open : x <= y
  <2>1. Open \in SUBSET Nat /\ e \in Open
    BY <1>1
  <2>2. QED
    BY <2>1, LeastNumber
<1>3. \A y \in d+1..x-1 : ~TradingDay(y)
  BY <1>2
<1>4. x <= e /\ x \in d+1..d+7
  BY <1>1, <1>2
<1>5. QED
  BY <1>2, <1>3, <1>4 DEF FirstFrom

\* The loop of _next_trading_day: it ends, and at the first trading day.
RunsOn(next) == next = [e \in Nat |-> IF TradingDay(e) THEN e ELSE next[e + 1]]

LEMMA LoopEnds == \E next : RunsOn(next)
<1> DEFINE F == [e \in Nat |-> CHOOSE x : FirstFrom(e, x)]
<1>1. ASSUME NEW e \in Nat PROVE \E x : FirstFrom(e, x)
  <2>1. CASE TradingDay(e)
    <3>1. FirstFrom(e, e)
      BY <2>1 DEF FirstFrom
    <3>2. QED
      BY <3>1
  <2>2. CASE ~TradingDay(e)
    <3>1. PICK x \in e+1..e+7 : FirstFrom(e + 1, x)
      BY OpenWithinAWeek
    <3>2. \A y \in e..x-1 : y = e \/ y \in e+1..x-1
      BY <3>1
    <3>3. FirstFrom(e, x)
      BY <2>2, <3>1, <3>2 DEF FirstFrom
    <3>4. QED
      BY <3>3
  <2>3. QED
    BY <2>1, <2>2
<1>2. \A e \in Nat : FirstFrom(e, F[e])
  BY <1>1
<1> HIDE DEF F
<1>3. ASSUME NEW e \in Nat PROVE F[e] = IF TradingDay(e) THEN e ELSE F[e + 1]
  <2>1. CASE TradingDay(e)
    <3>1. FirstFrom(e, e)
      BY <2>1 DEF FirstFrom
    <3>2. QED
      BY <1>2, <2>1, <3>1, OneFirst
  <2>2. CASE ~TradingDay(e)
    <3>1. e + 1 \in Nat /\ FirstFrom(e + 1, F[e + 1])
      BY <1>2
    <3>2. F[e + 1] \in Nat /\ e <= F[e + 1] /\ \A y \in e..F[e + 1]-1 : y = e \/ y \in e+1..F[e + 1]-1
      BY <3>1 DEF FirstFrom
    <3>3. FirstFrom(e, F[e + 1])
      BY <2>2, <3>1, <3>2 DEF FirstFrom
    <3>4. QED
      BY <1>2, <2>2, <3>3, OneFirst
  <2>3. QED
    BY <2>1, <2>2
<1>4. RunsOn(F)
  <2>1. F = [e \in Nat |-> F[e]]
    BY DEF F
  <2>2. QED
    BY <1>3, <2>1 DEF RunsOn
<1>5. QED
  BY <1>4

LEMMA LoopFindsFirst ==
    ASSUME NEW next, RunsOn(next), NEW e \in Nat, NEW x, FirstFrom(e, x)
    PROVE  next[e] = x
<1>1. \A y \in Nat : next[y] = IF TradingDay(y) THEN y ELSE next[y + 1]
  BY DEF RunsOn
<1> DEFINE Arrives == {y \in Nat : e <= y /\ next[y] = x}
<1>2. x \in Nat /\ e <= x /\ next[x] = x
  BY <1>1 DEF FirstFrom
<1>3. PICK y \in Arrives : \A z \in Arrives : y <= z
  <2>1. Arrives \in SUBSET Nat /\ x \in Arrives
    BY <1>2
  <2>2. QED
    BY <2>1, LeastNumber
<1>4. y <= x /\ y \in Nat /\ e <= y /\ next[y] = x
  BY <1>2, <1>3
<1>5. CASE e < y
  <2>1. y - 1 \in Nat /\ y - 1 \in e..x-1 /\ (y - 1) + 1 = y
    BY <1>2, <1>4, <1>5
  <2>2. ~TradingDay(y - 1)
    BY <2>1 DEF FirstFrom
  <2>3. next[y - 1] = x
    BY <1>1, <1>4, <2>1, <2>2
  <2>4. y - 1 \in Arrives /\ ~(y <= y - 1)
    BY <1>4, <2>1, <2>3
  <2>5. QED
    BY <1>3, <2>4
<1>6. CASE ~(e < y)
  BY <1>4, <1>6
<1>7. QED
  BY <1>5, <1>6

LEMMA NextIsFirst ==
    ASSUME NEW d \in Nat
    PROVE  NextTradingDay(d) \in d+1..d+7 /\ FirstFrom(d + 1, NextTradingDay(d))
<1> DEFINE loop == CHOOSE next : RunsOn(next)
<1>1. RunsOn(loop)
  BY LoopEnds
<1>2. NextTradingDay(d) = loop[d + 1]
  BY DEF NextTradingDay, RunsOn
<1> HIDE DEF loop
<1>3. PICK x \in d+1..d+7 : FirstFrom(d + 1, x)
  BY OpenWithinAWeek
<1>4. d + 1 \in Nat
  OBVIOUS
<1>5. loop[d + 1] = x
  BY <1>1, <1>3, <1>4, LoopFindsFirst
<1>6. QED
  BY <1>2, <1>3, <1>5

LEMMA DateAndTime ==
    ASSUME NEW t \in Nat
    PROVE  Date(t) \in Nat /\ TimeOf(t) \in 0..1439 /\ Date(t) * 1440 + TimeOf(t) = t
  BY DEF Date, TimeOf, Day

LEMMA DateOfTime ==
    ASSUME NEW d \in Nat, NEW m \in 0..1439, NEW t, t = d * 1440 + m
    PROVE  Date(t) = d
  BY DEF Date, Day

\* The least member of a set of days.
LEMMA FirstDay ==
    ASSUME NEW S, S \subseteq Nat, NEW x \in S, \A y \in S : x <= y
    PROVE  (CHOOSE d \in S : \A e \in S : d <= e) = x
<1> DEFINE c == CHOOSE d \in S : \A e \in S : d <= e
<1>1. c \in S /\ \A e \in S : c <= e
  OBVIOUS
<1> HIDE DEF c
<1>2. c \in Nat /\ x \in Nat /\ c <= x /\ x <= c
  BY <1>1
<1>3. c = x
  BY <1>2
<1>4. QED
  BY <1>3 DEF c

\* WaitIsRight, of any minute.
RightAt(t) ==
    LET woken == t + MinutesToOpen(t)
    IN  /\ t < woken /\ woken <= FirstOpening(t)
        /\ \/ woken = FirstOpening(t)
           \/ woken = FirstOpening(t) - LocalMeanTime /\ TimeOf(t) >= NseOpen
           \/ ~TradingDay(Date(t)) /\ TimeOf(t) < NseOpen
                /\ Date(woken) = Date(t)
        /\ Session(t) = "continuous" => t + MinutesToClose(t) < woken

LEMMA RightAtAny == ASSUME NEW t \in Nat PROVE RightAt(t)
<1>2. PICK d : d = Date(t)
  OBVIOUS
<1>3. PICK m : m = TimeOf(t)
  OBVIOUS
<1>4. t \in Nat /\ d \in Nat /\ m \in 0..1439 /\ d * 1440 + m = t
  <2>1. Date(t) \in Nat /\ TimeOf(t) \in 0..1439 /\ Date(t) * 1440 + TimeOf(t) = t
    BY DateAndTime
  <2>2. QED
    BY <1>2, <1>3, <2>1
<1>5. PICK x : x = NextTradingDay(d)
  OBVIOUS
<1>6. x \in d+1..d+7 /\ FirstFrom(d + 1, x)
  BY <1>4, <1>5, NextIsFirst
<1>7. x \in Nat /\ d + 1 <= x /\ x <= d + 7 /\ TradingDay(x) /\ \A y \in d+1..x-1 : ~TradingDay(y)
  BY <1>4, <1>6 DEF FirstFrom
<1>8. PICK woken : woken = t + MinutesToOpen(t)
  OBVIOUS
<1>9. /\ m < 555 => woken = d * 1440 + 555
      /\ m >= 555 => woken = x * 1440 + 532
      /\ woken \in Nat /\ t < woken
  <2>1. MinutesToOpen(t) = IF m < 555 THEN 555 - m ELSE x * 1440 + 555 - 23 - t
    BY <1>2, <1>3, <1>5 DEF MinutesToOpen, NseOpen, LocalMeanTime, Day
  <2>2. woken = t + (IF m < 555 THEN 555 - m ELSE x * 1440 + 555 - 23 - t)
    BY <1>8, <2>1
  <2>3. QED
    BY <1>4, <1>7, <2>2
<1> DEFINE days == OpenDays(t)
           first == CHOOSE e \in days : \A f \in days : e <= f
           Right == /\ t < woken /\ woken <= first * 1440 + 555
                    /\ \/ woken = first * 1440 + 555
                       \/ woken = first * 1440 + 532 /\ m >= 555
                       \/ ~TradingDay(d) /\ m < 555 /\ Date(woken) = d
                    /\ Session(t) = "continuous" => t + MinutesToClose(t) < woken
<1>10. Session(t) = "continuous" => 555 <= m /\ t + MinutesToClose(t) = d * 1440 + 930
  <2>1. Session(t) = "continuous" => IsMarketOpen(t)
    BY DEF Session
  <2>2. IsMarketOpen(t) => 555 <= m /\ m < 930
    BY <1>3 DEF IsMarketOpen, NseOpen, NseClose
  <2>3. m < 930 => MinutesToClose(t) = 930 - m
    BY <1>3, <1>4 DEF MinutesToClose, NseClose
  <2>4. m < 930 => t + (930 - m) = d * 1440 + 930
    BY <1>4
  <2>5. QED
    BY <2>1, <2>2, <2>3, <2>4
<1> HIDE DEF days, OpenDays, Day, NseOpen
<1>11. Right
  <2>1. days \subseteq Nat
    BY <1>2, <1>4 DEF days, OpenDays, Day, NseOpen
  <2>2. CASE m < 555 /\ TradingDay(d)
    <3>1. d \in days /\ \A y \in days : d <= y
      BY <1>2, <1>4, <2>2 DEF days, OpenDays, Day, NseOpen
    <3>2. first = d
      BY <2>1, <3>1, FirstDay
    <3> HIDE DEF first
    <3>3. QED
      BY <1>4, <1>9, <1>10, <2>2, <3>2
  <2>3. CASE m < 555 /\ ~TradingDay(d)
    <3>1. x \in days
      BY <1>2, <1>4, <1>7 DEF days, OpenDays, Day, NseOpen
    <3>2. \A y \in days : x <= y
      BY <1>2, <1>4, <1>7, <2>3 DEF days, OpenDays, Day, NseOpen
    <3>3. first = x
      BY <2>1, <3>1, <3>2, FirstDay
    <3> HIDE DEF first
    <3>4. Date(woken) = d
      <4>1. 555 \in 0..1439
        OBVIOUS
      <4>2. QED
        BY <1>4, <1>9, <2>3, <4>1, DateOfTime
    <3>5. woken <= x * 1440 + 555
      BY <1>4, <1>7, <1>9, <2>3
    <3>6. QED
      BY <1>9, <1>10, <1>4, <2>3, <3>3, <3>4, <3>5
  <2>4. CASE m >= 555
    <3>1. x \in days
      BY <1>2, <1>4, <1>7 DEF days, OpenDays, Day, NseOpen
    <3>2. \A y \in days : x <= y
      <4>1. SUFFICES ASSUME NEW y \in days, y < x PROVE FALSE
        BY <1>7, <2>1
      <4>2. y \in d..d+7 /\ TradingDay(y) /\ y * 1440 + 555 > t
        BY <1>2 DEF days, OpenDays, Day, NseOpen
      <4>3. y # d
        BY <1>4, <2>4, <4>2
      <4>4. y \in d+1..x-1
        BY <1>4, <1>7, <4>1, <4>2, <4>3
      <4>5. QED
        BY <1>7, <4>2, <4>4
    <3>3. first = x
      BY <2>1, <3>1, <3>2, FirstDay
    <3> HIDE DEF first
    <3>4. Session(t) = "continuous" => t + MinutesToClose(t) < woken
      BY <1>4, <1>7, <1>9, <1>10, <2>4
    <3>5. woken = x * 1440 + 532 /\ woken <= x * 1440 + 555
      BY <1>7, <1>9, <2>4
    <3>6. QED
      BY <1>9, <2>4, <3>3, <3>4, <3>5
  <2>5. QED
    BY <1>4, <2>2, <2>3, <2>4
<1>12. first \in Nat
  <2>1. x \in days
    BY <1>2, <1>4, <1>7 DEF days, OpenDays, Day, NseOpen
  <2>2. days \in SUBSET Nat /\ days # {}
    BY <1>2, <1>4, <2>1 DEF days, OpenDays, Day, NseOpen
  <2>3. \E e \in days : \A f \in days : e <= f
    BY <2>2, LeastNumber
  <2>4. QED
    BY <2>2, <2>3
<1>13. FirstOpening(t) = first * Day + NseOpen
  BY DEF FirstOpening, days
<1> HIDE DEF first
<1>14. FirstOpening(t) = first * 1440 + 555 /\ FirstOpening(t) - LocalMeanTime = first * 1440 + 532
  BY <1>12, <1>13 DEF Day, NseOpen, LocalMeanTime
<1>15. /\ t < woken /\ woken <= FirstOpening(t)
       /\ \/ woken = FirstOpening(t)
          \/ woken = FirstOpening(t) - LocalMeanTime /\ m >= NseOpen
          \/ ~TradingDay(d) /\ m < NseOpen /\ Date(woken) = d
       /\ Session(t) = "continuous" => t + MinutesToClose(t) < woken
  <2>1. NseOpen = 555
    BY DEF NseOpen
  <2>2. QED
    BY <1>11, <1>14, <2>1
<1>16. QED
  BY <1>2, <1>3, <1>8, <1>15, Zenon DEF RightAt

LEMMA WaitIsRightOnce == ASSUME ClockInv PROVE WaitIsRight
<1>1. RightAt(now)
  BY RightAtAny DEF ClockInv
<1>2. QED
  BY <1>1 DEF RightAt, WaitIsRight

LEMMA ClockInitInv == ClockInit => ClockInv
  BY ClockAssumption DEF ClockInit, ClockInv, Day

LEMMA ClockNextKeeps == ClockInv /\ [ClockNext]_clockVars => ClockInv'
<1> SUFFICES ASSUME ClockInv, [ClockNext]_clockVars PROVE ClockInv'
  OBVIOUS
<1>1. CASE WaitForOpen
  <2>1. now' = now + MinutesToOpen(now) /\ now \in Nat
    BY <1>1 DEF WaitForOpen, ClockInv
  <2>2. MinutesToOpen(now) \in Int
    <3>1. /\ Date(now) \in Nat /\ TimeOf(now) \in 0..1439
      BY <2>1, DateAndTime
    <3>2. PICK d \in Nat : d = Date(now)
      BY <3>1
    <3>3. NextTradingDay(Date(now)) \in Int
      <4>1. NextTradingDay(d) \in d+1..d+7
        BY NextIsFirst
      <4>2. NextTradingDay(d) \in Int
        BY <4>1
      <4>3. QED
        BY <3>2, <4>2
    <3>4. TimeOf(now) < 555 => 555 - TimeOf(now) \in Int
      BY <3>1
    <3>5. NextTradingDay(Date(now)) * 1440 + 555 - 23 - now \in Int
      BY <2>1, <3>3
    <3>6. QED
      BY <3>4, <3>5 DEF MinutesToOpen, NseOpen, LocalMeanTime, Day
  <2>3. now < now + MinutesToOpen(now)
    BY WaitIsRightOnce DEF WaitIsRight
  <2>4. QED
    BY <2>1, <2>2, <2>3 DEF ClockInv
<1>2. CASE PassMinute \/ UNCHANGED clockVars
  BY <1>2 DEF PassMinute, clockVars, ClockInv
<1>3. QED
  BY <1>1, <1>2 DEF ClockNext

\* Who waits for the opening (clock.py, seconds_to_open) comes out at it, 23 minutes
\* before it, or at the 9:15 of a day without trading, and never past it: at every
\* minute, for any holidays that never close the market for a week.
THEOREM WaitsAreRight == ClockSpec => []WaitIsRight
<1>1. ClockInv => WaitIsRight
  BY WaitIsRightOnce
<1>2. QED
  BY <1>1, ClockInitInv, ClockNextKeeps, PTL DEF ClockSpec
=============================================================================
