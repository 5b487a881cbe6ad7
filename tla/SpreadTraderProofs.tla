------------------------- MODULE SpreadTraderProofs -------------------------
(* SpreadTrader for any pairs, limit and handlers: the shape of its variables,  *)
(* how far the limit on open pairs can be exceeded, that the books balance, and *)
(* what a halted strategy may still do.                                         *)
EXTENDS SpreadTrader, FiniteSetTheorems, TLAPS

\* The pairs are finitely many, and so are the handlers.
LEMMA FinitePairs ==
    /\ \A K \in SUBSET PairKeys : IsFiniteSet(K) /\ Cardinality(K) \in Nat
    /\ \A H \in SUBSET Handlers : IsFiniteSet(H) /\ Cardinality(H) \in Nat
<1>1. PairKeys = 1..Len(Pairs) /\ Len(Pairs) \in Nat
  BY SpreadAssumption DEF PairKeys
<1>2. IsFiniteSet(PairKeys)
  BY <1>1, FS_Interval
<1>3. QED
  BY <1>2, SpreadAssumption, FS_Subset, FS_CardinalityType

\* What a handler goes over to is one of its states.
LEMMA SettleType ==
    ASSUME TypeOK, NEW h \in Handlers, NEW t \in TaskStates, Settle(h, t)
    PROVE  /\ task' \in [Handlers -> TaskStates] /\ finishing' \subseteq Handlers
           /\ task'[h] = t /\ \A g \in Handlers \ {h} : task'[g] = task[g]
  BY DEF TypeOK, Settle

LEMMA StateShapes ==
    /\ Idle \in TaskStates /\ Idle.pc = "idle"
    /\ \A pc \in {"scan", "entry"}, s \in Symbols, i \in PairKeys :
           Visit(pc, s, i) \in TaskStates /\ Visit(pc, s, i).pc = pc
    /\ \A s \in Watched, d \in Sides, q \in Int :
           Booking(s, d, q) \in TaskStates /\ Booking(s, d, q).pc = "book"
  BY DEF Idle, Visit, Booking, TaskStates

\* A handler in the loop or past the check of an entry knows its symbol and pair.
LEMMA VisitOf ==
    ASSUME TypeOK, NEW h \in Handlers, task[h].pc \in {"scan", "entry"}
    PROVE  task[h].symbol \in Symbols /\ task[h].pair \in PairKeys
<1>1. task[h] \in TaskStates
  BY DEF TypeOK
<1>2. QED
  BY <1>1 DEF TaskStates

LEMMA BookingOf ==
    ASSUME TypeOK, NEW h \in Handlers, task[h].pc = "book"
    PROVE  task[h].symbol \in Watched /\ task[h].side \in Sides /\ task[h].held \in Int
<1>1. task[h] \in TaskStates
  BY DEF TypeOK
<1>2. QED
  BY <1>1 DEF TaskStates

\* The loop ends or goes on to a later pair: it enters nothing by itself.
LEMMA VisitsType ==
    ASSUME TypeOK, NEW h \in Handlers, NEW s \in Symbols, NEW i, NEW prices,
           Visits(h, s, i, prices)
    PROVE  /\ task' \in [Handlers -> TaskStates] /\ finishing' \subseteq Handlers
           /\ task'[h].pc \in {"idle", "scan"}
           /\ \A g \in Handlers \ {h} : task'[g] = task[g]
<1>1. CASE \E j \in PairKeys : Settle(h, Visit("scan", s, j))
  BY <1>1, SettleType, StateShapes
<1>2. CASE Settle(h, Idle)
  BY <1>2, SettleType, StateShapes
<1>3. QED
  BY <1>1, <1>2 DEF Visits

-----------------------------------------------------------------------------
\* Signals are counted, and what is sent stays counted.
LEMMA EmitType ==
    ASSUME TypeOK, NEW K \in SUBSET PairKeys, NEW side, Emit(K, side)
    PROVE  flight' \in [Watched -> [Sides -> Nat]]
<1>1. \A s \in Watched, d \in Sides :
          flight[s][d] + Cardinality({i \in K : LegSide(i, s, side[i]) = d}) \in Nat
  <2> TAKE s \in Watched, d \in Sides
  <2> DEFINE legs == {i \in K : LegSide(i, s, side[i]) = d}
  <2>1. Cardinality(legs) \in Nat
    <3>1. legs \in SUBSET PairKeys
      OBVIOUS
    <3>2. QED
      BY <3>1, FinitePairs
  <2>2. flight[s][d] \in Nat
    BY DEF TypeOK
  <2> HIDE DEF legs
  <2>3. flight[s][d] + Cardinality(legs) \in Nat
    BY <2>1, <2>2
  <2>4. QED
    BY <2>3 DEF legs
<1>2. QED
  BY <1>1 DEF Emit

LEMMA ExcuseType ==
    ASSUME TypeOK, NEW S, Excuse(S)
    PROVE  excused' \subseteq Watched /\ refused' \in [Watched -> Int]
<1>1. excused' \subseteq Watched
  BY DEF TypeOK, Excuse
<1>2. refused' \in [Watched -> Int]
  BY DEF TypeOK, Excuse
<1>3. QED
  BY <1>1, <1>2

\* Closing every pair, or none.
LEMMA TickType ==
    ASSUME TypeOK, NEW h \in Handlers, NEW s \in Symbols, Tick(h, s)
    PROVE  TypeOK' /\ OpenPairs' \subseteq OpenPairs /\ Awaiting' \subseteq Awaiting
<1>1. /\ task' \in [Handlers -> TaskStates] /\ finishing' \subseteq Handlers
      /\ task'[h].pc \in {"idle", "scan"}
      /\ \A g \in Handlers \ {h} : task'[g] = task[g]
  BY VisitsType DEF Tick
<1>2. active' \in [PairKeys -> {0, 1, -1}] /\ OpenPairs' \subseteq OpenPairs
  BY DEF Tick, TypeOK, OpenPairs
<1>3. flight' \in [Watched -> [Sides -> Nat]]
  <2>1. OpenPairs \in SUBSET PairKeys
    BY DEF OpenPairs
  <2>2. CASE Emit(OpenPairs, [i \in PairKeys |-> -active[i]])
    BY <2>1, <2>2, EmitType
  <2>3. CASE flight' = flight
    BY <2>3 DEF TypeOK
  <2>4. QED
    BY <2>2, <2>3 DEF Tick
<1>4. Awaiting' \subseteq Awaiting
  BY <1>1 DEF Awaiting
<1>5. seen' \subseteq Symbols
  BY DEF Tick, TypeOK
<1>6. late' = late /\ halted' = halted /\ UNCHANGED <<position, refused, excused, entries>>
  BY DEF Tick
<1>7. QED
  BY <1>1, <1>2, <1>3, <1>4, <1>5, <1>6 DEF TypeOK

\* A step of the loop that leaves every entry alone.
LEMMA LoopType ==
    ASSUME TypeOK, NEW h \in Handlers, Pass(h) \/ Decline(h)
    PROVE  TypeOK' /\ OpenPairs' \subseteq OpenPairs /\ Awaiting' \subseteq Awaiting
<1>1. task[h].pc \in {"scan", "entry"}
  BY DEF Pass, Decline
<1>2. task[h].symbol \in Symbols
  BY <1>1, VisitOf
<1>3. /\ task' \in [Handlers -> TaskStates] /\ finishing' \subseteq Handlers
      /\ task'[h].pc \in {"idle", "scan"}
      /\ \A g \in Handlers \ {h} : task'[g] = task[g]
  <2>1. CASE GoOn(h)
    BY <1>2, <2>1, VisitsType DEF GoOn
  <2>2. CASE Settle(h, Idle)
    BY <2>2, SettleType, StateShapes
  <2>3. QED
    BY <2>1, <2>2 DEF Pass, Decline
<1>4. UNCHANGED <<belief, market, position, excused, entries>>
  BY DEF Pass, Decline
<1>5. Awaiting' \subseteq Awaiting
  BY <1>3 DEF Awaiting
<1>6. OpenPairs' = OpenPairs
  BY <1>4 DEF OpenPairs, belief
<1>7. QED
  BY <1>3, <1>4, <1>5, <1>6 DEF TypeOK, belief, market

\* Closing one pair.
LEMMA ExitType ==
    ASSUME TypeOK, NEW h \in Handlers, NEW i \in PairKeys, Exit(h, i)
    PROVE  TypeOK' /\ OpenPairs' \subseteq OpenPairs /\ Awaiting' \subseteq Awaiting
<1>1. /\ task' \in [Handlers -> TaskStates] /\ finishing' \subseteq Handlers
      /\ task'[h] = Idle /\ \A g \in Handlers \ {h} : task'[g] = task[g]
  BY SettleType, StateShapes DEF Exit
<1>2. active' \in [PairKeys -> {0, 1, -1}] /\ OpenPairs' \subseteq OpenPairs
  BY DEF Exit, TypeOK, OpenPairs
<1>3. flight' \in [Watched -> [Sides -> Nat]]
  BY EmitType DEF Exit
<1>4. Awaiting' \subseteq Awaiting
  BY <1>1, StateShapes DEF Awaiting
<1>5. UNCHANGED <<seen, late, halted, position, refused, excused, entries>>
  BY DEF Exit
<1>6. QED
  BY <1>1, <1>2, <1>3, <1>4, <1>5 DEF TypeOK

\* The check of the limit opens nothing yet.
LEMMA ConsiderType ==
    ASSUME TypeOK, NEW h \in Handlers, NEW i \in PairKeys, Consider(h, i)
    PROVE  TypeOK' /\ OpenPairs' = OpenPairs
<1>1. task[h].symbol \in Symbols
  BY VisitOf DEF Consider, At
<1>2. task' \in [Handlers -> TaskStates] /\ finishing' \subseteq Handlers
  BY <1>1, SettleType, StateShapes DEF Consider
<1>3. excused' \subseteq Watched /\ refused' \in [Watched -> Int]
  BY ExcuseType DEF Consider
<1>4. UNCHANGED <<belief, flight, position, entries>>
  BY DEF Consider
<1>5. OpenPairs' = OpenPairs
  BY <1>4 DEF OpenPairs, belief
<1>6. QED
  BY <1>2, <1>3, <1>4, <1>5 DEF TypeOK, belief

\* An entry opens at most one pair and ends the wait of one handler.
LEMMA EnterType ==
    ASSUME TypeOK, NEW h \in Handlers, NEW d \in Sides, Enter(h, d)
    PROVE  /\ TypeOK' /\ h \in Awaiting /\ Awaiting' = Awaiting \ {h}
           /\ \E i \in PairKeys : OpenPairs' \subseteq OpenPairs \cup {i}
<1>1. task[h].pair \in PairKeys
  BY VisitOf DEF Enter
<1>2. /\ task' \in [Handlers -> TaskStates] /\ finishing' \subseteq Handlers
      /\ task'[h] = Idle /\ \A g \in Handlers \ {h} : task'[g] = task[g]
  BY SettleType, StateShapes DEF Enter
<1>3. active' = [active EXCEPT ![task[h].pair] = d]
  BY DEF Enter
<1>4. active' \in [PairKeys -> {0, 1, -1}]
  BY <1>3 DEF TypeOK, Sides
<1>5. OpenPairs' \subseteq OpenPairs \cup {task[h].pair}
  BY <1>3 DEF TypeOK, OpenPairs
<1>6. flight' \in [Watched -> [Sides -> Nat]]
  <2>1. {task[h].pair} \in SUBSET PairKeys
    BY <1>1
  <2>2. QED
    BY <2>1, EmitType DEF Enter
<1>7. entries' \in 0..MaxEntries
  BY SpreadAssumption DEF Enter, TypeOK
<1>8. h \in Awaiting /\ Awaiting' = Awaiting \ {h}
  <2>1. h \in Awaiting
    BY DEF Enter, Awaiting
  <2>2. task'[h].pc # "entry"
    BY <1>2, StateShapes
  <2>3. QED
    BY <1>2, <2>1, <2>2 DEF Awaiting
<1>9. UNCHANGED <<seen, late, halted, position, refused, excused>>
  BY DEF Enter
<1>10. TypeOK'
  BY <1>2, <1>4, <1>6, <1>7, <1>9 DEF TypeOK
<1>11. QED
  BY <1>1, <1>5, <1>8, <1>10

\* The clock, the halts, the broker and the store open nothing.
LEMMA OutsideType ==
    ASSUME TypeOK,
           \/ Halt \/ Resume \/ Clock
           \/ \E s \in Watched : Expire(s)
           \/ \E s \in Watched, d \in Sides : Refuse(s, d)
    PROVE  TypeOK' /\ OpenPairs' \subseteq OpenPairs /\ Awaiting' \subseteq Awaiting
<1>1. active' = active /\ task' = task
  BY DEF Halt, Resume, Clock, Expire, Refuse, belief
<1>2. OpenPairs' = OpenPairs /\ Awaiting' = Awaiting
  BY <1>1 DEF OpenPairs, Awaiting
<1>3. CASE Halt \/ Resume \/ Clock
  <2>1. late' \in BOOLEAN /\ halted' \in BOOLEAN
    BY <1>3, Zenon DEF Halt, Resume, Clock, TypeOK
  <2>2. finishing' \subseteq Handlers
    BY <1>3 DEF Halt, Resume, Clock, TypeOK
  <2>3. UNCHANGED <<active, seen, task, market, position, excused, entries>>
    BY <1>3 DEF Halt, Resume, Clock
  <2>4. QED
    BY <1>2, <2>1, <2>2, <2>3 DEF market, TypeOK
<1>4. CASE \E s \in Watched : Expire(s)
  <2>1. PICK s \in Watched : Expire(s)
    BY <1>4
  <2>2. excused' \subseteq Watched /\ refused' \in [Watched -> Int]
    BY <2>1, ExcuseType DEF Expire
  <2>3. position' \in [Watched -> Int]
    BY <2>1 DEF Expire, TypeOK
  <2>4. QED
    BY <1>2, <2>1, <2>2, <2>3 DEF Expire, belief, TypeOK
<1>5. CASE \E s \in Watched, d \in Sides : Refuse(s, d)
  <2>1. PICK s \in Watched, d \in Sides : Refuse(s, d)
    BY <1>5
  <2>2. flight' \in [Watched -> [Sides -> Nat]]
    <3>1. flight[s] \in [Sides -> Nat] /\ flight[s][d] > 0
      BY <2>1 DEF Refuse, TypeOK
    <3>2. flight[s][d] - 1 \in Nat
      BY <3>1
    <3>3. QED
      BY <2>1, <3>1, <3>2 DEF Refuse, TypeOK
  <2>3. refused' \in [Watched -> Int]
    BY <2>1 DEF Refuse, TypeOK, Sides
  <2>4. QED
    BY <1>2, <2>1, <2>2, <2>3 DEF Refuse, belief, TypeOK
<1>6. QED
  BY <1>2, <1>3, <1>4, <1>5

\* Neither does a fill.
LEMMA FillType ==
    ASSUME TypeOK, NEW h \in Handlers, OnFill(h)
    PROVE  TypeOK' /\ OpenPairs' \subseteq OpenPairs /\ Awaiting' \subseteq Awaiting
<1>1. active' = active
  BY DEF OnFill, Read, Write, BookingFails, belief
<1>2. OpenPairs' = OpenPairs
  BY <1>1 DEF OpenPairs
<1>3. CASE \E s \in Watched, d \in Sides : Read(h, s, d)
  <2>1. PICK s \in Watched, d \in Sides : Read(h, s, d)
    BY <1>3
  <2>2. flight' \in [Watched -> [Sides -> Nat]]
    <3>1. flight[s] \in [Sides -> Nat] /\ flight[s][d] > 0
      BY <2>1 DEF Read, TypeOK
    <3>2. flight[s][d] - 1 \in Nat
      BY <3>1
    <3>3. QED
      BY <2>1, <3>1, <3>2 DEF Read, TypeOK
  <2>3. position[s] \in Int
    BY DEF TypeOK
  <2>4. /\ task' \in [Handlers -> TaskStates] /\ finishing' \subseteq Handlers
        /\ task'[h].pc = "book" /\ \A g \in Handlers \ {h} : task'[g] = task[g]
    BY <2>1, <2>3, SettleType, StateShapes DEF Read
  <2>5. excused' \subseteq Watched /\ refused' \in [Watched -> Int]
    BY <2>1, ExcuseType DEF Read
  <2>6. Awaiting' \subseteq Awaiting
    BY <2>4 DEF Awaiting
  <2>7. UNCHANGED <<belief, position, entries>>
    BY <2>1 DEF Read
  <2>8. QED
    BY <1>2, <2>2, <2>4, <2>5, <2>6, <2>7 DEF TypeOK, belief
<1>4. CASE Write(h) \/ BookingFails(h)
  <2>1. /\ task' \in [Handlers -> TaskStates] /\ finishing' \subseteq Handlers
        /\ task'[h] = Idle /\ \A g \in Handlers \ {h} : task'[g] = task[g]
    BY <1>4, SettleType, StateShapes DEF Write, BookingFails
  <2>2. Awaiting' \subseteq Awaiting
    BY <2>1, StateShapes DEF Awaiting
  <2>3. position' \in [Watched -> Int]
    <3>1. CASE Write(h)
      <4>1. task[h].symbol \in Watched /\ task[h].side \in Sides /\ task[h].held \in Int
        BY <3>1, BookingOf DEF Write
      <4>2. task[h].held + task[h].side \in Int
        BY <4>1 DEF Sides
      <4>3. QED
        BY <3>1, <4>1, <4>2 DEF Write, TypeOK
    <3>2. CASE BookingFails(h)
      BY <3>2 DEF BookingFails, TypeOK
    <3>3. QED
      BY <1>4, <3>1, <3>2
  <2>4. excused' \subseteq Watched /\ refused' \in [Watched -> Int]
    <3>1. CASE Write(h)
      BY <3>1 DEF Write, market, TypeOK
    <3>2. CASE BookingFails(h)
      BY <3>2, ExcuseType DEF BookingFails
    <3>3. QED
      BY <1>4, <3>1, <3>2
  <2>5. UNCHANGED <<belief, flight, entries>>
    BY <1>4 DEF Write, BookingFails, market
  <2>6. QED
    BY <1>2, <2>1, <2>2, <2>3, <2>4, <2>5 DEF TypeOK, belief
<1>5. QED
  BY <1>3, <1>4 DEF OnFill

-----------------------------------------------------------------------------
\* The bound is kept by a step that opens nothing.
LEMMA QuietBound ==
    ASSUME OpenPairsBounded, OpenPairs' \subseteq OpenPairs, Awaiting' \subseteq Awaiting
    PROVE  OpenPairsBounded'
<1>1. OpenPairs \in SUBSET PairKeys /\ Awaiting \in SUBSET Handlers
  BY DEF OpenPairs, Awaiting
<1>2. IsFiniteSet(OpenPairs) /\ IsFiniteSet(Awaiting)
  BY <1>1, FinitePairs
<1>3. Cardinality(OpenPairs') <= Cardinality(OpenPairs)
  BY <1>2, FS_Subset
<1>4. Cardinality(Awaiting') <= Cardinality(Awaiting)
  BY <1>2, FS_Subset
<1>5. /\ Cardinality(OpenPairs) \in Nat /\ Cardinality(Awaiting) \in Nat
      /\ Cardinality(OpenPairs') \in Nat /\ Cardinality(Awaiting') \in Nat
      /\ Cardinality(Handlers) \in Nat
  <2>1. OpenPairs' \in SUBSET PairKeys /\ Awaiting' \in SUBSET Handlers
    BY <1>1
  <2>2. QED
    BY <1>1, <2>1, FinitePairs
<1>6. MaxOpenPairs \in Nat
  BY SpreadAssumption
<1>7. QED
  BY <1>3, <1>4, <1>5, <1>6 DEF OpenPairsBounded

\* Past the check the open pairs are below the limit: even if every handler
\* waits, the bound has room for all of them.
LEMMA ConsiderBound ==
    ASSUME TypeOK, NEW h \in Handlers, NEW i \in PairKeys, Consider(h, i)
    PROVE  OpenPairsBounded'
<1>1. OpenPairs' = OpenPairs /\ Cardinality(OpenPairs) < MaxOpenPairs
  BY ConsiderType DEF Consider
<1>2. OpenPairs \in SUBSET PairKeys /\ Awaiting' \in SUBSET Handlers
  BY DEF OpenPairs, Awaiting
<1>3. IsFiniteSet(Handlers)
  BY SpreadAssumption
<1>4. Cardinality(Awaiting') <= Cardinality(Handlers)
  BY <1>2, <1>3, FS_Subset
<1>5. /\ Cardinality(OpenPairs) \in Nat /\ Cardinality(Awaiting') \in Nat
      /\ Cardinality(Handlers) \in Nat
  BY <1>2, FinitePairs
<1>6. MaxOpenPairs \in Nat
  BY SpreadAssumption
<1>7. Cardinality(OpenPairs') = Cardinality(OpenPairs)
  BY <1>1
<1>8. QED
  BY <1>1, <1>4, <1>5, <1>6, <1>7 DEF OpenPairsBounded

\* An entry turns one that waits into one that is open.
LEMMA EnterBound ==
    ASSUME TypeOK, OpenPairsBounded, NEW h \in Handlers, NEW d \in Sides, Enter(h, d)
    PROVE  OpenPairsBounded'
<1>1. PICK i \in PairKeys : OpenPairs' \subseteq OpenPairs \cup {i}
  BY EnterType
<1>2. h \in Awaiting /\ Awaiting' = Awaiting \ {h}
  BY EnterType
<1>3. OpenPairs \in SUBSET PairKeys /\ Awaiting \in SUBSET Handlers
  BY DEF OpenPairs, Awaiting
<1>4. IsFiniteSet(OpenPairs) /\ IsFiniteSet(Awaiting)
  BY <1>3, FinitePairs
<1>5. /\ IsFiniteSet(OpenPairs \cup {i})
      /\ Cardinality(OpenPairs \cup {i}) <= Cardinality(OpenPairs) + 1
  <2>1. Cardinality(OpenPairs) \in Nat
    BY <1>3, FinitePairs
  <2>2. /\ IsFiniteSet(OpenPairs \cup {i})
        /\ Cardinality(OpenPairs \cup {i})
             = IF i \in OpenPairs THEN Cardinality(OpenPairs)
               ELSE Cardinality(OpenPairs) + 1
    BY <1>4, FS_AddElement, Zenon
  <2>3. CASE i \in OpenPairs
    BY ONLY <2>1, <2>2, <2>3, SMT
  <2>4. CASE i \notin OpenPairs
    BY ONLY <2>1, <2>2, <2>4, SMT
  <2>5. QED
    BY ONLY <2>3, <2>4, Zenon
<1>6. Cardinality(OpenPairs') <= Cardinality(OpenPairs \cup {i})
  BY <1>1, <1>5, FS_Subset
<1>7. Cardinality(Awaiting') = Cardinality(Awaiting) - 1
  BY <1>2, <1>4, FS_RemoveElement
<1>8. /\ Cardinality(OpenPairs) \in Nat /\ Cardinality(Awaiting) \in Nat
      /\ Cardinality(OpenPairs') \in Nat /\ Cardinality(OpenPairs \cup {i}) \in Nat
      /\ Cardinality(Handlers) \in Nat
  <2>1. OpenPairs' \in SUBSET PairKeys /\ OpenPairs \cup {i} \in SUBSET PairKeys
    BY <1>1, <1>3
  <2>2. QED
    BY <1>3, <2>1, FinitePairs
<1>9. MaxOpenPairs \in Nat
  BY SpreadAssumption
<1>10. QED
  BY <1>5, <1>6, <1>7, <1>8, <1>9 DEF OpenPairsBounded

-----------------------------------------------------------------------------
LEMMA InitInv ==
    ASSUME Init
    PROVE  TypeOK /\ OpenPairsBounded
<1>1. TypeOK
  <2>1. task \in [Handlers -> TaskStates]
    BY StateShapes DEF Init
  <2>2. flight \in [Watched -> [Sides -> Nat]]
    BY DEF Init
  <2>3. late \in BOOLEAN /\ halted \in BOOLEAN
    BY Zenon DEF Init
  <2>4. active \in [PairKeys -> {0, 1, -1}] /\ position \in [Watched -> Int]
    BY DEF Init
  <2>5. refused \in [Watched -> Int]
    BY DEF Init
  <2>6. /\ seen \subseteq Symbols /\ finishing \subseteq Handlers
        /\ excused \subseteq Watched /\ entries \in 0..MaxEntries
    BY SpreadAssumption DEF Init
  <2>7. QED
    BY <2>1, <2>2, <2>3, <2>4, <2>5, <2>6 DEF TypeOK
<1>2. OpenPairs = {} /\ Awaiting = {}
  BY StateShapes DEF Init, OpenPairs, Awaiting
<1>3. Cardinality(OpenPairs) = 0 /\ Cardinality(Awaiting) = 0
  BY <1>2, FS_EmptySet
<1>4. Cardinality(Handlers) \in Nat \ {0}
  BY SpreadAssumption, FS_EmptySet, FS_CardinalityType
<1>5. OpenPairsBounded
  BY <1>3, <1>4, SpreadAssumption DEF OpenPairsBounded
<1>6. QED
  BY <1>1, <1>5

LEMMA NextInv ==
    ASSUME TypeOK, OpenPairsBounded, [Next]_vars
    PROVE  TypeOK' /\ OpenPairsBounded'
<1>1. ASSUME NEW h \in Handlers, NEW s \in Symbols, Tick(h, s)
      PROVE  TypeOK' /\ OpenPairsBounded'
  BY <1>1, TickType, QuietBound
<1>2. ASSUME NEW h \in Handlers, NEW i \in PairKeys, Exit(h, i)
      PROVE  TypeOK' /\ OpenPairsBounded'
  BY <1>2, ExitType, QuietBound
<1>3. ASSUME NEW h \in Handlers, NEW i \in PairKeys, Consider(h, i)
      PROVE  TypeOK' /\ OpenPairsBounded'
  BY <1>3, ConsiderType, ConsiderBound
<1>4. ASSUME NEW h \in Handlers, NEW d \in Sides, Enter(h, d)
      PROVE  TypeOK' /\ OpenPairsBounded'
  BY <1>4, EnterType, EnterBound
<1>5. ASSUME NEW h \in Handlers, Pass(h) \/ Decline(h)
      PROVE  TypeOK' /\ OpenPairsBounded'
  BY <1>5, LoopType, QuietBound
<1>6. ASSUME NEW h \in Handlers, OnFill(h)
      PROVE  TypeOK' /\ OpenPairsBounded'
  BY <1>6, FillType, QuietBound
<1>7. CASE \/ Halt \/ Resume \/ Clock
           \/ \E s \in Watched : Expire(s)
           \/ \E s \in Watched, d \in Sides : Refuse(s, d)
  BY <1>7, OutsideType, QuietBound
<1>8. CASE UNCHANGED vars
  <2>1. TypeOK'
    BY <1>8 DEF vars, belief, market, TypeOK
  <2>2. OpenPairs' = OpenPairs /\ Awaiting' = Awaiting
    BY <1>8 DEF vars, belief, OpenPairs, Awaiting
  <2>3. QED
    BY <2>1, <2>2, QuietBound
<1>9. QED
  BY <1>1, <1>2, <1>3, <1>4, <1>5, <1>6, <1>7, <1>8 DEF Next, OnTick

\* on_tick and on_fill keep the shape of the strategy's books, the counters of
\* signals never go below zero, and an entry is recorded with one side.
THEOREM Typing == Spec => []TypeOK
<1>1. Init => TypeOK /\ OpenPairsBounded
  BY InitInv
<1>2. (TypeOK /\ OpenPairsBounded) /\ [Next]_vars => (TypeOK /\ OpenPairsBounded)'
  BY NextInv
<1>3. QED
  BY <1>1, <1>2, PTL DEF Spec

\* The open pairs pass max_open_pairs by less than the number of coroutines that
\* run on_tick, whatever the pairs: with one dispatch loop the limit is exact.
THEOREM OpenPairsLimit == Spec => []OpenPairsBounded
<1>1. Init => TypeOK /\ OpenPairsBounded
  BY InitInv
<1>2. (TypeOK /\ OpenPairsBounded) /\ [Next]_vars => (TypeOK /\ OpenPairsBounded)'
  BY NextInv
<1>3. QED
  BY <1>1, <1>2, PTL DEF Spec

-----------------------------------------------------------------------------
\* Nobody else books the position of a symbol that is not excused, so that what
\* on_fill has read is what is there when it writes.
LoneBooking ==
    \A s \in Watched \ excused : \A h \in Handlers :
        task[h].pc = "book" /\ task[h].symbol = s =>
            /\ task[h].held = position[s]
            /\ \A g \in Handlers : task[g].pc = "book" /\ task[g].symbol = s => g = h

\* A pair of such a symbol that a handler is about to enter is entered by nobody
\* else and is not open.
LoneEntry ==
    \A i \in PairKeys : {Pairs[i][1], Pairs[i][2]} \cap (Watched \ excused) # {} =>
        \A h \in Entering(i) : active[i] = 0 /\ Entering(i) = {h}

\* Who is in on_tick while the strategy is halted was there when it was halted.
OnlyFinishing ==
    halted => \A h \in Handlers : task[h].pc \in {"scan", "entry"} => h \in finishing

BooksInv == TypeOK /\ LoneBooking /\ LoneEntry /\ OnlyFinishing /\ BooksMatchBelief

\* What the solver does not know of negation.
LEMMA Negation == -0 = 0 /\ -(-1) = 1 /\ \A z \in Int : -(-z) = z
<1>1. \A z \in Int : (z + z = z => -z = z) /\ -(-z) = z
  OBVIOUS
<1>2. 0 \in Int /\ 0 + 0 = 0 /\ 1 \in Int
  OBVIOUS
<1>3. QED
  BY <1>1, <1>2, Zenon

\* The side of a symbol in a pair; there is none without an entry, and closing an
\* entry is the other side.
LEMMA LegSideOf ==
    ASSUME NEW i \in PairKeys, NEW s, NEW d \in {0, 1, -1}
    PROVE  /\ LegSide(i, s, d) \in {0, 1, -1} /\ LegSide(i, s, 0) = 0
           /\ LegSide(i, s, -d) = -LegSide(i, s, d)
           /\ s \notin {Pairs[i][1], Pairs[i][2]} => LegSide(i, s, d) = 0
<1>1. -0 = 0 /\ -d \in {0, 1, -1} /\ -(-d) = d
  <2>1. d \in Int /\ -d \in {0, 1, -1}
    OBVIOUS
  <2>2. QED
    BY <2>1, Negation, Zenon
<1>2. CASE s = Pairs[i][1]
  BY <1>1, <1>2 DEF LegSide
<1>3. CASE s # Pairs[i][1] /\ s = Pairs[i][2]
  BY <1>1, <1>3 DEF LegSide
<1>4. CASE s # Pairs[i][1] /\ s # Pairs[i][2]
  BY <1>1, <1>4 DEF LegSide
<1>5. QED
  BY <1>2, <1>3, <1>4

\* The sets that are counted are finite.
LEMMA Countable ==
    ASSUME NEW s, NEW d
    PROVE  /\ IsFiniteSet(Legs(s, d)) /\ Cardinality(Legs(s, d)) \in Nat
           /\ IsFiniteSet(Booked(s, d)) /\ Cardinality(Booked(s, d)) \in Nat
<1>1. Legs(s, d) \in SUBSET PairKeys /\ Booked(s, d) \in SUBSET Handlers
  BY DEF Legs, Booked
<1>2. QED
  BY <1>1, FinitePairs

\* The equation of a symbol.
Balanced(s) ==
    position[s] + (Coming(s, 1) - Coming(s, -1)) + refused[s]
        = Cardinality(Legs(s, 1)) - Cardinality(Legs(s, -1))

\* What the equation is made of is an integer.
LEMMA Terms ==
    ASSUME TypeOK, NEW s \in Watched
    PROVE  /\ position[s] \in Int /\ refused[s] \in Int
           /\ \A d \in Sides : flight[s][d] \in Nat /\ Coming(s, d) \in Nat
                               /\ Cardinality(Booked(s, d)) \in Nat
                               /\ Cardinality(Legs(s, d)) \in Nat
<1>1. position[s] \in Int /\ refused[s] \in Int
  BY DEF TypeOK
<1>2. ASSUME NEW d \in Sides
      PROVE  /\ flight[s][d] \in Nat /\ Coming(s, d) \in Nat
             /\ Cardinality(Booked(s, d)) \in Nat /\ Cardinality(Legs(s, d)) \in Nat
  <2>1. flight[s][d] \in Nat
    BY DEF TypeOK
  <2>2. Cardinality(Booked(s, d)) \in Nat /\ Cardinality(Legs(s, d)) \in Nat
    BY Countable
  <2>3. QED
    BY <2>1, <2>2 DEF Coming
<1>3. QED
  BY <1>1, <1>2

\* A handler that books nothing before and after its step changes no booking.
LEMMA BookedStays ==
    ASSUME NEW h \in Handlers, \A g \in Handlers \ {h} : task'[g] = task[g],
           task[h].pc # "book", task'[h].pc # "book"
    PROVE  \A s, d : Booked(s, d)' = Booked(s, d)
  BY DEF Booked

\* Closing pairs sends for each leg the signal on the other side, so that what is
\* on its way changes as what is believed does.
LEMMA CloseBalance ==
    ASSUME TypeOK, TypeOK', NEW s \in Watched, Balanced(s),
           NEW K \in SUBSET PairKeys,
           Emit(K, [i \in PairKeys |-> -active[i]]),
           active' = [i \in PairKeys |-> IF i \in K THEN 0 ELSE active[i]],
           position'[s] = position[s], refused'[s] = refused[s],
           \A d \in Sides : Booked(s, d)' = Booked(s, d)
    PROVE  Balanced(s)'
<1> DEFINE Closed(d) == {i \in K : LegSide(i, s, active[i]) = d}
<1>0. ASSUME NEW d PROVE IsFiniteSet(Closed(d)) /\ Cardinality(Closed(d)) \in Nat
  <2>1. Closed(d) \in SUBSET PairKeys
    OBVIOUS
  <2>2. QED
    BY <2>1, FinitePairs
<1>1. ASSUME NEW d \in Sides
      PROVE  flight'[s][d] = flight[s][d] + Cardinality(Closed(-d))
  <2>1. \A i \in K : LegSide(i, s, -active[i]) = d <=> LegSide(i, s, active[i]) = -d
    <3>1. ASSUME NEW i \in K
          PROVE  LegSide(i, s, -active[i]) = -LegSide(i, s, active[i])
                 /\ LegSide(i, s, active[i]) \in {0, 1, -1}
      BY LegSideOf DEF TypeOK
    <3>2. QED
      BY <3>1 DEF Sides
  <2>2. {i \in K : LegSide(i, s, [j \in PairKeys |-> -active[j]][i]) = d} = Closed(-d)
    BY <2>1
  <2>3. QED
    BY <2>2 DEF Emit
<1>2. ASSUME NEW d \in Sides
      PROVE  Cardinality(Legs(s, d)) = Cardinality(Legs(s, d)') + Cardinality(Closed(d))
  <2>1. \A i \in PairKeys : active'[i] = IF i \in K THEN 0 ELSE active[i]
    OBVIOUS
  <2>2. \A i \in K : LegSide(i, s, 0) # d
    BY LegSideOf DEF Sides
  <2>3. Legs(s, d)' = {i \in PairKeys \ K : LegSide(i, s, active[i]) = d}
    BY <2>1, <2>2 DEF Legs
  <2>4. Legs(s, d) = Legs(s, d)' \cup Closed(d) /\ Legs(s, d)' \cap Closed(d) = {}
    BY <2>3 DEF Legs
  <2>5. IsFiniteSet(Legs(s, d)') /\ IsFiniteSet(Closed(d))
    <3>1. Legs(s, d)' \in SUBSET PairKeys
      BY <2>3
    <3>2. QED
      BY <1>0, <3>1, FinitePairs
  <2>6. Cardinality({}) = 0
    BY FS_EmptySet
  <2>7. /\ Cardinality(Legs(s, d)') \in Nat /\ Cardinality(Closed(d)) \in Nat
    BY <2>5, FS_CardinalityType
  <2> HIDE DEF Closed
  <2>8. Cardinality(Legs(s, d)' \cup Closed(d))
          = Cardinality(Legs(s, d)') + Cardinality(Closed(d)) - Cardinality(Legs(s, d)' \cap Closed(d))
    BY <2>5, FS_Union
  <2>9. QED
    <3>1. Cardinality(Legs(s, d)) = Cardinality(Legs(s, d)' \cup Closed(d))
      BY <2>4, Zenon
    <3>2. Cardinality(Legs(s, d)' \cap Closed(d)) = 0
      BY <2>4, <2>6, Zenon
    <3>3. QED
      BY <2>7, <2>8, <3>1, <3>2
<1>3. \A d \in Sides : Coming(s, d)' = Coming(s, d) + Cardinality(Closed(-d))
  <2> HIDE DEF Closed
  <2>1. ASSUME NEW d \in Sides
        PROVE  Coming(s, d)' = Coming(s, d) + Cardinality(Closed(-d))
    <3>1. flight[s][d] \in Nat /\ Cardinality(Booked(s, d)) \in Nat
      BY Terms
    <3>2. Cardinality(Closed(-d)) \in Nat
      BY <1>0
    <3>3. Coming(s, d)' = flight'[s][d] + Cardinality(Booked(s, d))
      BY DEF Coming
    <3>4. QED
      BY <1>1, <3>1, <3>2, <3>3 DEF Coming
  <2>2. QED
    BY <2>1
<1> HIDE DEF Closed
<1>4. /\ Coming(s, 1)' = Coming(s, 1) + Cardinality(Closed(-1))
      /\ Coming(s, -1)' = Coming(s, -1) + Cardinality(Closed(1))
      /\ Cardinality(Legs(s, 1)) = Cardinality(Legs(s, 1)') + Cardinality(Closed(1))
      /\ Cardinality(Legs(s, -1)) = Cardinality(Legs(s, -1)') + Cardinality(Closed(-1))
  <2>1. 1 \in Sides /\ -1 \in Sides
    BY DEF Sides
  <2>2. QED
    BY <1>2, <1>3, <2>1, Negation, Zenon
<1>5. /\ Cardinality(Closed(1)) \in Nat /\ Cardinality(Closed(-1)) \in Nat
      /\ Coming(s, 1) \in Nat /\ Coming(s, -1) \in Nat
      /\ Cardinality(Legs(s, 1)') \in Nat /\ Cardinality(Legs(s, -1)') \in Nat
      /\ position[s] \in Int /\ refused[s] \in Int
  <2>1. Legs(s, 1)' \in SUBSET PairKeys /\ Legs(s, -1)' \in SUBSET PairKeys
    BY DEF Legs
  <2>2. Cardinality(Legs(s, 1)') \in Nat /\ Cardinality(Legs(s, -1)') \in Nat
    BY <2>1, FinitePairs
  <2>3. QED
    BY <1>0, <2>2, Terms DEF Sides
<1>6. QED
  BY <1>4, <1>5 DEF Balanced

\* An entry sends for each leg the signal on its side.
LEMMA EnterBalance ==
    ASSUME TypeOK, NEW s \in Watched, Balanced(s), NEW i \in PairKeys, NEW d \in Sides,
           Emit({i}, [j \in PairKeys |-> d]), active' = [active EXCEPT ![i] = d],
           active[i] = 0 \/ s \notin {Pairs[i][1], Pairs[i][2]},
           position'[s] = position[s], refused'[s] = refused[s],
           \A c \in Sides : Booked(s, c)' = Booked(s, c)
    PROVE  Balanced(s)'
<1> DEFINE Sent(c) == IF LegSide(i, s, d) = c THEN 1 ELSE 0
<1>1. d \in {0, 1, -1} /\ active[i] \in {0, 1, -1}
  BY DEF Sides, TypeOK
<1>2. ASSUME NEW c \in Sides
      PROVE  flight'[s][c] = flight[s][c] + Sent(c)
  <2>1. flight'[s][c] = flight[s][c] + Cardinality({j \in {i} : LegSide(j, s, d) = c})
    BY DEF Emit
  <2>2. CASE LegSide(i, s, d) = c
    <3>1. {j \in {i} : LegSide(j, s, d) = c} = {i}
      BY <2>2
    <3>2. QED
      BY <2>1, <2>2, <3>1, FS_Singleton
  <2>3. CASE LegSide(i, s, d) # c
    <3>1. {j \in {i} : LegSide(j, s, d) = c} = {}
      BY <2>3
    <3>2. QED
      BY <2>1, <2>3, <3>1, FS_EmptySet
  <2>4. QED
    BY <2>2, <2>3
<1>3. ASSUME NEW c \in Sides
      PROVE  Cardinality(Legs(s, c)') = Cardinality(Legs(s, c)) + Sent(c)
  <2>1. \A j \in PairKeys : active'[j] = IF j = i THEN d ELSE active[j]
    BY DEF TypeOK
  <2>2. c # 0
    BY DEF Sides
  <2>3. LegSide(i, s, active[i]) = 0
    BY <1>1, LegSideOf
  <2>4. i \notin Legs(s, c)
    BY <2>2, <2>3 DEF Legs
  <2>5. IsFiniteSet(Legs(s, c)) /\ Cardinality(Legs(s, c)) \in Nat
    BY Countable
  <2>6. CASE LegSide(i, s, d) = c
    <3>1. Legs(s, c)' = Legs(s, c) \cup {i}
      BY <2>1, <2>6 DEF Legs
    <3>2. Cardinality(Legs(s, c) \cup {i}) = Cardinality(Legs(s, c)) + 1
      BY <2>4, <2>5, FS_AddElement
    <3>3. QED
      BY <2>6, <3>1, <3>2
  <2>7. CASE LegSide(i, s, d) # c
    <3>1. Legs(s, c)' = Legs(s, c)
      BY <2>1, <2>4, <2>7 DEF Legs
    <3>2. QED
      BY <2>5, <2>7, <3>1
  <2>8. QED
    BY <2>6, <2>7
<1>4. ASSUME NEW c \in Sides
      PROVE  Coming(s, c)' = Coming(s, c) + Sent(c)
  <2>1. Coming(s, c)' = flight'[s][c] + Cardinality(Booked(s, c))
    BY DEF Coming
  <2>2. flight[s][c] \in Nat /\ Cardinality(Booked(s, c)) \in Nat
    BY Terms
  <2>3. QED
    BY <1>2, <2>1, <2>2 DEF Coming
<1>5. /\ Coming(s, 1)' = Coming(s, 1) + Sent(1) /\ Coming(s, -1)' = Coming(s, -1) + Sent(-1)
      /\ Cardinality(Legs(s, 1)') = Cardinality(Legs(s, 1)) + Sent(1)
      /\ Cardinality(Legs(s, -1)') = Cardinality(Legs(s, -1)) + Sent(-1)
  BY <1>3, <1>4, Zenon DEF Sides
<1>6. /\ Coming(s, 1) \in Nat /\ Coming(s, -1) \in Nat /\ Sent(1) \in Nat /\ Sent(-1) \in Nat
      /\ Cardinality(Legs(s, 1)) \in Nat /\ Cardinality(Legs(s, -1)) \in Nat
      /\ position[s] \in Int /\ refused[s] \in Int
  BY Terms DEF Sides
<1> HIDE DEF Sent
<1>7. QED
  BY <1>5, <1>6 DEF Balanced

\* A step that leaves the terms of a symbol alone keeps its equation.
LEMMA SameBalance ==
    ASSUME NEW s \in Watched, Balanced(s), active' = active,
           flight'[s] = flight[s], position'[s] = position[s], refused'[s] = refused[s],
           \A c \in Sides : Booked(s, c)' = Booked(s, c)
    PROVE  Balanced(s)'
<1>1. Legs(s, 1)' = Legs(s, 1) /\ Legs(s, -1)' = Legs(s, -1)
  BY DEF Legs
<1>2. Booked(s, 1)' = Booked(s, 1) /\ Booked(s, -1)' = Booked(s, -1)
  BY DEF Sides
<1>3. Coming(s, 1)' = Coming(s, 1) /\ Coming(s, -1)' = Coming(s, -1)
  BY <1>2 DEF Coming
<1>4. QED
  BY <1>1, <1>3 DEF Balanced

\* One side of what is coming goes up or down by n, and the position or what was
\* refused takes the difference.
LEMMA ShiftedBalance ==
    ASSUME TypeOK, NEW s \in Watched, Balanced(s), NEW d \in Sides, NEW n \in Int,
           active' = active, Coming(s, d)' = Coming(s, d) + n,
           \A c \in Sides \ {d} : Coming(s, c)' = Coming(s, c),
           position'[s] + refused'[s] = position[s] + refused[s] - n * d,
           position'[s] \in Int, refused'[s] \in Int
    PROVE  Balanced(s)'
<1>1. Legs(s, 1)' = Legs(s, 1) /\ Legs(s, -1)' = Legs(s, -1)
  BY DEF Legs
<1>2. /\ Coming(s, 1) \in Nat /\ Coming(s, -1) \in Nat
      /\ Cardinality(Legs(s, 1)) \in Nat /\ Cardinality(Legs(s, -1)) \in Nat
      /\ position[s] \in Int /\ refused[s] \in Int
  BY Terms DEF Sides
<1>3. CASE d = 1
  <2>1. Coming(s, 1)' = Coming(s, 1) + n /\ Coming(s, -1)' = Coming(s, -1)
    BY <1>3 DEF Sides
  <2>2. position'[s] + refused'[s] = position[s] + refused[s] - n
    BY <1>2, <1>3
  <2>3. QED
    BY <1>1, <1>2, <2>1, <2>2 DEF Balanced
<1>4. CASE d = -1
  <2>1. Coming(s, -1)' = Coming(s, -1) + n /\ Coming(s, 1)' = Coming(s, 1)
    BY <1>4 DEF Sides
  <2>2. position'[s] + refused'[s] = position[s] + refused[s] + n
    BY <1>2, <1>4
  <2>3. QED
    BY <1>1, <1>2, <2>1, <2>2 DEF Balanced
<1>5. QED
  BY <1>3, <1>4 DEF Sides

-----------------------------------------------------------------------------
\* A handler that is in on_tick before its step, or not after it, leaves the
\* record of who finishes right.
LEMMA SettleFinishes ==
    ASSUME TypeOK, OnlyFinishing, NEW h \in Handlers, NEW t \in TaskStates, Settle(h, t),
           halted' = halted,
           task[h].pc \in {"scan", "entry"} \/ t.pc \notin {"scan", "entry"}
    PROVE  OnlyFinishing'
<1>1. task'[h] = t /\ \A g \in Handlers \ {h} : task'[g] = task[g]
  BY SettleType
<1>2. SUFFICES ASSUME halted, NEW g \in Handlers, task'[g].pc \in {"scan", "entry"}
               PROVE  g \in finishing'
  BY DEF OnlyFinishing
<1>3. g \in finishing
  BY <1>1, <1>2 DEF OnlyFinishing
<1>4. CASE g = h
  <2>1. t # Idle
    BY <1>1, <1>2, <1>4, StateShapes
  <2>2. QED
    BY <1>3, <2>1 DEF Settle
<1>5. CASE g # h
  BY <1>3, <1>5 DEF Settle
<1>6. QED
  BY <1>4, <1>5

\* Where the loop goes.
LEMMA VisitsSettle ==
    ASSUME NEW h \in Handlers, NEW s \in Symbols, NEW i, NEW prices, Visits(h, s, i, prices)
    PROVE  \E t \in TaskStates : Settle(h, t) /\ t.pc \in {"idle", "scan"}
<1>1. CASE \E j \in PairKeys : Settle(h, Visit("scan", s, j))
  BY <1>1, StateShapes
<1>2. CASE Settle(h, Idle)
  BY <1>2, StateShapes
<1>3. QED
  BY <1>1, <1>2 DEF Visits

\* Steps of on_tick by which nobody starts to enter a pair.
LEMMA NobodyEnters ==
    ASSUME TypeOK, LoneBooking, LoneEntry, NEW h \in Handlers,
           \A g \in Handlers \ {h} : task'[g] = task[g],
           task[h].pc # "book", task'[h].pc \in {"idle", "scan"},
           UNCHANGED <<position, excused>>,
           \A i \in PairKeys : active[i] = 0 => active'[i] = 0 \/ h \in Entering(i)
    PROVE  LoneBooking' /\ LoneEntry'
<1>1. LoneBooking'
  BY DEF LoneBooking
<1>2. \A i \in PairKeys : Entering(i)' \subseteq Entering(i) \ {h}
  BY DEF Entering
<1>3. LoneEntry'
  <2>1. SUFFICES ASSUME NEW i \in PairKeys,
                        {Pairs[i][1], Pairs[i][2]} \cap (Watched \ excused) # {},
                        NEW g \in Entering(i)'
                 PROVE  active'[i] = 0 /\ Entering(i)' = {g}
    BY DEF LoneEntry
  <2>2. g \in Entering(i) /\ g # h
    BY <1>2
  <2>3. active[i] = 0 /\ Entering(i) = {g}
    BY <2>1, <2>2 DEF LoneEntry
  <2>4. QED
    BY <1>2, <2>2, <2>3
<1>4. QED
  BY <1>1, <1>3

-----------------------------------------------------------------------------
\* One lemma per part of the strategy: on_tick, on_fill, and what is around it.
LEMMA TickBooks ==
    ASSUME BooksInv, TypeOK', NEW h \in Handlers, NEW s \in Symbols, Tick(h, s)
    PROVE  BooksInv'
<1>1. TypeOK /\ LoneBooking /\ LoneEntry /\ BooksMatchBelief
  BY DEF BooksInv
<1>2. /\ task[h] = Idle /\ ~halted /\ UNCHANGED <<late, halted, position, refused, excused, entries>>
      /\ \/ late /\ Emit(OpenPairs, [i \in PairKeys |-> -active[i]])
                 /\ active' = [i \in PairKeys |-> 0]
         \/ ~late /\ UNCHANGED <<flight, active>>
  BY DEF Tick
<1>3. PICK t \in TaskStates : Settle(h, t) /\ t.pc \in {"idle", "scan"}
  BY VisitsSettle DEF Tick
<1>4. /\ task'[h] = t /\ \A g \in Handlers \ {h} : task'[g] = task[g]
      /\ task[h].pc = "idle"
  BY <1>1, <1>2, <1>3, SettleType, StateShapes
<1>5. \A i \in PairKeys : active[i] = 0 => active'[i] = 0
  BY <1>2
<1>6. LoneBooking' /\ LoneEntry'
  BY <1>1, <1>2, <1>3, <1>4, <1>5, NobodyEnters
<1>7. OnlyFinishing'
  BY <1>2 DEF OnlyFinishing
<1>8. \A x, d : Booked(x, d)' = Booked(x, d)
  BY <1>3, <1>4, BookedStays
<1>9. ASSUME NEW x \in Watched \ excused PROVE Balanced(x)'
  <2>1. Balanced(x)
    BY <1>1 DEF BooksMatchBelief, Balanced
  <2>2. CASE active' = active /\ flight' = flight
    BY <1>2, <1>8, <2>1, <2>2, SameBalance
  <2>3. CASE Emit(OpenPairs, [i \in PairKeys |-> -active[i]]) /\ active' = [i \in PairKeys |-> 0]
    <3>1. active' = [i \in PairKeys |-> IF i \in OpenPairs THEN 0 ELSE active[i]]
      BY <2>3 DEF OpenPairs
    <3>2. OpenPairs \in SUBSET PairKeys
      BY DEF OpenPairs
    <3>3. QED
      BY <1>1, <1>2, <1>8, <2>1, <2>3, <3>1, <3>2, CloseBalance
  <2>4. QED
    BY <1>2, <2>2, <2>3
<1>10. BooksMatchBelief'
  BY <1>2, <1>9 DEF BooksMatchBelief, Balanced
<1>11. QED
  BY <1>6, <1>7, <1>10 DEF BooksInv

LEMMA LoopBooks ==
    ASSUME BooksInv, TypeOK', NEW h \in Handlers, Pass(h) \/ Decline(h)
    PROVE  BooksInv'
<1>1. TypeOK /\ LoneBooking /\ LoneEntry /\ OnlyFinishing /\ BooksMatchBelief
  BY DEF BooksInv
<1>2. /\ task[h].pc \in {"scan", "entry"} /\ (GoOn(h) \/ Settle(h, Idle))
      /\ UNCHANGED <<belief, market, position, excused, entries>>
  BY DEF Pass, Decline
<1>3. PICK t \in TaskStates : Settle(h, t) /\ t.pc \in {"idle", "scan"}
  <2>1. task[h].symbol \in Symbols
    BY <1>1, <1>2, VisitOf DEF Pass, Decline
  <2>2. QED
    BY <1>2, <2>1, VisitsSettle, StateShapes DEF GoOn
<1>4. /\ task'[h] = t /\ \A g \in Handlers \ {h} : task'[g] = task[g]
      /\ task[h].pc # "book"
  BY <1>1, <1>3, SettleType DEF Pass, Decline
<1>5. LoneBooking' /\ LoneEntry'
  BY <1>1, <1>2, <1>3, <1>4, NobodyEnters DEF belief
<1>6. OnlyFinishing'
  BY <1>1, <1>2, <1>3, SettleFinishes DEF belief, Pass, Decline
<1>7. \A x, d : Booked(x, d)' = Booked(x, d)
  BY <1>3, <1>4, BookedStays
<1>8. ASSUME NEW x \in Watched \ excused PROVE Balanced(x)'
  BY <1>1, <1>2, <1>7, SameBalance DEF BooksMatchBelief, Balanced, belief, market
<1>9. BooksMatchBelief'
  BY <1>2, <1>8 DEF BooksMatchBelief, Balanced
<1>10. QED
  BY <1>5, <1>6, <1>9 DEF BooksInv

LEMMA ExitBooks ==
    ASSUME BooksInv, TypeOK', NEW h \in Handlers, NEW i \in PairKeys, Exit(h, i)
    PROVE  BooksInv'
<1>1. TypeOK /\ LoneBooking /\ LoneEntry /\ OnlyFinishing /\ BooksMatchBelief
  BY DEF BooksInv
<1>2. /\ task[h].pc = "scan" /\ active' = [active EXCEPT ![i] = 0] /\ Settle(h, Idle)
      /\ Emit({i}, [j \in PairKeys |-> -active[j]])
      /\ UNCHANGED <<seen, late, halted, position, refused, excused, entries>>
  BY DEF Exit, At
<1>3. task'[h] = Idle /\ \A g \in Handlers \ {h} : task'[g] = task[g]
  BY <1>1, <1>2, SettleType, StateShapes
<1>4. \A j \in PairKeys : active'[j] = IF j \in {i} THEN 0 ELSE active[j]
  BY <1>1, <1>2 DEF TypeOK
<1>5. LoneBooking' /\ LoneEntry'
  BY <1>1, <1>2, <1>3, <1>4, StateShapes, NobodyEnters
<1>6. OnlyFinishing'
  BY <1>1, <1>2, StateShapes, SettleFinishes
<1>7. \A x, d : Booked(x, d)' = Booked(x, d)
  BY <1>2, <1>3, StateShapes, BookedStays
<1>8. ASSUME NEW x \in Watched \ excused PROVE Balanced(x)'
  <2>1. Balanced(x) /\ position'[x] = position[x] /\ refused'[x] = refused[x]
    BY <1>1, <1>2 DEF BooksMatchBelief, Balanced
  <2>2. active' = [j \in PairKeys |-> IF j \in {i} THEN 0 ELSE active[j]]
    BY <1>4 DEF BooksInv, TypeOK
  <2>3. {i} \in SUBSET PairKeys
    OBVIOUS
  <2>4. QED
    BY <1>1, <1>2, <1>7, <2>1, <2>2, <2>3, CloseBalance
<1>9. BooksMatchBelief'
  BY <1>2, <1>8 DEF BooksMatchBelief, Balanced
<1>10. QED
  BY <1>5, <1>6, <1>9 DEF BooksInv

\* What is excused stops being compared, and the rest is as it was.
LEMMA ExcuseKeeps ==
    ASSUME TypeOK, NEW S, Excuse(S), NEW x \in Watched \ excused'
    PROVE  x \notin S /\ x \in Watched \ excused /\ refused'[x] = refused[x]
  BY DEF Excuse, TypeOK

LEMMA ConsiderBooks ==
    ASSUME BooksInv, TypeOK', NEW h \in Handlers, NEW i \in PairKeys, Consider(h, i)
    PROVE  BooksInv'
<1> DEFINE S == IF Entering(i) = {} THEN {} ELSE {Pairs[i][1], Pairs[i][2]}
           t == Visit("entry", task[h].symbol, i)
<1>1. TypeOK /\ LoneBooking /\ LoneEntry /\ OnlyFinishing /\ BooksMatchBelief
  BY DEF BooksInv
<1>2. /\ task[h].pc = "scan" /\ active[i] = 0 /\ Settle(h, t) /\ Excuse(S)
      /\ UNCHANGED <<belief, flight, position, entries>>
  BY DEF Consider, At
<1>3. t \in TaskStates /\ t.pc = "entry" /\ t.pair = i
  <2>1. task[h].symbol \in Symbols
    BY <1>1, <1>2, VisitOf
  <2>2. QED
    BY <2>1, StateShapes DEF Visit
<1>4. task'[h] = t /\ \A g \in Handlers \ {h} : task'[g] = task[g]
  BY <1>1, <1>2, <1>3, SettleType
<1>5. \A x \in Watched \ excused' : x \notin S /\ x \in Watched \ excused /\ refused'[x] = refused[x]
  BY <1>1, <1>2, ExcuseKeeps
<1>6. LoneBooking'
  BY <1>1, <1>2, <1>3, <1>4, <1>5 DEF LoneBooking
<1>7. LoneEntry'
  <2>1. SUFFICES ASSUME NEW j \in PairKeys,
                        {Pairs[j][1], Pairs[j][2]} \cap (Watched \ excused') # {},
                        NEW g \in Entering(j)'
                 PROVE  active'[j] = 0 /\ Entering(j)' = {g}
    BY DEF LoneEntry
  <2>2. {Pairs[j][1], Pairs[j][2]} \cap (Watched \ excused) # {}
    BY <1>5, <2>1
  <2>3. active' = active
    BY <1>2 DEF belief
  <2>4. CASE j = i
    <3>1. Entering(i) = {}
      BY <1>5, <2>1, <2>4
    <3>2. Entering(i)' = {h}
      BY <1>3, <1>4, <3>1 DEF Entering
    <3>3. QED
      BY <1>2, <2>1, <2>3, <2>4, <3>2
  <2>5. CASE j # i
    <3>1. Entering(j)' = Entering(j)
      BY <1>2, <1>3, <1>4, <2>5 DEF Entering
    <3>2. QED
      BY <1>1, <2>1, <2>2, <2>3, <3>1 DEF LoneEntry
  <2>6. QED
    BY <2>4, <2>5
<1>8. OnlyFinishing'
  BY <1>1, <1>2, <1>3, SettleFinishes DEF belief
<1>9. \A x, d : Booked(x, d)' = Booked(x, d)
  BY <1>2, <1>3, <1>4, BookedStays
<1> HIDE DEF S, t
<1>10. ASSUME NEW x \in Watched \ excused' PROVE Balanced(x)'
  BY <1>1, <1>2, <1>5, <1>9, <1>10, SameBalance DEF BooksMatchBelief, Balanced, belief
<1>11. BooksMatchBelief'
  BY <1>10 DEF BooksMatchBelief, Balanced
<1>12. QED
  BY <1>6, <1>7, <1>8, <1>11 DEF BooksInv

LEMMA EnterBooks ==
    ASSUME BooksInv, TypeOK', NEW h \in Handlers, NEW d \in Sides, Enter(h, d)
    PROVE  BooksInv'
<1>0. PICK i : i = task[h].pair
  OBVIOUS
<1>1. TypeOK /\ LoneBooking /\ LoneEntry /\ OnlyFinishing /\ BooksMatchBelief
  BY DEF BooksInv
<1>2. /\ task[h].pc = "entry" /\ active' = [active EXCEPT ![i] = d] /\ Settle(h, Idle)
      /\ Emit({i}, [j \in PairKeys |-> d])
      /\ UNCHANGED <<seen, late, halted, position, refused, excused>>
  BY <1>0 DEF Enter
<1>3. i \in PairKeys /\ h \in Entering(i)
  BY <1>0, <1>1, <1>2, VisitOf DEF Entering
<1>4. task'[h] = Idle /\ \A g \in Handlers \ {h} : task'[g] = task[g]
  BY <1>1, <1>2, SettleType, StateShapes
<1>5. \A j \in PairKeys : active'[j] = IF j = i THEN d ELSE active[j]
  BY <1>1, <1>2 DEF TypeOK
<1>6. LoneBooking' /\ LoneEntry'
  BY <1>1, <1>2, <1>3, <1>4, <1>5, StateShapes, NobodyEnters
<1>7. OnlyFinishing'
  BY <1>1, <1>2, StateShapes, SettleFinishes
<1>8. \A x, c : Booked(x, c)' = Booked(x, c)
  BY <1>2, <1>4, StateShapes, BookedStays
<1>9. ASSUME NEW x \in Watched \ excused PROVE Balanced(x)'
  <2>1. Balanced(x) /\ position'[x] = position[x] /\ refused'[x] = refused[x]
    BY <1>1, <1>2 DEF BooksMatchBelief, Balanced
  <2>2. active[i] = 0 \/ x \notin {Pairs[i][1], Pairs[i][2]}
    BY <1>1, <1>3 DEF LoneEntry
  <2>3. QED
    BY <1>1, <1>2, <1>3, <1>8, <2>1, <2>2, EnterBalance
<1>10. BooksMatchBelief'
  BY <1>2, <1>9 DEF BooksMatchBelief, Balanced
<1>11. QED
  BY <1>6, <1>7, <1>10 DEF BooksInv

LEMMA ReadBooks ==
    ASSUME BooksInv, TypeOK', NEW h \in Handlers, NEW s \in Watched, NEW d \in Sides,
           Read(h, s, d)
    PROVE  BooksInv'
<1> DEFINE S == {u \in {s} : \E g \in Handlers : task[g].pc = "book" /\ task[g].symbol = u}
           t == Booking(s, d, position[s])
<1>1. TypeOK /\ LoneBooking /\ LoneEntry /\ OnlyFinishing /\ BooksMatchBelief
  BY DEF BooksInv
<1>2. /\ task[h] = Idle /\ flight[s][d] > 0
      /\ flight' = [flight EXCEPT ![s][d] = @ - 1] /\ Excuse(S) /\ Settle(h, t)
      /\ UNCHANGED <<belief, position, entries>>
  BY DEF Read
<1>3. /\ t \in TaskStates /\ t.pc = "book" /\ t.symbol = s /\ t.side = d /\ t.held = position[s]
  <2>1. position[s] \in Int
    BY <1>1 DEF TypeOK
  <2>2. QED
    BY <2>1, StateShapes DEF Booking
<1>4. /\ task'[h] = t /\ \A g \in Handlers \ {h} : task'[g] = task[g]
      /\ task[h].pc = "idle"
  BY <1>1, <1>2, <1>3, SettleType, StateShapes
<1>5. \A x \in Watched \ excused' : x \notin S /\ x \in Watched \ excused /\ refused'[x] = refused[x]
  BY <1>1, <1>2, ExcuseKeeps
<1>6. LoneBooking'
  <2>1. SUFFICES ASSUME NEW x \in Watched \ excused', NEW f \in Handlers,
                        task'[f].pc = "book", task'[f].symbol = x
                 PROVE  /\ task'[f].held = position[x]
                        /\ \A g \in Handlers : task'[g].pc = "book" /\ task'[g].symbol = x => g = f
    BY <1>2 DEF LoneBooking
  <2>2. CASE x = s
    <3>1. \A g \in Handlers : ~(task[g].pc = "book" /\ task[g].symbol = x)
      BY <1>5, <2>2
    <3>2. \A g \in Handlers : task'[g].pc = "book" /\ task'[g].symbol = x => g = h
      BY <1>4, <3>1
    <3>3. QED
      BY <1>3, <1>4, <2>1, <2>2, <3>2
  <2>3. CASE x # s
    <3>1. \A g \in Handlers : task'[g].pc = "book" /\ task'[g].symbol = x => g # h
      BY <1>3, <1>4, <2>3
    <3>2. QED
      BY <1>1, <1>4, <1>5, <2>1, <3>1 DEF LoneBooking
  <2>4. QED
    BY <2>2, <2>3
<1>7. LoneEntry'
  <2>1. \A i \in PairKeys : Entering(i)' = Entering(i)
    BY <1>3, <1>4 DEF Entering
  <2>2. QED
    BY <1>1, <1>2, <1>5, <2>1 DEF LoneEntry, belief
<1>8. OnlyFinishing'
  BY <1>1, <1>2, <1>3, SettleFinishes DEF belief
<1>9. \A x \in Watched, c \in Sides : Booked(x, c)' =
          IF x = s /\ c = d THEN Booked(x, c) \cup {h} ELSE Booked(x, c)
  BY <1>3, <1>4 DEF Booked
<1> HIDE DEF S, t
<1>10. h \notin Booked(s, d)
  BY <1>4 DEF Booked
<1>11. ASSUME NEW x \in Watched \ excused' PROVE Balanced(x)'
  <2>1. Balanced(x) /\ active' = active /\ position' = position
        /\ refused'[x] = refused[x] /\ flight \in [Watched -> [Sides -> Nat]]
    BY <1>1, <1>2, <1>5 DEF BooksMatchBelief, Balanced, belief, TypeOK
  <2>2. CASE x # s
    <3>1. flight'[x] = flight[x]
      BY <1>2, <2>1, <2>2
    <3>2. QED
      BY <1>9, <2>1, <2>2, <3>1, SameBalance
  <2>3. CASE x = s
    <3>1. Cardinality(Booked(s, d) \cup {h}) = Cardinality(Booked(s, d)) + 1
      BY <1>10, Countable, FS_AddElement
    <3>2. flight'[s][d] = flight[s][d] - 1 /\ \A c \in Sides \ {d} : flight'[s][c] = flight[s][c]
      BY <1>2, <2>1
    <3>3. flight[s][d] \in Nat /\ Cardinality(Booked(s, d)) \in Nat
      BY <1>1, Terms
    <3>4. \A c \in Sides : Coming(s, c)' = Coming(s, c)
      <4>1. Coming(s, d)' = Coming(s, d)
        <5>1. Booked(s, d)' = Booked(s, d) \cup {h}
          BY <1>9
        <5>2. Coming(s, d)' = flight'[s][d] + Cardinality(Booked(s, d) \cup {h})
          BY <5>1 DEF Coming
        <5>3. QED
          BY <3>1, <3>2, <3>3, <5>2 DEF Coming
      <4>2. \A c \in Sides \ {d} : Coming(s, c)' = Coming(s, c)
        BY <1>9, <3>2 DEF Coming
      <4>3. QED
        BY <4>1, <4>2
    <3>5. Legs(s, 1)' = Legs(s, 1) /\ Legs(s, -1)' = Legs(s, -1)
      BY <2>1 DEF Legs
    <3>6. Coming(s, 1)' = Coming(s, 1) /\ Coming(s, -1)' = Coming(s, -1)
      BY <3>4 DEF Sides
    <3>7. QED
      BY <2>1, <2>3, <3>5, <3>6 DEF Balanced
  <2>4. QED
    BY <2>2, <2>3
<1>12. BooksMatchBelief'
  BY <1>11 DEF BooksMatchBelief, Balanced
<1>13. QED
  BY <1>6, <1>7, <1>8, <1>12 DEF BooksInv

\* on_fill ends: what it booked, if it did, is what was on its way.
LEMMA BookingEnds ==
    ASSUME BooksInv, NEW h \in Handlers, task[h].pc = "book", Settle(h, Idle),
           UNCHANGED <<belief, flight>>, excused \subseteq excused',
           \A x \in Watched \ excused' : x # task[h].symbol => position'[x] = position[x]
    PROVE  /\ LoneBooking' /\ LoneEntry' /\ OnlyFinishing'
           /\ \A x \in Watched, c \in Sides :
                Booked(x, c)' = IF x = task[h].symbol /\ c = task[h].side
                                THEN Booked(x, c) \ {h} ELSE Booked(x, c)
<1>1. TypeOK /\ LoneBooking /\ LoneEntry /\ OnlyFinishing
  BY DEF BooksInv
<1>2. task'[h] = Idle /\ Idle.pc = "idle" /\ \A g \in Handlers \ {h} : task'[g] = task[g]
  BY <1>1, SettleType, StateShapes
<1>3. \A x \in Watched \ excused' : \A g \in Handlers \ {h} :
          x = task[h].symbol => ~(task[g].pc = "book" /\ task[g].symbol = x)
  BY <1>1 DEF LoneBooking
<1>4. LoneBooking'
  BY <1>1, <1>2, <1>3 DEF LoneBooking
<1>5. LoneEntry'
  <2>1. \A i \in PairKeys : Entering(i)' = Entering(i)
    BY <1>2 DEF Entering
  <2>2. QED
    BY <1>1, <2>1 DEF LoneEntry, belief
<1>6. OnlyFinishing'
  BY <1>1, StateShapes, SettleFinishes DEF belief
<1>7. \A x \in Watched, c \in Sides :
          Booked(x, c)' = IF x = task[h].symbol /\ c = task[h].side
                          THEN Booked(x, c) \ {h} ELSE Booked(x, c)
  BY <1>2 DEF Booked
<1>8. QED
  BY <1>4, <1>5, <1>6, <1>7

LEMMA WriteBooks ==
    ASSUME BooksInv, TypeOK', NEW h \in Handlers, Write(h)
    PROVE  BooksInv'
<1>0. PICK s, d : s = task[h].symbol /\ d = task[h].side
  OBVIOUS
<1>1. TypeOK /\ LoneBooking /\ BooksMatchBelief
  BY DEF BooksInv
<1>2. /\ task[h].pc = "book" /\ Settle(h, Idle)
      /\ position' = [position EXCEPT ![s] = task[h].held + d]
      /\ UNCHANGED <<belief, market, excused, entries>>
  BY <1>0 DEF Write
<1>3. s \in Watched /\ d \in Sides /\ task[h].held \in Int
  BY <1>0, <1>1, <1>2, BookingOf
<1>4. \A x \in Watched : position'[x] = IF x = s THEN task[h].held + d ELSE position[x]
  BY <1>1, <1>2 DEF TypeOK
<1>5. /\ LoneBooking' /\ LoneEntry' /\ OnlyFinishing'
      /\ \A x \in Watched, c \in Sides :
             Booked(x, c)' = IF x = s /\ c = d THEN Booked(x, c) \ {h} ELSE Booked(x, c)
  BY <1>0, <1>2, <1>4, BookingEnds DEF market
<1>6. ASSUME NEW x \in Watched \ excused PROVE Balanced(x)'
  <2>1. Balanced(x) /\ active' = active /\ flight' = flight /\ refused' = refused
    BY <1>1, <1>2 DEF BooksMatchBelief, Balanced, belief, market
  <2>2. CASE x # s
    BY <1>4, <1>5, <2>1, <2>2, SameBalance
  <2>3. CASE x = s
    <3>1. h \in Booked(s, d)
      BY <1>0, <1>2 DEF Booked
    <3>2. Cardinality(Booked(s, d) \ {h}) = Cardinality(Booked(s, d)) - 1
      BY <3>1, Countable, FS_RemoveElement
    <3>3. flight[s][d] \in Nat /\ Cardinality(Booked(s, d)) \in Nat
          /\ position[s] \in Int /\ refused[s] \in Int
      BY <1>1, <1>3, Terms
    <3>4. Coming(s, d)' = Coming(s, d) + (-1)
      <4>1. Booked(s, d)' = Booked(s, d) \ {h}
        BY <1>3, <1>5
      <4>2. Coming(s, d)' = flight[s][d] + Cardinality(Booked(s, d) \ {h})
        BY <2>1, <4>1 DEF Coming
      <4>3. QED
        BY <3>2, <3>3, <4>2 DEF Coming
    <3>5. \A c \in Sides \ {d} : Coming(s, c)' = Coming(s, c)
      BY <1>3, <1>5, <2>1 DEF Coming
    <3>6. task[h].held = position[s]
      BY <1>0, <1>1, <1>2, <2>3 DEF LoneBooking
    <3>7. position'[s] = position[s] + d /\ position'[s] \in Int /\ refused'[s] \in Int
      BY <1>3, <1>4, <2>1, <3>3, <3>6 DEF Sides
    <3>8. position'[s] + refused'[s] = position[s] + refused[s] - (-1) * d
      BY <1>3, <2>1, <3>3, <3>7 DEF Sides
    <3>9. -1 \in Int
      OBVIOUS
    <3>10. QED
      BY <1>1, <1>3, <2>1, <2>3, <3>4, <3>5, <3>7, <3>8, <3>9, ShiftedBalance
  <2>4. QED
    BY <2>2, <2>3
<1>7. BooksMatchBelief'
  BY <1>2, <1>6 DEF BooksMatchBelief, Balanced
<1>8. QED
  BY <1>5, <1>7 DEF BooksInv

LEMMA FailBooks ==
    ASSUME BooksInv, TypeOK', NEW h \in Handlers, BookingFails(h)
    PROVE  BooksInv'
<1>0. PICK s : s = task[h].symbol
  OBVIOUS
<1>1. TypeOK /\ BooksMatchBelief
  BY DEF BooksInv
<1>2. /\ task[h].pc = "book" /\ Excuse({s}) /\ Settle(h, Idle)
      /\ UNCHANGED <<belief, flight, position, entries>>
  BY <1>0 DEF BookingFails
<1>3. \A x \in Watched \ excused' : x # s /\ x \in Watched \ excused /\ refused'[x] = refused[x]
  BY <1>1, <1>2, ExcuseKeeps
<1>4. excused \subseteq excused'
  BY <1>2 DEF Excuse
<1>5. /\ LoneBooking' /\ LoneEntry' /\ OnlyFinishing'
      /\ \A x \in Watched, c \in Sides : x # s => Booked(x, c)' = Booked(x, c)
  BY <1>0, <1>2, <1>4, BookingEnds
<1>6. ASSUME NEW x \in Watched \ excused' PROVE Balanced(x)'
  BY <1>1, <1>2, <1>3, <1>5, SameBalance DEF BooksMatchBelief, Balanced, belief
<1>7. BooksMatchBelief'
  BY <1>6 DEF BooksMatchBelief, Balanced
<1>8. QED
  BY <1>5, <1>7 DEF BooksInv

\* The refusal of a signal is remembered, an expiry excuses the symbol, and halts
\* come between two runs of the loop.
LEMMA OutsideBooks ==
    ASSUME BooksInv, TypeOK',
           \/ Halt \/ Resume \/ Clock
           \/ \E s \in Watched : Expire(s)
           \/ \E s \in Watched, d \in Sides : Refuse(s, d)
    PROVE  BooksInv'
<1>1. TypeOK /\ LoneBooking /\ LoneEntry /\ OnlyFinishing /\ BooksMatchBelief
  BY DEF BooksInv
<1>2. active' = active /\ task' = task
  BY DEF Halt, Resume, Clock, Expire, Refuse, belief
<1>3. (\A x, c : Booked(x, c)' = Booked(x, c)) /\ \A i \in PairKeys : Entering(i)' = Entering(i)
  BY <1>2 DEF Booked, Entering
<1>4. CASE Halt \/ Resume \/ Clock
  <2>1. UNCHANGED <<market, position, excused>>
    BY <1>4 DEF Halt, Resume, Clock
  <2>2. LoneBooking' /\ LoneEntry'
    BY <1>1, <1>2, <1>3, <2>1 DEF LoneBooking, LoneEntry
  <2>3. OnlyFinishing'
    <3>1. CASE Halt
      BY <1>2, <3>1 DEF Halt, AtAwait, OnlyFinishing
    <3>2. CASE Resume
      BY <3>2 DEF Resume, OnlyFinishing
    <3>3. CASE Clock
      BY <1>1, <1>2, <3>3 DEF Clock, OnlyFinishing
    <3>4. QED
      BY <1>4, <3>1, <3>2, <3>3
  <2>4. ASSUME NEW x \in Watched \ excused PROVE Balanced(x)'
    BY <1>1, <1>2, <1>3, <2>1, SameBalance DEF BooksMatchBelief, Balanced, market
  <2>5. BooksMatchBelief'
    BY <2>1, <2>4 DEF BooksMatchBelief, Balanced
  <2>6. QED
    BY <2>2, <2>3, <2>5 DEF BooksInv
<1>5. CASE \E s \in Watched : Expire(s)
  <2>1. PICK s \in Watched : Expire(s)
    BY <1>5
  <2>2. /\ position' = [position EXCEPT ![s] = 0] /\ Excuse({s})
        /\ UNCHANGED <<belief, task, flight, finishing, entries>>
    BY <2>1 DEF Expire
  <2>3. \A x \in Watched \ excused' :
            x \in Watched \ excused /\ position'[x] = position[x] /\ refused'[x] = refused[x]
    BY <1>1, <2>2, ExcuseKeeps DEF TypeOK
  <2>4. LoneBooking' /\ LoneEntry'
    BY <1>1, <1>2, <1>3, <2>3 DEF LoneBooking, LoneEntry
  <2>5. OnlyFinishing'
    BY <1>1, <2>2 DEF OnlyFinishing, belief
  <2>6. ASSUME NEW x \in Watched \ excused' PROVE Balanced(x)'
    BY <1>1, <1>2, <1>3, <2>2, <2>3, SameBalance DEF BooksMatchBelief, Balanced
  <2>7. BooksMatchBelief'
    BY <2>6 DEF BooksMatchBelief, Balanced
  <2>8. QED
    BY <2>4, <2>5, <2>7 DEF BooksInv
<1>6. CASE \E s \in Watched, d \in Sides : Refuse(s, d)
  <2>1. PICK s \in Watched, d \in Sides : Refuse(s, d)
    BY <1>6
  <2>2. /\ flight[s][d] > 0 /\ flight' = [flight EXCEPT ![s][d] = @ - 1]
        /\ refused' = IF s \in excused THEN refused ELSE [refused EXCEPT ![s] = @ + d]
        /\ UNCHANGED <<belief, task, position, finishing, excused, entries>>
    BY <2>1 DEF Refuse
  <2>3. LoneBooking' /\ LoneEntry' /\ OnlyFinishing'
    BY <1>1, <1>2, <1>3, <2>2 DEF LoneBooking, LoneEntry, OnlyFinishing, belief
  <2>4. ASSUME NEW x \in Watched \ excused PROVE Balanced(x)'
    <3>1. Balanced(x) /\ flight \in [Watched -> [Sides -> Nat]] /\ refused \in [Watched -> Int]
      BY <1>1 DEF BooksMatchBelief, Balanced, TypeOK
    <3>2. CASE x # s
      <4>1. flight'[x] = flight[x] /\ refused'[x] = refused[x]
        BY <2>2, <3>1, <3>2
      <4>2. QED
        BY <1>2, <1>3, <2>2, <3>1, <4>1, SameBalance
    <3>3. CASE x = s
      <4>1. flight'[s][d] = flight[s][d] - 1 /\ \A c \in Sides \ {d} : flight'[s][c] = flight[s][c]
        BY <2>2, <3>1
      <4>2. refused'[s] = refused[s] + d /\ position'[s] = position[s]
        BY <2>2, <2>4, <3>1, <3>3
      <4>3. flight[s][d] \in Nat /\ Cardinality(Booked(s, d)) \in Nat
            /\ position[s] \in Int /\ refused[s] \in Int /\ d \in Int
        BY <1>1, Terms DEF Sides
      <4>4. Coming(s, d)' = Coming(s, d) + (-1)
        <5>1. Coming(s, d)' = flight'[s][d] + Cardinality(Booked(s, d))
          BY <1>3 DEF Coming
        <5>2. QED
          BY <4>1, <4>3, <5>1 DEF Coming
      <4>5. \A c \in Sides \ {d} : Coming(s, c)' = Coming(s, c)
        BY <1>3, <4>1 DEF Coming
      <4>6. position'[s] + refused'[s] = position[s] + refused[s] - (-1) * d
        BY <4>2, <4>3 DEF Sides
      <4>7. position'[s] \in Int /\ refused'[s] \in Int /\ -1 \in Int
        BY <4>2, <4>3
      <4>8. QED
        BY <1>1, <1>2, <3>1, <3>3, <4>4, <4>5, <4>6, <4>7, ShiftedBalance
    <3>4. QED
      BY <3>2, <3>3
  <2>5. BooksMatchBelief'
    BY <2>2, <2>4 DEF BooksMatchBelief, Balanced
  <2>6. QED
    BY <2>3, <2>5 DEF BooksInv
<1>7. QED
  BY <1>4, <1>5, <1>6

LEMMA InitBooks ==
    ASSUME Init
    PROVE  BooksInv
<1>1. TypeOK
  BY InitInv
<1>2. \A h \in Handlers : task[h].pc = "idle"
  BY StateShapes DEF Init
<1>3. LoneBooking /\ LoneEntry /\ OnlyFinishing
  BY <1>2 DEF LoneBooking, LoneEntry, OnlyFinishing, Entering
<1>4. ASSUME NEW s \in Watched PROVE Balanced(s)
  <2>1. ASSUME NEW d \in Sides PROVE Legs(s, d) = {} /\ Booked(s, d) = {}
    <3>1. \A i \in PairKeys : active[i] = 0
      BY DEF Init
    <3>2. \A i \in PairKeys : LegSide(i, s, 0) = 0
      BY LegSideOf
    <3>3. QED
      BY <1>2, <3>1, <3>2 DEF Legs, Booked, Sides
  <2>2. Cardinality({}) = 0
    BY FS_EmptySet
  <2>3. /\ Cardinality(Legs(s, 1)) = 0 /\ Cardinality(Legs(s, -1)) = 0
        /\ Cardinality(Booked(s, 1)) = 0 /\ Cardinality(Booked(s, -1)) = 0
    BY <2>1, <2>2, Zenon DEF Sides
  <2>4. /\ flight[s][1] = 0 /\ flight[s][-1] = 0 /\ position[s] = 0 /\ refused[s] = 0
    BY DEF Init, Sides
  <2>5. Coming(s, 1) = 0 /\ Coming(s, -1) = 0
    BY <2>3, <2>4 DEF Coming
  <2>6. QED
    BY <2>3, <2>4, <2>5 DEF Balanced
<1>5. BooksMatchBelief
  BY <1>4 DEF BooksMatchBelief, Balanced
<1>6. QED
  BY <1>1, <1>3, <1>5 DEF BooksInv

LEMMA BooksStep ==
    ASSUME BooksInv, TypeOK', [Next]_vars
    PROVE  BooksInv'
<1>1. ASSUME NEW h \in Handlers, OnTick(h) PROVE BooksInv'
  BY <1>1, TickBooks, LoopBooks, ExitBooks, ConsiderBooks, EnterBooks DEF OnTick
<1>2. ASSUME NEW h \in Handlers, OnFill(h) PROVE BooksInv'
  BY <1>2, ReadBooks, WriteBooks, FailBooks DEF OnFill
<1>3. CASE UNCHANGED vars
  <2>1. UNCHANGED <<active, halted, task, flight, position, refused, finishing, excused>>
    BY <1>3 DEF vars, belief, market
  <2>2. LoneBooking' /\ LoneEntry' /\ OnlyFinishing'
    BY <2>1 DEF BooksInv, LoneBooking, LoneEntry, OnlyFinishing, Entering
  <2>3. BooksMatchBelief'
    BY <2>1 DEF BooksInv, BooksMatchBelief, Coming, Booked, Legs
  <2>4. QED
    BY <2>2, <2>3 DEF BooksInv
<1>4. QED
  BY <1>1, <1>2, <1>3, OutsideBooks DEF Next

\* Nobody overlaps on a symbol that is not excused, and its books balance.
THEOREM BooksInductive == Spec => []BooksInv
<1>1. BooksInv /\ TypeOK' /\ [Next]_vars => BooksInv'
  BY BooksStep
<1>2. QED
  BY <1>1, InitBooks, Typing, PTL DEF Spec

\* For any pairs, however they share symbols, and any number of handlers: what the
\* strategy believes it holds of a symbol is its position with what is on its way
\* and what was refused, unless the symbol was excused.
THEOREM BooksBalance == Spec => []BooksMatchBelief
<1>1. BooksInv => BooksMatchBelief
  BY DEF BooksInv
<1>2. QED
  BY <1>1, BooksInductive, PTL

\* Once halted, the strategy opens and closes pairs only in coroutines that were in
\* on_tick when it was halted.
THEOREM HaltHolds == Spec => HaltedOnlyFinishes
<1>1. ASSUME BooksInv, [Next]_vars, halted, active' # active
      PROVE  \E h \in finishing : task'[h] # task[h]
  <2>1. PICK h \in Handlers : (\E i \in PairKeys : Exit(h, i)) \/ (\E d \in Sides : Enter(h, d))
    <3>1. \E h \in Handlers : OnTick(h)
      BY <1>1 DEF Next, vars, belief, OnFill, Read, Write, BookingFails, Refuse, Expire,
                  Halt, Resume, Clock
    <3>2. QED
      BY <1>1, <3>1 DEF OnTick, Tick, Consider, Pass, Decline, belief
  <2>2. task[h].pc \in {"scan", "entry"} /\ Settle(h, Idle)
    BY <2>1 DEF Exit, At, Enter
  <2>3. task'[h].pc = "idle"
    BY <1>1, <2>2, SettleType, StateShapes DEF BooksInv
  <2>4. h \in finishing
    BY <1>1, <2>2 DEF BooksInv, OnlyFinishing
  <2>5. QED
    BY <2>2, <2>3, <2>4
<1>2. BooksInv /\ [Next]_vars =>
          [halted /\ active' # active => \E h \in finishing : task'[h] # task[h]]_vars
  BY <1>1
<1>3. QED
  BY <1>2, BooksInductive, PTL DEF Spec, HaltedOnlyFinishes
=============================================================================
