--------------------------- MODULE EventBusProofs ---------------------------
(* EventBus: for any handlers, types and number of dispatch loops, no handler  *)
(* of an event is skipped, and the bus implements FifoBroadcast.               *)
EXTENDS EventBus, SequenceTheorems, TLAPS

\* The position in its list from which l still has handlers to call.
From(l) == IF pc[l] = "calling" THEN next[l] + 1 ELSE next[l]

-----------------------------------------------------------------------------
\* The list of an event is at least as long as when the event was taken.
Listed ==
    \A e \in 1..head : due[e] <= Len(handlers[log[e]])

\* Two loops never have the same event.
Taken ==
    \A k, l \in Loops : event[k] = event[l] /\ event[k] # 0 => k = l

\* The entries of its list that were called with the event a loop delivers come
\* before those it has yet to call.
Fresh ==
    \A l \in Loops : Delivering(l) =>
        \A h \in Handlers, i \in Nat : In(<<event[l], i>>, got[h]) => i < From(l)

\* An entry that was on the list when an event was taken was called, or the loop
\* that delivers the event has yet to call it, or the delivery was cut short.
Awaited ==
    \A e \in 1..head : \A i \in 1..due[e] :
        \/ In(<<e, i>>, got[handlers[log[e]][i]])
        \/ e \in cut
        \/ \E l \in Loops : Delivering(l) /\ event[l] = e /\ i >= From(l)

\* As long as start was not called under a loop that is alive there is one loop,
\* and it delivers the event taken last.
Single ==
    ~doubled =>
        /\ \A k, l \in Loops : Alive(k) /\ Alive(l) => k = l
        /\ \A l \in Loops : Delivering(l) => event[l] = head

BusInv == TypeOK /\ Listed /\ Taken /\ Fresh /\ Awaited /\ Single

-----------------------------------------------------------------------------
\* What Append does to a list and to who is on it.
LEMMA Appended ==
    ASSUME NEW S, NEW s \in Seq(S), NEW x \in S
    PROVE  /\ Append(s, x) \in Seq(S) /\ Len(Append(s, x)) = Len(s) + 1
           /\ \A i \in 1..Len(s) : Append(s, x)[i] = s[i]
           /\ Append(s, x)[Len(s) + 1] = x
           /\ \A y : In(y, Append(s, x)) <=> In(y, s) \/ y = x
<1>1. /\ Append(s, x) \in Seq(S) /\ Len(Append(s, x)) = Len(s) + 1 /\ Len(s) \in Nat
      /\ \A i \in 1..Len(s) : Append(s, x)[i] = s[i]
      /\ Append(s, x)[Len(s) + 1] = x
  OBVIOUS
<1>2. ASSUME NEW y PROVE In(y, Append(s, x)) <=> In(y, s) \/ y = x
  <2>1. ASSUME In(y, Append(s, x)) PROVE In(y, s) \/ y = x
    <3>1. PICK i \in 1..Len(s) + 1 : Append(s, x)[i] = y
      BY <1>1, <2>1 DEF In
    <3>2. CASE i = Len(s) + 1
      BY <1>1, <3>1, <3>2
    <3>3. CASE i \in 1..Len(s)
      BY <1>1, <3>1, <3>3 DEF In
    <3>4. QED
      BY <1>1, <3>2, <3>3
  <2>2. ASSUME In(y, s) PROVE In(y, Append(s, x))
    <3>1. PICK i \in 1..Len(s) : s[i] = y
      BY <2>2 DEF In
    <3>2. i \in 1..Len(Append(s, x)) /\ Append(s, x)[i] = y
      BY <1>1, <3>1
    <3>3. QED
      BY <3>2 DEF In
  <2>3. In(x, Append(s, x))
    <3>1. Len(s) + 1 \in 1..Len(Append(s, x))
      BY <1>1
    <3>2. QED
      BY <1>1, <3>1 DEF In
  <2>4. QED
    BY <2>1, <2>2, <2>3
<1>3. QED
  BY <1>1, <1>2

\* The event a loop delivers has left the queue, and it has a list.
LEMMA Shape ==
    ASSUME TypeOK
    PROVE  /\ Len(log) \in Nat /\ head \in Nat /\ head <= Len(log)
           /\ \A e \in 1..head : e \in 1..Len(log) /\ log[e] \in Types
                                 /\ handlers[log[e]] \in Seq(Handlers)
           /\ \A h \in Handlers : got[h] \in Seq((1..head) \X Nat)
           /\ \A l \in Loops : event[l] \in 0..head /\ next[l] \in Nat /\ From(l) \in Nat
           /\ \A l \in Loops : Delivering(l) =>
                event[l] \in 1..head /\ ListOf(l) \in Seq(Handlers) /\ next[l] # 0
<1>1. Len(log) \in Nat /\ head \in 0..Len(log) /\ head \in Nat /\ head <= Len(log)
  BY DEF TypeOK
<1>2. ASSUME NEW e \in 1..head
      PROVE  e \in 1..Len(log) /\ log[e] \in Types /\ handlers[log[e]] \in Seq(Handlers)
  <2>1. e \in 1..Len(log)
    BY <1>1
  <2>2. log[e] \in Types
    BY <2>1 DEF TypeOK
  <2>3. QED
    BY <2>1, <2>2 DEF TypeOK
<1>3. ASSUME NEW l \in Loops
      PROVE  event[l] \in 0..head /\ next[l] \in Nat /\ From(l) \in Nat
  BY DEF TypeOK, From
<1>4. ASSUME NEW l \in Loops, Delivering(l)
      PROVE  event[l] \in 1..head /\ ListOf(l) \in Seq(Handlers) /\ next[l] # 0
  <2>1. event[l] # 0 /\ next[l] # 0
    BY <1>4 DEF TypeOK
  <2>2. event[l] \in 1..head
    BY <1>1, <1>3, <2>1
  <2>3. QED
    BY <1>2, <2>1, <2>2 DEF ListOf
<1>5. QED
  BY <1>1, <1>2, <1>3, <1>4 DEF TypeOK

-----------------------------------------------------------------------------
\* The types.
LEMMA InitInv ==
    ASSUME Init
    PROVE  BusInv
<1>1. Len(<<>>) = 0 /\ \A S : <<>> \in Seq(S)
  OBVIOUS
<1>2. <<>> \in [1..0 -> Nat]
  <2>1. 1..0 = {}
    OBVIOUS
  <2>2. QED
    BY <2>1
<1>3. TypeOK
  <2>1. log \in Seq(Types) /\ Len(log) <= MaxEvents /\ head \in 0..Len(log)
    BY <1>1, BusAssumption DEF Init
  <2>2. /\ handlers \in [Types -> Seq(Handlers)] /\ got \in [Handlers -> Seq((1..head) \X Nat)]
        /\ event \in [Loops -> 0..head] /\ next \in [Loops -> Nat] /\ pc \in [Loops -> Places]
    BY <1>1 DEF Init, Places
  <2>3. due \in [1..head -> Nat] /\ cut \subseteq 1..head
    BY <1>2 DEF Init
  <2>4. \A l \in Loops : ~Delivering(l)
    BY DEF Init, Delivering
  <2>5. QED
    BY <2>1, <2>2, <2>3, <2>4 DEF Init, TypeOK
<1>4. Listed
  BY DEF Init, Listed
<1>5. Taken
  BY DEF Init, Taken
<1>6. Fresh /\ Awaited
  BY DEF Init, Fresh, Awaited, Delivering
<1>7. Single
  BY DEF Init, Single, Alive, Delivering
<1>8. QED
  BY <1>3, <1>4, <1>5, <1>6, <1>7 DEF BusInv

LEMMA TypeStep ==
    ASSUME TypeOK, Next
    PROVE  TypeOK'
<1>1. ASSUME NEW h \in Handlers, NEW t \in Types, Subscribe(h, t)
      PROVE  TypeOK'
  <2>1. handlers[t] \in Seq(Handlers)
    BY DEF TypeOK
  <2>2. Append(handlers[t], h) \in Seq(Handlers)
    BY <2>1
  <2>3. handlers' \in [Types -> Seq(Handlers)]
    BY <1>1, <2>2 DEF Subscribe, TypeOK
  <2>4. QED
    BY <1>1, <2>3 DEF Subscribe, TypeOK, ctl, Delivering
<1>2. ASSUME NEW t \in Types, Publish(t)
      PROVE  TypeOK'
  <2>1. log' \in Seq(Types) /\ Len(log') = Len(log) + 1 /\ Len(log) \in Nat
    BY <1>2 DEF Publish, TypeOK
  <2>2. Len(log') <= MaxEvents /\ head' \in 0..Len(log')
    BY <1>2, <2>1, BusAssumption DEF Publish, TypeOK
  <2>3. QED
    BY <1>2, <2>1, <2>2 DEF Publish, TypeOK, ctl, Delivering
<1>3. ASSUME NEW l \in Loops, Start(l)
      PROVE  TypeOK'
  <2>1. pc' \in [Loops -> Places] /\ \A k \in Loops : Delivering(k)' => Delivering(k)
    BY <1>3 DEF Start, TypeOK, Places, Delivering
  <2>2. doubled' \in BOOLEAN
    BY <1>3 DEF Start, TypeOK
  <2>3. QED
    BY <1>3, <2>1, <2>2 DEF Start, TypeOK, bus
<1>4. CASE Stop
  <2>1. task \in Loops
    BY <1>4 DEF Stop, TypeOK
  <2>2. \/ UNCHANGED <<pc, cut>>
        \/ /\ pc' = [pc EXCEPT ![task] = "ended"]
           /\ cut' = cut \cup {event[l] : l \in {k \in {task} : Delivering(k)}}
    BY <1>4 DEF Stop
  <2>3. pc' \in [Loops -> Places] /\ \A k \in Loops : Delivering(k)' => Delivering(k)
    BY <2>1, <2>2 DEF TypeOK, Places, Delivering
  <2>4. cut' \subseteq 1..head
    <3>1. \A l \in {k \in {task} : Delivering(k)} : event[l] \in 1..head
      BY <2>1, Shape
    <3>2. {event[l] : l \in {k \in {task} : Delivering(k)}} \subseteq 1..head
      BY <3>1
    <3>3. cut \subseteq 1..head
      BY DEF TypeOK
    <3>4. QED
      BY <2>2, <3>2, <3>3
  <2>5. QED
    BY <1>4, <2>3, <2>4 DEF Stop, TypeOK, bus
<1>5. ASSUME NEW l \in Loops, Take(l)
      PROVE  TypeOK'
  <2> DEFINE caught == Len(handlers[log[head + 1]])
  <2>1. /\ head < Len(log) /\ head' = head + 1 /\ pc' = [pc EXCEPT ![l] = "choosing"]
        /\ event' = [event EXCEPT ![l] = head + 1] /\ next' = [next EXCEPT ![l] = 1]
        /\ due' = Append(due, caught)
        /\ UNCHANGED <<log, handlers, running, task, doubled, got, cut>>
    BY <1>5 DEF Take, TakeEvent, ctl
  <2>2. head \in Nat /\ Len(log) \in Nat /\ 0..head \subseteq 0..head' /\ 1..head \subseteq 1..head'
        /\ head' \in 0..Len(log')
    BY <2>1, Shape
  <2>3. event' \in [Loops -> 0..head'] /\ next' \in [Loops -> Nat]
        /\ pc' \in [Loops -> Places] /\ cut' \subseteq 1..head'
    BY <2>1, <2>2 DEF TypeOK, Places
  <2>4. \A k \in Loops : Delivering(k)' => event'[k] # 0 /\ next'[k] # 0
    BY <2>1, <2>2 DEF TypeOK, Delivering
  <2>5. got' \in [Handlers -> Seq((1..head') \X Nat)]
    <3>0. (1..head) \X Nat \subseteq (1..head') \X Nat
      BY <2>2
    <3>1. \A s \in Seq((1..head) \X Nat) : s \in Seq((1..head') \X Nat)
      BY <3>0, SeqMonotonic
    <3>2. QED
      BY <2>1, <3>1 DEF TypeOK
  <2>6. due' \in [1..head' -> Nat]
    <3>1. due \in Seq(Nat) /\ Len(due) = head
      BY <2>2 DEF TypeOK
    <3>2. caught \in Nat
      <4>1. head + 1 \in 1..Len(log)
        BY <2>1, <2>2
      <4>2. handlers[log[head + 1]] \in Seq(Handlers)
        BY <4>1 DEF TypeOK
      <4>3. QED
        BY <4>2
    <3> HIDE DEF caught
    <3>3. due' \in Seq(Nat) /\ Len(due') = head + 1
      BY <2>1, <3>1, <3>2
    <3>4. due' \in [1..Len(due') -> Nat]
      BY <3>3, LenProperties
    <3>5. QED
      BY <2>1, <3>3, <3>4
  <2>7. QED
    BY <2>1, <2>2, <2>3, <2>4, <2>5, <2>6 DEF TypeOK
<1>6. ASSUME NEW l \in Loops, Call(l)
      PROVE  TypeOK'
  <2> DEFINE h == ListOf(l)[next[l]]
  <2>1. Delivering(l)
    BY <1>6 DEF Call, Delivering
  <2>2. event[l] \in 1..head /\ next[l] \in Nat /\ h \in Handlers
    BY <1>6, <2>1, Shape DEF Call
  <2> HIDE DEF h
  <2>3. got' = [got EXCEPT ![h] = Append(@, <<event[l], next[l]>>)]
    BY <1>6 DEF Call, h
  <2>4. got[h] \in Seq((1..head) \X Nat)
    BY <2>2 DEF TypeOK
  <2>5. Append(got[h], <<event[l], next[l]>>) \in Seq((1..head) \X Nat)
    BY <2>2, <2>4
  <2>6. got' \in [Handlers -> Seq((1..head) \X Nat)]
    BY <2>3, <2>5 DEF TypeOK
  <2>7. pc' \in [Loops -> Places] /\ \A k \in Loops : Delivering(k)' => Delivering(k)
    BY <1>6, <2>1 DEF Call, TypeOK, Places, Delivering
  <2>8. QED
    BY <1>6, <2>6, <2>7 DEF Call, TypeOK, bus, ctl
<1>7. ASSUME NEW l \in Loops, Return(l)
      PROVE  TypeOK'
  <2>1. next[l] \in Nat /\ next' = [next EXCEPT ![l] = next[l] + 1]
    BY <1>7 DEF Return, TypeOK
  <2>2. next' \in [Loops -> Nat] /\ \A k \in Loops : next[k] # 0 => next'[k] # 0
    BY <2>1 DEF TypeOK
  <2>3. pc' \in [Loops -> Places] /\ \A k \in Loops : Delivering(k)' => Delivering(k)
    BY <1>7 DEF Return, TypeOK, Places, Delivering
  <2>4. cut' \subseteq 1..head
    <3>1. event[l] \in 1..head
      BY <1>7, Shape DEF Return, Delivering
    <3>2. QED
      BY <1>7, <3>1 DEF Return, TypeOK
  <2>5. QED
    BY <1>7, <2>2, <2>3, <2>4 DEF Return, TypeOK, bus, ctl
<1>8. ASSUME NEW l \in Loops, LoopEnds(l) \/ Delivered(l)
      PROVE  TypeOK'
  <2>1. pc' \in [Loops -> Places] /\ \A k \in Loops : Delivering(k)' => Delivering(k)
    BY <1>8 DEF LoopEnds, Delivered, TypeOK, Places, Delivering
  <2>2. QED
    BY <1>8, <2>1 DEF LoopEnds, Delivered, TypeOK, bus, ctl
<1>9. QED
  BY <1>1, <1>2, <1>3, <1>4, <1>5, <1>6, <1>7, <1>8 DEF Next, Dispatch

-----------------------------------------------------------------------------
\* A step that takes no event, calls nobody and changes no list keeps who was
\* called and who is left; a loop may only stop delivering at the end of the list
\* or when the step marks its event as cut.
LEMMA QuietKeeps ==
    ASSUME BusInv, UNCHANGED <<handlers, got, head, due, event>>,
           \A e \in 1..head : log'[e] = log[e],
           \A l \in Loops : Delivering(l)' => Delivering(l) /\ From(l)' = From(l),
           cut \subseteq cut',
           \A l \in Loops : Delivering(l) /\ ~Delivering(l)' =>
                event[l] \in cut' \/ From(l) > Len(ListOf(l))
    PROVE  Listed' /\ Taken' /\ Fresh' /\ Awaited'
<1>1. TypeOK /\ Listed /\ Taken /\ Fresh /\ Awaited
  BY DEF BusInv
<1>2. Listed' /\ Taken'
  BY <1>1 DEF Listed, Taken
<1>3. Fresh'
  BY <1>1 DEF Fresh, In
<1>4. Awaited'
  <2>1. SUFFICES ASSUME NEW e \in 1..head, NEW i \in 1..due[e]
                 PROVE  \/ In(<<e, i>>, got[handlers[log[e]][i]]) \/ e \in cut'
                        \/ \E l \in Loops : Delivering(l)' /\ event[l] = e /\ i >= From(l)'
    BY Zenon DEF Awaited
  <2>2. i <= Len(handlers[log[e]])
    BY <1>1, Shape DEF Listed, TypeOK
  <2>3. ASSUME NEW l \in Loops, Delivering(l), event[l] = e, i >= From(l), e \notin cut'
        PROVE  Delivering(l)' /\ i >= From(l)'
    <3>1. From(l) \in Nat /\ handlers[log[e]] \in Seq(Handlers)
      BY <1>1, Shape
    <3>2. ~(From(l) > Len(ListOf(l)))
      <4>1. ListOf(l) = handlers[log[e]]
        BY <2>3 DEF ListOf
      <4>2. Len(handlers[log[e]]) \in Nat /\ due[e] \in Nat
        BY <1>1, <3>1 DEF TypeOK
      <4>3. QED
        BY <2>2, <2>3, <3>1, <4>1, <4>2
    <3>3. Delivering(l)'
      BY <2>3, <3>2
    <3>4. QED
      BY <2>3, <3>3
  <2>4. \/ In(<<e, i>>, got[handlers[log[e]][i]]) \/ e \in cut
        \/ \E l \in Loops : Delivering(l) /\ event[l] = e /\ i >= From(l)
    BY <1>1 DEF Awaited
  <2>5. QED
    BY <2>3, <2>4
<1>5. QED
  BY <1>2, <1>3, <1>4

\* A handler that is put on a list is the last there.
LEMMA SubscribeKeeps ==
    ASSUME BusInv, NEW h \in Handlers, NEW t \in Types, Subscribe(h, t)
    PROVE  Listed' /\ Taken' /\ Fresh' /\ Awaited'
<1>1. TypeOK /\ Listed /\ Taken /\ Fresh /\ Awaited
  BY DEF BusInv
<1>2. /\ handlers' = [handlers EXCEPT ![t] = Append(@, h)]
      /\ UNCHANGED <<log, head, pc, event, next, got, due, cut>>
  BY DEF Subscribe
<1>3. ASSUME NEW s \in Types
      PROVE  /\ Len(handlers'[s]) \in Nat /\ Len(handlers[s]) \in Nat
             /\ Len(handlers[s]) <= Len(handlers'[s])
             /\ \A i \in 1..Len(handlers[s]) : handlers'[s][i] = handlers[s][i]
  <2>1. CASE s = t
    <3>1. handlers[t] \in Seq(Handlers) /\ handlers'[t] = Append(handlers[t], h)
      BY <1>1, <1>2 DEF TypeOK
    <3>2. QED
      BY <2>1, <3>1, Appended
  <2>2. CASE s # t
    <3>1. handlers'[s] = handlers[s] /\ Len(handlers[s]) \in Nat
      BY <1>1, <1>2, <2>2 DEF TypeOK
    <3>2. QED
      BY <3>1
  <2>3. QED
    BY <2>1, <2>2
<1>4. ASSUME NEW e \in 1..head
      PROVE  /\ due[e] <= Len(handlers'[log[e]])
             /\ \A i \in 1..due[e] : handlers'[log[e]][i] = handlers[log[e]][i]
  <2>1. log[e] \in Types /\ due[e] \in Nat /\ due[e] <= Len(handlers[log[e]])
    BY <1>1, Shape DEF Listed, TypeOK
  <2>2. QED
    BY <1>3, <2>1
<1>5. \A l \in Loops : (Delivering(l)' <=> Delivering(l)) /\ From(l)' = From(l)
  BY <1>2 DEF Delivering, From
<1>6. Listed' /\ Taken'
  BY <1>1, <1>2, <1>4 DEF Listed, Taken
<1>7. Fresh'
  BY <1>1, <1>2, <1>5 DEF Fresh, In
<1>8. Awaited'
  <2>1. SUFFICES ASSUME NEW e \in 1..head, NEW i \in 1..due[e]
                 PROVE  \/ In(<<e, i>>, got[handlers'[log[e]][i]]) \/ e \in cut
                        \/ \E l \in Loops : Delivering(l)' /\ event[l] = e /\ i >= From(l)'
    BY <1>2, Zenon DEF Awaited
  <2>2. QED
    BY <1>1, <1>4, <1>5 DEF Awaited
<1>9. QED
  BY <1>6, <1>7, <1>8

\* The event a loop takes was given to nobody, and its whole list is left.
LEMMA TakeKeeps ==
    ASSUME BusInv, NEW l \in Loops, Take(l)
    PROVE  Listed' /\ Taken' /\ Fresh' /\ Awaited'
<1> DEFINE caught == Len(handlers[log[head + 1]])
<1>1. TypeOK /\ Listed /\ Taken /\ Fresh /\ Awaited
  BY DEF BusInv
<1>2. /\ pc[l] = "waiting" /\ head < Len(log) /\ head' = head + 1
      /\ pc' = [pc EXCEPT ![l] = "choosing"]
      /\ event' = [event EXCEPT ![l] = head + 1] /\ next' = [next EXCEPT ![l] = 1]
      /\ due' = Append(due, caught)
      /\ UNCHANGED <<log, handlers, got, cut>>
  BY DEF Take, TakeEvent
<1>3. /\ head \in Nat /\ pc'[l] = "choosing" /\ event'[l] = head + 1 /\ next'[l] = 1
      /\ \A k \in Loops : event[k] \in 0..head
      /\ \A k \in Loops \ {l} : pc'[k] = pc[k] /\ event'[k] = event[k] /\ next'[k] = next[k]
  BY <1>1, <1>2, Shape DEF TypeOK
<1>4. caught \in Nat
  <2>1. head + 1 \in 1..Len(log)
    BY <1>1, <1>2, <1>3, Shape
  <2>2. handlers[log[head + 1]] \in Seq(Handlers)
    BY <1>1, <2>1 DEF TypeOK
  <2>3. QED
    BY <2>2
<1>5. /\ \A e \in 1..head : due'[e] = due[e]
      /\ due'[head + 1] = caught
  <2> HIDE DEF caught
  <2>1. due \in [1..head -> Nat] /\ head \in Nat
    BY <1>1, <1>3 DEF TypeOK
  <2>2. due \in Seq(Nat) /\ Len(due) = head
    BY <2>1
  <2>3. QED
    BY <1>2, <1>4, <2>2, Appended
<1>6. \A k \in Loops \ {l} : /\ From(k)' = From(k)
                             /\ Delivering(k)' <=> Delivering(k)
  BY <1>3 DEF From, Delivering
<1>7. Listed'
  <2>1. SUFFICES ASSUME NEW e \in 1..(head + 1)
                 PROVE  due'[e] <= Len(handlers[log[e]])
    BY <1>2 DEF Listed
  <2>2. CASE e \in 1..head
    BY <1>1, <1>5, <2>2 DEF Listed
  <2>3. CASE e = head + 1
    BY <1>4, <1>5, <2>3
  <2>4. QED
    BY <1>3, <2>2, <2>3
<1>8. Taken'
  <2>1. SUFFICES ASSUME NEW j \in Loops, NEW k \in Loops, event'[j] = event'[k], event'[k] # 0
                 PROVE  j = k
    BY DEF Taken
  <2>2. CASE j = l \/ k = l
    BY <1>3, <2>1, <2>2
  <2>3. CASE j # l /\ k # l
    BY <1>1, <1>3, <2>1, <2>3 DEF Taken
  <2>4. QED
    BY <2>2, <2>3
<1>9. Fresh'
  <2>1. SUFFICES ASSUME NEW k \in Loops, Delivering(k)', NEW h \in Handlers, NEW i \in Nat,
                        In(<<event'[k], i>>, got[h])
                 PROVE  i < From(k)'
    BY <1>2 DEF Fresh, In
  <2>2. event'[k] \in 1..head
    <3>1. got[h] \in Seq((1..head) \X Nat)
      BY <1>1, Shape
    <3>2. PICK j \in 1..Len(got[h]) : got[h][j] = <<event'[k], i>>
      BY <2>1 DEF In
    <3>3. got[h][j] \in (1..head) \X Nat
      BY <3>1, <3>2, ElementOfSeq
    <3>4. QED
      BY <3>2, <3>3
  <2>3. k # l
    BY <1>3, <2>2
  <2>4. QED
    BY <1>1, <1>3, <1>6, <2>1, <2>3 DEF Fresh
<1>10. Awaited'
  <2>1. SUFFICES ASSUME NEW e \in 1..(head + 1), NEW i \in 1..due'[e]
                 PROVE  \/ In(<<e, i>>, got[handlers[log[e]][i]]) \/ e \in cut
                        \/ \E k \in Loops : Delivering(k)' /\ event'[k] = e /\ i >= From(k)'
    BY <1>2, Zenon DEF Awaited
  <2>2. CASE e \in 1..head
    <3>1. \/ In(<<e, i>>, got[handlers[log[e]][i]]) \/ e \in cut
          \/ \E k \in Loops : Delivering(k) /\ event[k] = e /\ i >= From(k)
      BY <1>1, <1>5, <2>1, <2>2 DEF Awaited
    <3>2. ~Delivering(l)
      BY <1>2 DEF Delivering
    <3>3. ASSUME NEW k \in Loops, Delivering(k), event[k] = e, i >= From(k)
          PROVE  Delivering(k)' /\ event'[k] = e /\ i >= From(k)'
      BY <1>3, <1>6, <3>2, <3>3
    <3>4. QED
      BY <3>1, <3>3
  <2>3. CASE e = head + 1
    <3>1. Delivering(l)' /\ From(l)' = 1
      BY <1>3 DEF Delivering, From
    <3>2. i >= 1
      BY <1>4, <1>5, <2>1, <2>3
    <3>3. QED
      BY <1>3, <2>3, <3>1, <3>2
  <2>4. QED
    BY <1>3, <2>2, <2>3
<1>11. QED
  BY <1>7, <1>8, <1>9, <1>10

\* Who is called is the next on the list, and was not called from that place.
LEMMA CallIsNew ==
    ASSUME BusInv, NEW l \in Loops, Call(l)
    PROVE  /\ Delivering(l) /\ event[l] \in 1..head /\ ListOf(l)[next[l]] \in Handlers
           /\ log[event[l]] \in Types /\ next[l] \in 1..Len(ListOf(l))
           /\ From(l) = next[l]
           /\ \A h \in Handlers, i \in Nat : In(<<event[l], i>>, got[h]) => i < next[l]
<1>1. Delivering(l) /\ pc[l] = "choosing" /\ next[l] <= Len(ListOf(l))
  BY DEF Call, Delivering
<1>2. event[l] \in 1..head /\ ListOf(l) \in Seq(Handlers) /\ next[l] \in 1..Len(ListOf(l))
  BY <1>1, Shape DEF BusInv
<1>3. ListOf(l)[next[l]] \in Handlers /\ log[event[l]] \in Types
  BY <1>2, Shape DEF BusInv
<1>4. From(l) = next[l]
  BY <1>1 DEF From
<1>5. QED
  BY <1>1, <1>2, <1>3, <1>4 DEF BusInv, Fresh

LEMMA CallKeeps ==
    ASSUME BusInv, NEW l \in Loops, Call(l)
    PROVE  Listed' /\ Taken' /\ Fresh' /\ Awaited'
<1>0. PICK h : h = ListOf(l)[next[l]]
  OBVIOUS
<1>1. TypeOK /\ Listed /\ Taken /\ Fresh /\ Awaited
  BY DEF BusInv
<1>2. /\ pc[l] = "choosing"
      /\ got' = [got EXCEPT ![h] = Append(@, <<event[l], next[l]>>)]
      /\ pc' = [pc EXCEPT ![l] = "calling"]
      /\ UNCHANGED <<log, head, handlers, event, next, due, cut>>
  BY <1>0 DEF Call, bus
<1>3. /\ Delivering(l) /\ event[l] \in 1..head /\ h \in Handlers
      /\ next[l] \in 1..Len(ListOf(l)) /\ next[l] \in Nat /\ From(l) = next[l]
      /\ \A g \in Handlers, i \in Nat : In(<<event[l], i>>, got[g]) => i < next[l]
  BY <1>0, CallIsNew, Shape DEF BusInv
<1>4. /\ From(l)' = next[l] + 1
      /\ \A k \in Loops \ {l} : From(k)' = From(k)
      /\ \A k \in Loops : Delivering(k)' <=> Delivering(k)
  BY <1>1, <1>2 DEF From, Delivering, TypeOK
<1>5. \A g \in Handlers : \A d : In(d, got'[g]) <=> In(d, got[g]) \/ (g = h /\ d = <<event[l], next[l]>>)
  <2>1. got[h] \in Seq((1..head) \X Nat)
    BY <1>1, <1>3 DEF TypeOK
  <2>2. <<event[l], next[l]>> \in (1..head) \X Nat
    BY <1>3
  <2>3. \A d : In(d, Append(got[h], <<event[l], next[l]>>)) <=> In(d, got[h]) \/ d = <<event[l], next[l]>>
    <3>1. PICK s, x, S : /\ s = got[h] /\ x = <<event[l], next[l]>>
                         /\ S = (1..head) \X Nat /\ s \in Seq(S) /\ x \in S
      BY <2>1, <2>2
    <3>2. s \in Seq(S) /\ x \in S
      BY <3>1
    <3>3. \A d : In(d, Append(s, x)) <=> In(d, s) \/ d = x
      BY ONLY <3>2, Appended
    <3>4. QED
      BY <3>1, <3>3
  <2>4. \A g \in Handlers : got'[g] = IF g = h THEN Append(got[h], <<event[l], next[l]>>) ELSE got[g]
    BY <1>1, <1>2 DEF TypeOK
  <2>5. QED
    BY <2>3, <2>4
<1>6. Listed' /\ Taken'
  BY <1>1, <1>2 DEF Listed, Taken
<1>7. Fresh'
  <2>1. SUFFICES ASSUME NEW k \in Loops, Delivering(k), NEW g \in Handlers, NEW i \in Nat,
                        In(<<event[k], i>>, got'[g])
                 PROVE  i < From(k)'
    BY <1>2, <1>4 DEF Fresh, In
  <2>2. CASE k = l
    <3>1. i < next[l] \/ i = next[l]
      BY <1>3, <1>5, <2>1, <2>2
    <3>2. QED
      BY <1>3, <1>4, <2>2, <3>1
  <2>3. CASE k # l
    <3>1. event[k] # event[l]
      BY <1>1, <1>3, <2>3 DEF Taken
    <3>2. In(<<event[k], i>>, got[g])
      BY <1>5, <2>1, <3>1
    <3>3. QED
      BY <1>1, <1>4, <2>1, <2>3, <3>2 DEF Fresh
  <2>4. QED
    BY <2>2, <2>3
<1>8. Awaited'
  <2>1. SUFFICES ASSUME NEW e \in 1..head, NEW i \in 1..due[e]
                 PROVE  \/ In(<<e, i>>, got'[handlers[log[e]][i]]) \/ e \in cut
                        \/ \E k \in Loops : Delivering(k) /\ event[k] = e /\ i >= From(k)'
    BY <1>2, <1>4, Zenon DEF Awaited
  <2>2. PICK g : g = handlers[log[e]][i]
    OBVIOUS
  <2>3. g \in Handlers
    <3>1. /\ handlers[log[e]] \in Seq(Handlers) /\ due[e] \in Nat
          /\ due[e] <= Len(handlers[log[e]])
      BY <1>1, Shape DEF Listed, TypeOK
    <3>2. i \in 1..Len(handlers[log[e]])
      BY <3>1
    <3>3. QED
      BY <2>2, <3>1, <3>2, ElementOfSeq
  <2>4. ASSUME e = event[l], i = next[l]
        PROVE  In(<<e, i>>, got'[g])
    <3>1. g = h
      BY <1>0, <2>2, <2>4 DEF ListOf
    <3>2. QED
      BY <1>3, <1>5, <2>4, <3>1
  <2>5. ASSUME NEW k \in Loops, Delivering(k), event[k] = e, i >= From(k)
        PROVE  In(<<e, i>>, got'[g]) \/ i >= From(k)'
    <3>1. CASE k = l
      <4>1. i = next[l] \/ i >= next[l] + 1
        BY <1>3, <2>5, <3>1
      <4>2. QED
        BY <1>4, <2>4, <2>5, <3>1, <4>1
    <3>2. CASE k # l
      BY <1>4, <2>5, <3>2
    <3>3. QED
      BY <3>1, <3>2
  <2>6. In(<<e, i>>, got[g]) => In(<<e, i>>, got'[g])
    BY <1>5, <2>3
  <2>7. \/ In(<<e, i>>, got[g]) \/ e \in cut
        \/ \E k \in Loops : Delivering(k) /\ event[k] = e /\ i >= From(k)
    BY <1>1, <2>2 DEF Awaited
  <2>8. QED
    BY <2>2, <2>5, <2>6, <2>7
<1>9. QED
  BY <1>6, <1>7, <1>8

-----------------------------------------------------------------------------
\* Every step keeps what is on the lists, taken, called and left.
LEMMA NextKeeps ==
    ASSUME BusInv, Next
    PROVE  Listed' /\ Taken' /\ Fresh' /\ Awaited'
<1>1. TypeOK /\ pc \in [Loops -> Places] /\ next \in [Loops -> Nat]
  BY DEF BusInv, TypeOK
<1>2. ASSUME NEW t \in Types, Publish(t)
      PROVE  Listed' /\ Taken' /\ Fresh' /\ Awaited'
  <2>1. log \in Seq(Types) /\ log' = Append(log, t)
    BY <1>1, <1>2 DEF Publish, TypeOK
  <2>2. \A e \in 1..Len(log) : log'[e] = log[e]
    BY <2>1, Appended
  <2>3. \A e \in 1..head : log'[e] = log[e]
    BY <1>1, <2>2, Shape
  <2>4. \A l \in Loops : (Delivering(l)' <=> Delivering(l)) /\ From(l)' = From(l)
    BY <1>2 DEF Publish, Delivering, From
  <2>5. QED
    BY <1>2, <2>3, <2>4, QuietKeeps DEF Publish
<1>3. ASSUME NEW l \in Loops, Start(l)
      PROVE  Listed' /\ Taken' /\ Fresh' /\ Awaited'
  <2>1. ~Delivering(l) /\ ~Delivering(l)'
    BY <1>1, <1>3 DEF Start, Delivering
  <2>2. \A k \in Loops \ {l} : (Delivering(k)' <=> Delivering(k)) /\ From(k)' = From(k)
    BY <1>1, <1>3 DEF Start, Delivering, From
  <2>3. QED
    BY <1>3, <2>1, <2>2, QuietKeeps DEF Start, bus
<1>4. CASE Stop
  <2>0. PICK l : l = task
    OBVIOUS
  <2>1. l \in Loops /\ UNCHANGED <<log, handlers, got, head, due, event, next>>
    BY <1>1, <2>0, <1>4 DEF Stop, TypeOK, bus
  <2>2. CASE UNCHANGED <<pc, cut>>
    <3>1. \A k \in Loops : (Delivering(k)' <=> Delivering(k)) /\ From(k)' = From(k)
      BY <2>1, <2>2 DEF Delivering, From
    <3>2. QED
      BY <2>1, <2>2, <3>1, QuietKeeps
  <2>3. CASE /\ pc' = [pc EXCEPT ![l] = "ended"]
             /\ cut' = cut \cup {event[k] : k \in {j \in {l} : Delivering(j)}}
    <3>1. ~Delivering(l)'
      BY <1>1, <2>1, <2>3 DEF Delivering
    <3>2. ASSUME Delivering(l) PROVE event[l] \in cut'
      <4>1. l \in {j \in {l} : Delivering(j)}
        BY <3>2
      <4>2. event[l] \in {event[k] : k \in {j \in {l} : Delivering(j)}}
        BY <4>1
      <4>3. QED
        BY <2>3, <4>2
    <3>3. \A k \in Loops \ {l} : (Delivering(k)' <=> Delivering(k)) /\ From(k)' = From(k)
      BY <1>1, <2>1, <2>3 DEF Delivering, From
    <3>4. cut \subseteq cut'
      BY <2>3
    <3>5. /\ \A k \in Loops : Delivering(k)' => Delivering(k) /\ From(k)' = From(k)
          /\ \A k \in Loops : Delivering(k) /\ ~Delivering(k)' =>
                event[k] \in cut' \/ From(k) > Len(ListOf(k))
      BY <3>1, <3>2, <3>3
    <3>6. QED
      BY <2>1, <3>4, <3>5, QuietKeeps
  <2>4. QED
    BY <1>4, <2>0, <2>2, <2>3 DEF Stop
<1>5. ASSUME NEW l \in Loops, LoopEnds(l)
      PROVE  Listed' /\ Taken' /\ Fresh' /\ Awaited'
  <2>1. ~Delivering(l) /\ ~Delivering(l)'
    BY <1>1, <1>5 DEF LoopEnds, Delivering
  <2>2. \A k \in Loops \ {l} : (Delivering(k)' <=> Delivering(k)) /\ From(k)' = From(k)
    BY <1>1, <1>5 DEF LoopEnds, Delivering, From
  <2>3. QED
    BY <1>5, <2>1, <2>2, QuietKeeps DEF LoopEnds, bus
<1>6. ASSUME NEW l \in Loops, Return(l)
      PROVE  Listed' /\ Taken' /\ Fresh' /\ Awaited'
  <2>1. /\ pc[l] = "calling" /\ next'[l] = next[l] + 1
        /\ \/ pc'[l] = "choosing" /\ cut' = cut
           \/ pc'[l] = "died" /\ cut' = cut \cup {event[l]}
        /\ \A k \in Loops \ {l} : pc'[k] = pc[k] /\ next'[k] = next[k]
    BY <1>1, <1>6 DEF Return
  <2>2. \A k \in Loops : Delivering(k)' => Delivering(k) /\ From(k)' = From(k)
    BY <2>1 DEF Delivering, From
  <2>3. \A k \in Loops : Delivering(k) /\ ~Delivering(k)' => event[k] \in cut'
    BY <2>1 DEF Delivering
  <2>4. cut \subseteq cut'
    BY <2>1
  <2>5. QED
    BY <1>6, <2>2, <2>3, <2>4, QuietKeeps DEF Return, bus
<1>7. ASSUME NEW l \in Loops, Delivered(l)
      PROVE  Listed' /\ Taken' /\ Fresh' /\ Awaited'
  <2>1. Delivering(l) /\ ~Delivering(l)'
    BY <1>1, <1>7 DEF Delivered, Delivering
  <2>2. From(l) = next[l]
    BY <1>7 DEF Delivered, From
  <2>3. From(l) > Len(ListOf(l))
    BY <1>7, <2>2 DEF Delivered
  <2>4. \A k \in Loops \ {l} : (Delivering(k)' <=> Delivering(k)) /\ From(k)' = From(k)
    BY <1>1, <1>7 DEF Delivered, Delivering, From
  <2>5. QED
    BY <1>7, <2>1, <2>3, <2>4, QuietKeeps DEF Delivered, bus
<1>8. QED
  BY <1>2, <1>3, <1>4, <1>5, <1>6, <1>7, SubscribeKeeps, TakeKeeps, CallKeeps DEF Next, Dispatch

\* A loop that is alone stays alone, unless start is called under it.
LEMMA SingleStep ==
    ASSUME TypeOK, Single, Next
    PROVE  Single'
<1>1. pc \in [Loops -> Places] /\ event \in [Loops -> 0..head]
  BY DEF TypeOK
<1>2. ASSUME NEW l \in Loops, Start(l)
      PROVE  Single'
  <2>1. SUFFICES ASSUME ~doubled'
                 PROVE  /\ \A j, k \in Loops : Alive(j)' /\ Alive(k)' => j = k
                        /\ \A k \in Loops : Delivering(k)' => event'[k] = head'
    BY DEF Single
  <2>2. \A k \in Loops : ~Alive(k)
    BY <1>2, <2>1 DEF Start
  <2>3. \A k \in Loops \ {l} : ~Alive(k)' /\ ~Delivering(k)'
    BY <1>1, <1>2, <2>2 DEF Start, Alive, Delivering
  <2>4. ~Delivering(l)'
    BY <1>1, <1>2 DEF Start, Delivering
  <2>5. QED
    BY <2>3, <2>4
<1>3. ASSUME UNCHANGED <<doubled, head, event>>,
             \A k \in Loops : Alive(k)' => Alive(k),
             \A k \in Loops : Delivering(k)' => Delivering(k)
      PROVE  Single'
  BY <1>3 DEF Single
<1>4. CASE \/ \E h \in Handlers, t \in Types : Subscribe(h, t)
           \/ \E t \in Types : Publish(t)
  BY <1>3, <1>4 DEF Subscribe, Publish, ctl, Alive, Delivering
<1>5. ASSUME NEW l \in Loops, LoopEnds(l) \/ Call(l) \/ Return(l) \/ Delivered(l)
      PROVE  Single'
  <2>1. \A k \in Loops : (Alive(k)' => Alive(k)) /\ (Delivering(k)' => Delivering(k))
    BY <1>1, <1>5 DEF LoopEnds, Call, Return, Delivered, Alive, Delivering
  <2>2. QED
    BY <1>3, <1>5, <2>1 DEF LoopEnds, Call, Return, Delivered, ctl, bus
<1>6. ASSUME NEW l \in Loops, Take(l)
      PROVE  Single'
  <2>1. SUFFICES ASSUME ~doubled
                 PROVE  /\ \A j, k \in Loops : Alive(j)' /\ Alive(k)' => j = k
                        /\ \A k \in Loops : Delivering(k)' => event'[k] = head'
    BY <1>6 DEF Single, Take, TakeEvent, ctl
  <2>2. \A k \in Loops : Alive(k)' <=> Alive(k)
    BY <1>1, <1>6 DEF Take, TakeEvent, Alive
  <2>3. \A k \in Loops : Alive(k) => k = l
    BY <1>6, <2>1 DEF Take, TakeEvent, Alive, Single
  <2>4. \A k \in Loops : Delivering(k)' => Alive(k)'
    BY DEF Delivering, Alive
  <2>5. event'[l] = head'
    BY <1>1, <1>6 DEF Take, TakeEvent
  <2>6. QED
    BY <2>2, <2>3, <2>4, <2>5
<1>7. CASE Stop
  <2>1. task \in Loops /\ UNCHANGED <<doubled, head, event>>
    BY <1>7 DEF Stop, TypeOK, bus
  <2>2. pc' = pc \/ pc' = [pc EXCEPT ![task] = "ended"]
    BY <1>7 DEF Stop
  <2>3. \A k \in Loops : (Alive(k)' => Alive(k)) /\ (Delivering(k)' => Delivering(k))
    BY <1>1, <2>1, <2>2 DEF Alive, Delivering
  <2>4. QED
    BY <1>3, <2>1, <2>3
<1>8. QED
  BY <1>2, <1>4, <1>5, <1>6, <1>7 DEF Next, Dispatch

LEMMA BusStep ==
    ASSUME BusInv, [Next]_vars
    PROVE  BusInv'
<1>1. CASE Next
  BY <1>1, TypeStep, NextKeeps, SingleStep DEF BusInv
<1>2. CASE UNCHANGED vars
  <2>1. /\ UNCHANGED <<log, head, handlers, running, task, doubled, pc, event, next>>
        /\ UNCHANGED <<got, due, cut>>
    BY <1>2 DEF vars, bus, ctl
  <2>2. TypeOK' /\ Single'
    BY <2>1 DEF BusInv, TypeOK, Single, Delivering, Alive
  <2>3. \A l \in Loops : (Delivering(l)' <=> Delivering(l)) /\ From(l)' = From(l)
    BY <2>1 DEF Delivering, From
  <2>4. Listed' /\ Taken' /\ Fresh' /\ Awaited'
    BY <2>1, <2>3, QuietKeeps
  <2>5. QED
    BY <2>2, <2>4 DEF BusInv
<1>3. QED
  BY <1>1, <1>2

\* What the dispatch loops know of handlers and events, however many loops there
\* are and whenever handlers subscribe (core/events.py:93-130).
THEOREM BusInductive == Spec => []BusInv
  BY InitInv, BusStep, PTL DEF Spec

\* No handler of an event is skipped because another one raised, or because the
\* list grew under the loop.
THEOREM NobodySkipped == Spec => []NoHandlerSkipped
<1>1. BusInv => NoHandlerSkipped
  BY DEF BusInv, Awaited, NoHandlerSkipped
<1>2. QED
  BY <1>1, BusInductive, PTL

-----------------------------------------------------------------------------
\* The bus implements the broadcast: its steps are steps of the broadcast.
broadcast == <<log, handlers, got, ~doubled>>

LEMMA CallIsReceive ==
    ASSUME BusInv, NEW l \in Loops, Call(l)
    PROVE  Broadcast!Next
<1>0. PICK h : h = ListOf(l)[next[l]]
  OBVIOUS
<1>1. /\ Delivering(l) /\ event[l] \in 1..head /\ h \in Handlers
      /\ next[l] \in 1..Len(handlers[log[event[l]]]) /\ h = handlers[log[event[l]]][next[l]]
      /\ next[l] \in Nat
      /\ \A i \in Nat : In(<<event[l], i>>, got[h]) => i < next[l]
  <2>1. next[l] \in Nat
    BY Shape DEF BusInv
  <2>2. ListOf(l) = handlers[log[event[l]]]
    BY DEF ListOf
  <2>3. QED
    BY <1>0, CallIsNew, <2>1, <2>2
<1>2. event[l] \in 1..Len(log)
  BY <1>1, Shape DEF BusInv
<1>3. <<event[l], next[l]>> \notin Broadcast!Received(h)
  BY <1>1 DEF Broadcast!Received, In
<1>4. ~doubled => \A c \in Broadcast!Received(h) : Broadcast!Before(c, <<event[l], next[l]>>)
  <2>1. SUFFICES ASSUME ~doubled, NEW j \in 1..Len(got[h])
                 PROVE  Broadcast!Before(got[h][j], <<event[l], next[l]>>)
    BY DEF Broadcast!Received
  <2>2. event[l] = head /\ head \in Nat
    BY <1>1, <2>1, Shape DEF BusInv, Single
  <2>3. got[h][j] \in (1..head) \X Nat
    BY <1>1, Shape, ElementOfSeq DEF BusInv
  <2>4. PICK e \in 1..head, i \in Nat : got[h][j] = <<e, i>>
    BY <2>3
  <2>5. e = event[l] => i < next[l]
    BY <1>1, <2>4 DEF In
  <2>6. e < event[l] \/ (e = event[l] /\ i < next[l])
    BY <2>2, <2>5
  <2>7. QED
    BY <2>4, <2>6 DEF Broadcast!Before
<1>5. /\ got' = [got EXCEPT ![h] = Append(@, <<event[l], next[l]>>)]
      /\ UNCHANGED <<log, handlers, ~doubled>>
  BY <1>0 DEF Call, bus, ctl
<1>6. Broadcast!Receive(h, event[l], next[l])
  BY <1>1, <1>3, <1>4, <1>5 DEF Broadcast!Receive
<1>7. QED
  BY <1>1, <1>2, <1>6 DEF Broadcast!Next

LEMMA StepIsBroadcast ==
    ASSUME BusInv, [Next]_vars
    PROVE  [Broadcast!Next]_broadcast
<1>1. ASSUME UNCHANGED <<log, handlers, got, doubled>>
      PROVE  UNCHANGED broadcast
  BY <1>1 DEF broadcast
<1>2. ASSUME NEW h \in Handlers, NEW t \in Types, Subscribe(h, t)
      PROVE  Broadcast!Next
  <2>1. Broadcast!Subscribe(h)
    BY <1>2 DEF Broadcast!Subscribe, Subscribe, ctl
  <2>2. QED
    BY <2>1 DEF Broadcast!Next
<1>3. ASSUME NEW t \in Types, Publish(t)
      PROVE  Broadcast!Next
  <2>1. Broadcast!Publish
    BY <1>3 DEF Broadcast!Publish, Publish, ctl
  <2>2. QED
    BY <2>1 DEF Broadcast!Next
<1>4. ASSUME NEW l \in Loops, Start(l)
      PROVE  [Broadcast!Next]_broadcast
  <2>1. UNCHANGED <<log, handlers, got>>
    BY <1>4 DEF Start, bus
  <2>2. CASE doubled' = doubled
    BY <1>1, <2>1, <2>2
  <2>3. CASE doubled' = TRUE
    <3>1. Broadcast!LoseOrder
      BY <2>1, <2>3 DEF Broadcast!LoseOrder
    <3>2. QED
      BY <3>1 DEF Broadcast!Next
  <2>4. QED
    BY <1>4, <2>2, <2>3 DEF Start, BusInv, TypeOK
<1>5. ASSUME NEW l \in Loops, LoopEnds(l) \/ Take(l) \/ Return(l) \/ Delivered(l)
      PROVE  UNCHANGED broadcast
  BY <1>1, <1>5 DEF LoopEnds, Take, TakeEvent, Return, Delivered, bus, ctl
<1>6. CASE Stop
  BY <1>1, <1>6 DEF Stop, bus
<1>7. CASE UNCHANGED vars
  BY <1>1, <1>7 DEF vars, bus, ctl
<1>8. QED
  BY <1>2, <1>3, <1>4, <1>5, <1>6, <1>7, CallIsReceive DEF Next, Dispatch

LEMMA InitIsBroadcast ==
    ASSUME Init
    PROVE  Broadcast!Init
  BY DEF Init, Broadcast!Init

\* For any handlers, types and loops: a handler gets events of its types only, each
\* at most once for every time it subscribed (core/events.py:93-96 puts it on the
\* list each time), and in the order of their publication for as long as start was
\* not called under a loop that is alive.
THEOREM BusIsBroadcast == Spec => ImplementsBroadcast
<1>1. Spec => Broadcast!Init /\ [][Broadcast!Next]_broadcast
  BY InitIsBroadcast, StepIsBroadcast, BusInductive, PTL DEF Spec
<1>2. QED
  BY <1>1, PTL DEF ImplementsBroadcast, Broadcast!Spec, broadcast
=============================================================================
