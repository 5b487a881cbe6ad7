------------------------ MODULE FeedConnectionProofs ------------------------
(* The heartbeat of a feed, for any number of retries.                          *)
EXTENDS FeedConnection, TLAPS

\* Who tries has a retry left to count.
RetryLeft == \A k \in Tasks : job[k] = "trying" => attempt[k] < MaxRetries

IInv == TypeOK /\ RetryLeft /\ ConnectedIsWatched

LEMMA InitInv == Init => IInv
<1> SUFFICES ASSUME Init PROVE IInv
  OBVIOUS
<1>1. job \in [Tasks -> {"idle", "trying", "waiting", "backoff"}]
      /\ attempt \in [Tasks -> 0..MaxRetries]
  BY RetriesAssumption DEF Init
<1>2. TypeOK
  BY <1>1 DEF Init, TypeOK, Tasks, Live
<1>3. RetryLeft /\ ConnectedIsWatched
  BY DEF Init, RetryLeft, ConnectedIsWatched
<1>4. QED
  BY <1>2, <1>3 DEF IInv

\* A connect that succeeds starts a heartbeat, or is the heartbeat, which goes on.
LEMMA SucceedKeeps ==
    ASSUME TypeOK, NEW k \in Tasks, job[k] # "idle", Succeed(k)
    PROVE  /\ connected' /\ connected' \in BOOLEAN /\ halfway' = FALSE
           /\ hb' \in {"starting", "sleeping", "connecting"}
           /\ job' \in [Tasks -> {"idle", "trying", "waiting", "backoff"}]
           /\ \A j \in Tasks : job'[j] = "trying" => job[j] = "trying"
           /\ hb' = "connecting" <=> job'["heartbeat"] # "idle"
<1>1. /\ connected' = TRUE /\ halfway' = FALSE /\ job' = [job EXCEPT ![k] = "idle"]
      /\ hb \in {"none", "starting", "sleeping", "connecting", "ended"}
      /\ job \in [Tasks -> {"idle", "trying", "waiting", "backoff"}]
      /\ hb = "connecting" <=> job["heartbeat"] # "idle"
  BY DEF Succeed, TypeOK
<1>2. CASE k = "heartbeat"
  BY <1>1, <1>2 DEF Succeed, Tasks
<1>3. CASE k = "caller"
  BY <1>1, <1>3 DEF Succeed, StartHeartbeat, Tasks
<1>4. QED
  BY <1>2, <1>3 DEF Tasks

\* What replacing the socket leaves of the types.
LEMMA ReplaceKeeps ==
    ASSUME TypeOK, UNCHANGED sockets \/ Replace("opening") \/ Replace("none")
    PROVE  /\ conn' \in Live \cup {"none", "closed"} /\ old' \subseteq Live \cup {"closed"}
           /\ down' \in BOOLEAN /\ renewed' \in BOOLEAN
  BY DEF sockets, Replace, TypeOK, Live

LEMMA TryKeeps ==
    ASSUME IInv, NEW k \in Tasks, Try(k) \/ Waited(k)
    PROVE  IInv'
<1>1. job[k] \in {"trying", "waiting"}
  BY DEF Try, Waited
<1>2. UNCHANGED <<mode, lastTick, wanted>>
  BY DEF Try, Waited
<1>3. UNCHANGED sockets \/ Replace("opening")
  BY DEF Try, Waited
<1>4. /\ conn' \in Live \cup {"none", "closed"} /\ old' \subseteq Live \cup {"closed"}
      /\ down' \in BOOLEAN /\ renewed' \in BOOLEAN
  BY <1>3, ReplaceKeeps DEF IInv
<1>5. CASE Succeed(k) /\ UNCHANGED attempt
  <2>1. TypeOK'
    BY <1>1, <1>2, <1>4, <1>5, SucceedKeeps DEF IInv, TypeOK
  <2>2. RetryLeft' /\ ConnectedIsWatched'
    BY <1>1, <1>5, SucceedKeeps DEF IInv, RetryLeft, ConnectedIsWatched
  <2>3. QED
    BY <2>1, <2>2 DEF IInv
<1>6. CASE job' = [job EXCEPT ![k] = "waiting"] /\ UNCHANGED <<connected, hb, attempt, halfway>>
  <2>1. job' \in [Tasks -> {"idle", "trying", "waiting", "backoff"}]
        /\ (job'["heartbeat"] # "idle" <=> job["heartbeat"] # "idle")
    BY <1>1, <1>6 DEF IInv, TypeOK, Tasks
  <2>2. TypeOK'
    BY <1>2, <1>4, <1>6, <2>1 DEF IInv, TypeOK
  <2>3. RetryLeft' /\ ConnectedIsWatched'
    BY <1>6 DEF IInv, TypeOK, RetryLeft, ConnectedIsWatched
  <2>4. QED
    BY <2>2, <2>3 DEF IInv
<1>7. QED
  BY <1>5, <1>6 DEF Try, Waited

\* A login whose websocket does not start sets the flag: a heartbeat that is there
\* watches it, and where there is none halfway tells so.
LEMMA TryFailsKeeps ==
    ASSUME IInv, NEW k \in Tasks, TryFails(k)
    PROVE  IInv'
<1>1. /\ job[k] = "trying" /\ job' = [job EXCEPT ![k] = "backoff"]
      /\ attempt' = [attempt EXCEPT ![k] = @ + 1] /\ UNCHANGED <<mode, lastTick, wanted, hb>>
  BY DEF TryFails
<1>2. /\ conn' \in Live \cup {"none", "closed"} /\ old' \subseteq Live \cup {"closed"}
      /\ down' \in BOOLEAN /\ renewed' \in BOOLEAN
  BY ReplaceKeeps DEF TryFails, IInv
<1>3. \/ UNCHANGED <<connected, halfway>>
      \/ connected' = TRUE /\ halfway' = (hb \in {"none", "ended"})
  BY DEF TryFails
<1>4. job' \in [Tasks -> {"idle", "trying", "waiting", "backoff"}]
      /\ (job'["heartbeat"] # "idle" <=> job["heartbeat"] # "idle")
  BY <1>1 DEF IInv, TypeOK, Tasks
<1>5. attempt' \in [Tasks -> 0..MaxRetries]
  <2>1. attempt[k] \in 0..MaxRetries /\ attempt[k] < MaxRetries
    BY <1>1 DEF IInv, TypeOK, RetryLeft
  <2>2. attempt[k] + 1 \in 0..MaxRetries
    BY <2>1, RetriesAssumption
  <2>3. QED
    BY <1>1, <2>2 DEF IInv, TypeOK
<1>6. TypeOK'
  <2>1. connected' \in BOOLEAN /\ halfway' \in BOOLEAN
    <3>1. CASE UNCHANGED <<connected, halfway>>
      BY <3>1 DEF IInv, TypeOK
    <3>2. CASE connected' = TRUE /\ halfway' = (hb \in {"none", "ended"})
      <4>1. (hb \in {"none", "ended"}) \in BOOLEAN
        OBVIOUS
      <4>2. QED
        BY <3>2, <4>1
    <3>3. QED
      BY <1>3, <3>1, <3>2
  <2>2. QED
    BY <1>1, <1>2, <1>4, <1>5, <2>1 DEF IInv, TypeOK
<1>7. RetryLeft'
  BY <1>1 DEF IInv, TypeOK, RetryLeft
<1>8. ConnectedIsWatched'
  BY <1>1, <1>3 DEF IInv, TypeOK, ConnectedIsWatched
<1>9. QED
  BY <1>6, <1>7, <1>8 DEF IInv

LEMMA BackoffKeeps ==
    ASSUME IInv, NEW k \in Tasks, Backoff(k)
    PROVE  IInv'
<1>1. job[k] = "backoff" /\ UNCHANGED <<mode, connected, lastTick, wanted, sockets, attempt, halfway>>
  BY DEF Backoff
<1>2. CASE attempt[k] < MaxRetries /\ job' = [job EXCEPT ![k] = "trying"] /\ UNCHANGED hb
  <2>1. job' \in [Tasks -> {"idle", "trying", "waiting", "backoff"}]
        /\ (job'["heartbeat"] # "idle" <=> job["heartbeat"] # "idle")
    BY <1>1, <1>2 DEF IInv, TypeOK, Tasks
  <2>2. TypeOK'
    BY <1>1, <1>2, <2>1 DEF IInv, TypeOK, sockets
  <2>3. RetryLeft' /\ ConnectedIsWatched'
    BY <1>1, <1>2 DEF IInv, TypeOK, RetryLeft, ConnectedIsWatched
  <2>4. QED
    BY <2>2, <2>3 DEF IInv
<1>3. CASE /\ job' = [job EXCEPT ![k] = "idle"]
           /\ hb' = IF k # "heartbeat" THEN hb ELSE IF connected THEN "sleeping" ELSE "ended"
  <2>1. job' \in [Tasks -> {"idle", "trying", "waiting", "backoff"}]
        /\ \A j \in Tasks : job'[j] = "trying" => job[j] = "trying"
    BY <1>3 DEF IInv, TypeOK
  <2>2. hb' = "connecting" <=> job'["heartbeat"] # "idle"
    BY <1>3 DEF IInv, TypeOK, Tasks
  <2>3. TypeOK'
    BY <1>1, <1>3, <2>1, <2>2 DEF IInv, TypeOK, sockets
  <2>4. RetryLeft' /\ ConnectedIsWatched'
    BY <1>1, <1>3, <2>1 DEF IInv, TypeOK, RetryLeft, ConnectedIsWatched
  <2>5. QED
    BY <2>3, <2>4 DEF IInv
<1>4. QED
  BY <1>2, <1>3 DEF Backoff

LEMMA ConnectKeeps == ASSUME IInv, Connect PROVE IInv'
<1>1. /\ job' = [job EXCEPT !["caller"] = "trying"]
      /\ attempt' = [attempt EXCEPT !["caller"] = 0]
      /\ UNCHANGED <<mode, connected, lastTick, wanted, sockets, hb, halfway>>
  BY DEF Connect
<1>2. job' \in [Tasks -> {"idle", "trying", "waiting", "backoff"}]
      /\ attempt' \in [Tasks -> 0..MaxRetries] /\ job'["heartbeat"] = job["heartbeat"]
  BY <1>1, RetriesAssumption DEF IInv, TypeOK, Tasks
<1>3. TypeOK'
  BY <1>1, <1>2 DEF IInv, TypeOK, sockets
<1>4. RetryLeft' /\ ConnectedIsWatched'
  BY <1>1, RetriesAssumption DEF IInv, TypeOK, RetryLeft, ConnectedIsWatched
<1>5. QED
  BY <1>3, <1>4 DEF IInv

LEMMA HeartbeatKeeps == ASSUME IInv, Heartbeat PROVE IInv'
<1>1. CASE HeartbeatStarts \/ HeartbeatEnds
  <2>1. /\ hb \in {"starting", "sleeping"} /\ hb' \in {"sleeping", "ended"}
        /\ connected => hb' = "sleeping"
        /\ UNCHANGED <<mode, connected, lastTick, wanted, sockets, calls>>
    BY <1>1 DEF HeartbeatStarts, HeartbeatEnds, IInv, TypeOK
  <2>2. TypeOK'
    BY <2>1 DEF IInv, TypeOK, sockets, calls
  <2>3. RetryLeft' /\ ConnectedIsWatched'
    BY <2>1 DEF IInv, RetryLeft, ConnectedIsWatched, calls
  <2>4. QED
    BY <2>2, <2>3 DEF IInv
<1>2. CASE HeartbeatTimeout
  <2>1. /\ hb' = "connecting" /\ connected' = FALSE
        /\ job' = [job EXCEPT !["heartbeat"] = "trying"]
        /\ attempt' = [attempt EXCEPT !["heartbeat"] = 0]
        /\ UNCHANGED <<mode, lastTick, wanted, sockets, halfway>>
    BY <1>2 DEF HeartbeatTimeout
  <2>2. job' \in [Tasks -> {"idle", "trying", "waiting", "backoff"}]
        /\ attempt' \in [Tasks -> 0..MaxRetries] /\ job'["heartbeat"] = "trying"
    BY <2>1, RetriesAssumption DEF IInv, TypeOK, Tasks
  <2>3. TypeOK'
    BY <2>1, <2>2 DEF IInv, TypeOK, sockets
  <2>4. RetryLeft' /\ ConnectedIsWatched'
    BY <2>1, RetriesAssumption DEF IInv, TypeOK, RetryLeft, ConnectedIsWatched
  <2>5. QED
    BY <2>3, <2>4 DEF IInv
<1>3. QED
  BY <1>1, <1>2 DEF Heartbeat

\* The threads of the sockets set the flag back at most; the rest leaves it alone.
LEMMA SocketsKeep == ASSUME IInv, Sockets \/ Subscribe \/ Disconnect PROVE IInv'
<1>1. /\ connected' \in {connected, FALSE} /\ UNCHANGED <<mode, hb, calls>>
      /\ lastTick' \in {"none", "fresh", "stale"} /\ wanted' \in BOOLEAN
  BY DEF Sockets, Open, Close, Reopen, OldSocket, Tick, Silence, Subscribe, Disconnect, IInv, TypeOK
<1>2. conn' \in Live \cup {"none", "closed"} /\ down' \in BOOLEAN /\ renewed' \in BOOLEAN
  BY DEF Sockets, Open, Opened, Close, Reopen, OldSocket, Tick, Silence, Subscribe, Disconnect,
         sockets, IInv, TypeOK, Live
<1>3. old' \subseteq Live \cup {"closed"}
  <2>1. CASE OldSocket
    BY <2>1 DEF OldSocket, IInv, TypeOK, Live
  <2>2. CASE old' = old
    BY <2>2 DEF IInv, TypeOK
  <2>3. QED
    BY <2>1, <2>2 DEF Sockets, Open, Close, Reopen, Tick, Silence, Subscribe, Disconnect, sockets
<1>4. TypeOK'
  BY <1>1, <1>2, <1>3 DEF IInv, TypeOK, calls
<1>5. RetryLeft'
  BY <1>1 DEF IInv, RetryLeft, calls
<1>6. ConnectedIsWatched'
  <2>1. CASE connected' = FALSE
    BY <2>1 DEF ConnectedIsWatched
  <2>2. CASE connected' = connected
    BY <1>1, <2>2 DEF IInv, ConnectedIsWatched, calls
  <2>3. QED
    BY <1>1, <2>1, <2>2
<1>7. QED
  BY <1>4, <1>5, <1>6 DEF IInv

LEMMA NextKeeps == IInv /\ [Next]_vars => IInv'
<1> SUFFICES ASSUME IInv, [Next]_vars PROVE IInv'
  OBVIOUS
<1>1. CASE UNCHANGED vars
  BY <1>1 DEF vars, sockets, calls, IInv, TypeOK, RetryLeft, ConnectedIsWatched
<1>2. CASE Next
  BY <1>2, TryKeeps, TryFailsKeeps, BackoffKeeps, ConnectKeeps, HeartbeatKeeps, SocketsKeep DEF Next, Step
<1>3. QED
  BY <1>1, <1>2

\* The inductive invariant: types, the heartbeat is in connect exactly when its call
\* is on its way, and who tries has a retry left.
THEOREM FeedInductive == Spec => []IInv
  BY InitInv, NextKeeps, PTL DEF Spec

\* A feed that counts as connected has a heartbeat that will look at it
\* (base_feed.py:31-77), whatever its caller, disconnect and the threads of its
\* sockets, old and new, do meanwhile, and however often connect is retried; the exception is
\* a flag that was set by a login whose websocket did not start (shoonya_ws.py:59).
THEOREM AlwaysWatched == Spec => []ConnectedIsWatched
<1>1. IInv => ConnectedIsWatched
  BY DEF IInv
<1>2. QED
  BY <1>1, FeedInductive, PTL
=============================================================================
