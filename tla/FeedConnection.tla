--------------------------- MODULE FeedConnection ---------------------------
(* data/feeds: how a feed connects, notices silence and connects again          *)
(* (base_feed.py), with what zerodha_ws.py and shoonya_ws.py do to the socket.  *)
(* The callbacks of a socket run in threads of the client library; a connection *)
(* that is replaced is not closed and its callbacks still act on the feed.      *)
EXTENDS Naturals

CONSTANTS MaxRetries      \* MAX_RETRIES

ASSUME RetriesAssumption == MaxRetries \in Nat \ {0}

Modes == {"paper", "zerodha", "shoonya"}
Tasks == {"caller", "heartbeat"}
\* "feeding": open and subscribed.
Live  == {"opening", "open", "feeding"}

VARIABLES
    mode,         \* paper mode, or which feed this is
    connected,    \* _is_connected
    lastTick,     \* _last_tick_time: "none", "fresh", or "stale" after 30 s
    wanted,       \* _subscribed_symbols is not empty
    conn,         \* the socket of _ticker or _api; "none" if it has none
    old,          \* the states of the sockets it has replaced
    hb,           \* _heartbeat_task
    job,          \* job[k]: where the task k is in connect
    attempt,      \* attempt[k]
    down,         \* history: conn was closed since it was made
    renewed,      \* history: conn was made since the feed fell silent
    halfway       \* history: the flag was set by a login whose websocket did not
                  \* start, with no heartbeat there

sockets == <<conn, old, down, renewed>>
calls   == <<job, attempt, halfway>>
vars    == <<mode, connected, lastTick, wanted, sockets, hb, calls>>

Init ==
    /\ mode \in Modes
    /\ connected = FALSE /\ lastTick = "none" /\ wanted = FALSE
    /\ conn = "none" /\ old = {}
    /\ down = FALSE /\ renewed = FALSE /\ halfway = FALSE
    /\ hb = "none"
    /\ job = [k \in Tasks |-> "idle"] /\ attempt = [k \in Tasks |-> 0]

-----------------------------------------------------------------------------
\* Slip: a task that has ended is not replaced.
StartHeartbeatOnce == hb' = IF hb = "none" THEN "starting" ELSE hb

StartHeartbeat == hb' = IF hb \in {"none", "ended"} THEN "starting" ELSE hb

\* connect returns to the while of the heartbeat, or to its caller.
Succeed(k) ==
    /\ connected' = TRUE /\ halfway' = FALSE
    /\ job' = [job EXCEPT ![k] = "idle"]
    /\ IF k = "heartbeat" THEN hb' = "sleeping" ELSE StartHeartbeat

\* The object of the feed is replaced; the socket of the one before lives on.
Replace(socket) ==
    /\ conn' = socket /\ down' = FALSE /\ renewed' = TRUE
    /\ old' = IF conn = "none" THEN old ELSE old \cup {conn}

Connect ==
    /\ job["caller"] = "idle"
    /\ job' = [job EXCEPT !["caller"] = "trying"]
    /\ attempt' = [attempt EXCEPT !["caller"] = 0]
    /\ UNCHANGED <<mode, connected, lastTick, wanted, sockets, hb, halfway>>

\* Zerodha starts a thread and waits three seconds; Shoonya logs in.
Try(k) ==
    /\ job[k] = "trying"
    /\ \/ mode = "paper" /\ Succeed(k) /\ UNCHANGED <<sockets, attempt>>
       \/ /\ mode = "zerodha" /\ Replace("opening")
          /\ job' = [job EXCEPT ![k] = "waiting"]
          /\ UNCHANGED <<connected, hb, attempt, halfway>>
       \/ mode = "shoonya" /\ Replace("opening") /\ Succeed(k) /\ UNCHANGED attempt
    /\ UNCHANGED <<mode, lastTick, wanted>>

\* _connect_impl raises: before it has made a new object, or with one that has no
\* socket: a thread that does not start, a login that is refused, or a websocket
\* that does not start although the login has set the flag.
TryFails(k) ==
    /\ job[k] = "trying" /\ mode # "paper"
    /\ \/ UNCHANGED <<sockets, connected, halfway>>
       \/ Replace("none") /\ UNCHANGED <<connected, halfway>>
       \/ /\ mode = "shoonya" /\ Replace("none")
          /\ connected' = TRUE /\ halfway' = (hb \in {"none", "ended"})
    /\ job' = [job EXCEPT ![k] = "backoff"]
    /\ attempt' = [attempt EXCEPT ![k] = @ + 1]
    /\ UNCHANGED <<mode, lastTick, wanted, hb>>

\* Zerodha counts as connected whatever its socket did meanwhile.
Waited(k) ==
    /\ job[k] = "waiting" /\ Succeed(k)
    /\ UNCHANGED <<mode, lastTick, wanted, sockets, attempt>>

Backoff(k) ==
    /\ job[k] = "backoff"
    /\ \/ /\ attempt[k] < MaxRetries
          /\ job' = [job EXCEPT ![k] = "trying"] /\ UNCHANGED hb
       \/ /\ attempt[k] = MaxRetries
          /\ job' = [job EXCEPT ![k] = "idle"]
          /\ hb' = IF k # "heartbeat" THEN hb ELSE IF connected THEN "sleeping" ELSE "ended"
    /\ UNCHANGED <<mode, connected, lastTick, wanted, sockets, attempt, halfway>>

-----------------------------------------------------------------------------
HeartbeatStarts ==
    /\ hb = "starting"
    /\ hb' = IF connected THEN "sleeping" ELSE "ended"
    /\ UNCHANGED <<mode, connected, lastTick, wanted, sockets, calls>>

\* Slip: what has fallen silent is marked, and the loop ends with its flag.
HeartbeatMarksOnly ==
    /\ hb = "sleeping" /\ lastTick = "stale"
    /\ hb' = "ended" /\ connected' = FALSE
    /\ UNCHANGED <<mode, lastTick, wanted, sockets, calls>>

\* The loop does not look at _is_connected between its sleep and this.
HeartbeatTimeout ==
    /\ hb = "sleeping" /\ lastTick = "stale"
    /\ hb' = "connecting" /\ connected' = FALSE
    /\ job' = [job EXCEPT !["heartbeat"] = "trying"]
    /\ attempt' = [attempt EXCEPT !["heartbeat"] = 0]
    /\ UNCHANGED <<mode, lastTick, wanted, sockets, halfway>>

\* Slip: while True.
HeartbeatNeverEnds == FALSE

HeartbeatEnds ==
    /\ hb = "sleeping" /\ lastTick # "stale" /\ ~connected
    /\ hb' = "ended"
    /\ UNCHANGED <<mode, connected, lastTick, wanted, sockets, calls>>

-----------------------------------------------------------------------------
Opened == IF mode = "zerodha" /\ wanted THEN "feeding" ELSE "open"

Open ==
    /\ conn = "opening" /\ conn' = Opened
    /\ UNCHANGED <<mode, connected, lastTick, wanted, old, down, renewed, hb, calls>>

\* on_disconnect, socket_close_callback.
Close ==
    /\ conn \in Live /\ conn' = "closed"
    /\ connected' = FALSE /\ down' = TRUE
    /\ UNCHANGED <<mode, lastTick, wanted, old, renewed, hb, calls>>

\* The client library of Zerodha may open a socket again by itself.
Reopen ==
    /\ mode = "zerodha" /\ conn = "closed" /\ conn' = "opening"
    /\ UNCHANGED <<mode, connected, lastTick, wanted, old, down, renewed, hb, calls>>

\* A replaced socket opens, closes or opens again; its callbacks use the ticker
\* the feed has now, and the flag.
OldSocket ==
    /\ \/ /\ "opening" \in old /\ \E keep \in {{}, {"opening"}} :
              old' = (old \ {"opening"}) \cup keep \cup {"open"}
          /\ conn' = IF conn = "open" THEN Opened ELSE conn
          /\ UNCHANGED connected
       \/ /\ \E s \in old \cap Live, keep \in SUBSET {"opening", "open", "feeding"} :
              keep \subseteq {s} /\ old' = (old \ {s}) \cup keep \cup {"closed"}
          /\ connected' = FALSE /\ UNCHANGED conn
       \/ /\ mode = "zerodha" /\ "closed" \in old
          /\ old' = old \cup {"opening"} /\ UNCHANGED <<conn, connected>>
    /\ UNCHANGED <<mode, lastTick, wanted, down, renewed, hb, calls>>

\* Ticks pass whether or not the flag is set; in paper mode they are replayed.
Tick ==
    /\ mode = "paper" \/ conn = "feeding" \/ "feeding" \in old
    /\ lastTick' = "fresh"
    /\ UNCHANGED <<mode, connected, wanted, sockets, hb, calls>>

Silence ==
    /\ lastTick = "fresh" /\ lastTick' = "stale" /\ renewed' = FALSE
    /\ UNCHANGED <<mode, connected, wanted, conn, old, down, hb, calls>>

Subscribe ==
    /\ wanted' = TRUE
    /\ conn' = IF connected /\ conn = "open" THEN "feeding" ELSE conn
    /\ UNCHANGED <<mode, connected, lastTick, old, down, renewed, hb, calls>>

Disconnect ==
    /\ connected' = FALSE /\ conn' = "none" /\ down' = TRUE
    /\ UNCHANGED <<mode, lastTick, wanted, old, renewed, hb, calls>>

-----------------------------------------------------------------------------
Heartbeat == HeartbeatStarts \/ HeartbeatTimeout \/ HeartbeatEnds
Step(k)   == Try(k) \/ TryFails(k) \/ Waited(k) \/ Backoff(k)
Sockets   == Open \/ Close \/ Reopen \/ OldSocket \/ Tick \/ Silence

Next ==
    \/ Connect \/ Subscribe \/ Disconnect \/ Heartbeat \/ Sockets
    \/ \E k \in Tasks : Step(k)

\* Sleeps end, tasks are scheduled, and of the sockets the feed makes not every one
\* is replaced before it has opened or closed. Nothing makes an open socket close,
\* a closed one open again or a tick arrive.
OpeningEnds == Open \/ (conn = "opening" /\ Close)

Fairness ==
    /\ WF_vars(Heartbeat) /\ SF_vars(OpeningEnds)
    /\ \A k \in Tasks : WF_vars(Step(k))

Spec == Init /\ [][Next]_vars /\ Fairness

-----------------------------------------------------------------------------
\* The shape of every variable; the heartbeat is in connect exactly when its call
\* is on its way.
TypeOK ==
    /\ mode \in Modes /\ lastTick \in {"none", "fresh", "stale"}
    /\ connected \in BOOLEAN /\ wanted \in BOOLEAN
    /\ down \in BOOLEAN /\ renewed \in BOOLEAN /\ halfway \in BOOLEAN
    /\ conn \in Live \cup {"none", "closed"} /\ old \subseteq Live \cup {"closed"}
    /\ hb \in {"none", "starting", "sleeping", "connecting", "ended"}
    /\ job \in [Tasks -> {"idle", "trying", "waiting", "backoff"}]
    /\ attempt \in [Tasks -> 0..MaxRetries]
    /\ hb = "connecting" <=> job["heartbeat"] # "idle"

\* A feed that counts as connected has a heartbeat that has not ended, whatever
\* connect, disconnect and the threads of the sockets do at the same time, unless
\* the flag was set by a login whose websocket then did not start.
ConnectedIsWatched ==
    connected => halfway \/ hb \in {"starting", "sleeping", "connecting"}

\* A heartbeat left without a connection ends, or makes one.
HeartbeatSettles == hb = "sleeping" /\ ~connected ~> connected \/ hb # "sleeping"

\* A Zerodha feed that has fallen silent under its heartbeat gets a new socket that
\* feeds it, unless a tick comes after all, every attempt fails, or the new socket
\* is closed or disconnected; that the old one closes, or a caller connects too,
\* changes nothing.
SilenceIsRepaired ==
    mode = "zerodha" /\ wanted /\ hb = "sleeping" /\ lastTick = "stale"
        ~> \/ lastTick = "fresh"
           \/ renewed /\ (conn = "feeding" \/ down)
           \/ hb = "connecting" /\ attempt["heartbeat"] = MaxRetries

\* README.md:15, automated failover: a socket that was closed is replaced, unless
\* disconnect is called.
Failover == conn = "closed" ~> conn # "closed"
=============================================================================
