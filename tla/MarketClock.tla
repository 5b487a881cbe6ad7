---------------------------- MODULE MarketClock ----------------------------
(* core/clock.py, in minutes from the midnight before a Monday: how long a      *)
(* caller is told to wait for the opening, and what the sessions say meanwhile. *)
EXTENDS Integers

CONSTANTS
    Holidays,       \* days, numbered from that Monday
    LastDay         \* bound of the model

ASSUME ClockAssumption == Holidays \subseteq Nat /\ LastDay \in Nat

VARIABLE now
clockVars == <<now>>

Day == 24 * 60
PreOpen == 9 * 60
NseOpen == 9 * 60 + 15
NseClose == 15 * 60 + 30
\* datetime(..., tzinfo=IST) takes the first offset that pytz has for Kolkata,
\* local mean time, 5:53 instead of 5:30.
LocalMeanTime == 23

Date(t) == t \div Day
TimeOf(t) == t % Day
TradingDay(d) == d % 7 < 5 /\ d \notin Holidays

\* config/instruments.yaml: the market is never closed for a week.
ASSUME NeverClosedForAWeek ==
    \A h \in Holidays : \A d \in h-7..h-1 : d >= 0 => \E e \in d+1..d+7 : TradingDay(e)

IsMarketOpen(t) == TradingDay(Date(t)) /\ NseOpen <= TimeOf(t) /\ TimeOf(t) < NseClose

\* Slip: the holidays are not asked.
NextWeekday(d) ==
    LET next[e \in Nat] == IF e % 7 < 5 THEN e ELSE next[e + 1]
    IN  next[d + 1]

NextTradingDay(d) ==
    LET next[e \in Nat] == IF TradingDay(e) THEN e ELSE next[e + 1]
    IN  next[d + 1]

\* Before today's 9:15 that is the opening, whatever day it is.
MinutesToOpen(t) ==
    IF TimeOf(t) < NseOpen THEN NseOpen - TimeOf(t)
    ELSE NextTradingDay(Date(t)) * Day + NseOpen - LocalMeanTime - t

MinutesToClose(t) == IF TimeOf(t) >= NseClose THEN 0 ELSE NseClose - TimeOf(t)

Session(t) ==
    IF Date(t) % 7 >= 5 THEN "weekend"
    ELSE IF Date(t) \in Holidays THEN "holiday"
    ELSE IF PreOpen <= TimeOf(t) /\ TimeOf(t) < NseOpen THEN "pre_open"
    ELSE IF IsMarketOpen(t) THEN "continuous"
    ELSE "post_close"

-----------------------------------------------------------------------------
ClockInit == now \in 0..LastDay * Day

\* A caller sleeps as long as it is told, or asks later.
WaitForOpen == now' = now + MinutesToOpen(now) /\ now <= LastDay * Day
PassMinute == now' = now + 1 /\ now <= LastDay * Day
ClockNext == WaitForOpen \/ PassMinute

ClockSpec == ClockInit /\ [][ClockNext]_clockVars

-----------------------------------------------------------------------------
\* The first 9:15 of a trading day after t.
OpenDays(t) == {d \in Date(t)..Date(t) + 7 : TradingDay(d) /\ d * Day + NseOpen > t}
FirstOpening(t) == (CHOOSE d \in OpenDays(t) : \A e \in OpenDays(t) : d <= e) * Day + NseOpen

\* Who waits as long as he is told comes out at the next opening of the market or
\* earlier, never past it: 23 minutes early when he asked after the day's 9:15, and
\* at the 9:15 of a day without trading when he asked before it. In the session, no
\* wait ends before the close.
WaitIsRight ==
    LET woken == now + MinutesToOpen(now)
    IN  /\ now < woken /\ woken <= FirstOpening(now)
        /\ \/ woken = FirstOpening(now)
           \/ woken = FirstOpening(now) - LocalMeanTime /\ TimeOf(now) >= NseOpen
           \/ ~TradingDay(Date(now)) /\ TimeOf(now) < NseOpen
                /\ Date(woken) = Date(now)
        /\ Session(now) = "continuous" => now + MinutesToClose(now) < woken
=============================================================================
