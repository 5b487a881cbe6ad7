------------------------------ MODULE Exposure ------------------------------
(* PreTradeChecker.check of risk/pre_trade.py against the positions in Redis,   *)
(* which the fills change: a signal is compared with an exposure that was added *)
(* up key by key, and is booked only when its order has filled.                 *)
EXTENDS Integers, FiniteSets, Functions

CONSTANTS
    Signals,        \* signals that are checked
    Keys,           \* position:<strategy>:<symbol>
    Order,          \* Order[s]: the key, the signed qty and the expected_price
    Prices,         \* fill_price
    Powers,         \* portfolio:buying_power
    MaxGross,       \* max_gross_exposure_inr
    MaxSingle,      \* max_single_order_inr
    MaxPosition,    \* MaxPosition[k]: max_position_inr of the key's strategy
    Buffer          \* min_buying_power_buffer_pct

ASSUME ExposureAssumption ==
    /\ IsFiniteSet(Signals) /\ IsFiniteSet(Keys)
    /\ Order \in [Signals -> [key : Keys, qty : Int, price : Nat]]
    /\ Prices \subseteq Nat /\ Powers \subseteq Nat /\ 0 \in Powers
    /\ {MaxGross, MaxSingle} \subseteq Nat /\ MaxPosition \in [Keys -> Nat]
    /\ Buffer \in 0..100

VARIABLES
    position,   \* position[k]: qty and avg_price, 0 as long as there is no document
    power,      \* the buying power
    check,      \* check[s]: where the signal stands, the keys its check has yet to read,
                \* and what was read: the sum so far, or the qty that on_fill found
    booked,     \* history: the last signal that was booked, as a set
    overlap,    \* history: overlap[s]: signals booked since the exposure of s was added up
    astray      \* history: the documents no longer tell the exposure, or tell one
                \* that rests on a higher price than was expected

exposureVars == <<position, power, check, booked, overlap, astray>>

Step(pc, left, gross) == [pc |-> pc, left |-> left, gross |-> gross]
At(s, pc) == check[s].pc = pc
Moves(s, pc) == check' = [check EXCEPT ![s] = Step(pc, {}, 0)]
UNREAD == <<position, power, booked, overlap, astray>>

ExposureInit ==
    /\ position = [k \in Keys |-> [qty |-> 0, price |-> 0]]
    /\ power = 0
    /\ check = [s \in Signals |-> Step("new", {}, 0)]
    /\ booked = {} /\ overlap = [s \in Signals |-> {}] /\ astray = FALSE

-----------------------------------------------------------------------------
Abs(i) == IF i < 0 THEN -i ELSE i
Value(s) == Abs(Order[s].qty) * Order[s].price
Held(k) == Abs(position[k].qty) * position[k].price
Gross == SumFunctionOnSet([k \in Keys |-> Held(k)], Keys)

\* The switch is on or the market is closed; later, an await of the check raises.
Refuse(s) ==
    /\ check[s].pc \in {"new", "power", "scan", "adv", "limit"}
    /\ Moves(s, "rejected") /\ UNCHANGED UNREAD

\* The size of the order, before the buying power is awaited.
CheckSize(s) ==
    /\ At(s, "new")
    /\ Moves(s, IF Value(s) > MaxSingle THEN "rejected" ELSE "power")
    /\ UNCHANGED UNREAD

\* get_buying_power; the scan of the positions begins.
CheckPower(s) ==
    /\ At(s, "power")
    /\ check' = [check EXCEPT ![s] =
          IF Value(s) * 100 > power * (100 - Buffer)
          THEN Step("rejected", {}, 0) ELSE Step("scan", Keys, 0)]
    /\ overlap' = [overlap EXCEPT ![s] = {}]
    /\ UNCHANGED <<position, power, booked, astray>>

\* Slip: the order itself is not added.
FitsWithout(s, gross) == gross <= MaxGross

Fits(s, gross) == gross + Value(s) <= MaxGross

\* _get_gross_exposure reads one key; after the last the sum is compared.
ReadPosition(s, k) ==
    /\ At(s, "scan") /\ k \in check[s].left
    /\ LET left == check[s].left \ {k}
           gross == check[s].gross + Held(k)
       IN  check' = [check EXCEPT ![s] =
             IF left # {} THEN Step("scan", left, gross)
             ELSE IF Fits(s, gross) THEN Step("adv", {}, 0) ELSE Step("rejected", {}, 0)]
    /\ UNCHANGED UNREAD

\* SCAN may return a key more than once: the sum only grows. From MaxGross on it
\* makes no difference.
ReadPositionAgain(s, k) ==
    /\ At(s, "scan") /\ k \in check[s].left /\ check[s].gross <= MaxGross
    /\ check' = [check EXCEPT ![s] = Step("scan", @.left, @.gross + Held(k))]
    /\ UNCHANGED UNREAD

\* _get_adv: cached, queried, or 0 when the query fails, which skips the limit.
CheckAdv(s) ==
    /\ At(s, "adv")
    /\ \/ Moves(s, "limit")
       \/ Moves(s, "rejected")
    /\ UNCHANGED UNREAD

\* The limit of the strategy, after its profit was awaited and not used.
CheckStrategyLimit(s) ==
    /\ At(s, "limit")
    /\ Moves(s, IF Value(s) > MaxPosition[Order[s].key] THEN "rejected" ELSE "approved")
    /\ UNCHANGED UNREAD

-----------------------------------------------------------------------------
\* The order has filled: on_fill reads the position.
Fill(s) ==
    /\ At(s, "approved")
    /\ check' = [check EXCEPT ![s] = Step("filled", {}, position[Order[s].key].qty)]
    /\ UNCHANGED UNREAD

\* It writes what it has read and the fill, whatever was written meanwhile: the
\* last fill's price stands for the whole position.
WriteFill(s, p) ==
    /\ At(s, "filled") /\ Moves(s, "done")
    /\ LET o == Order[s]
           old == position[o.key]
       IN  /\ position' = [position EXCEPT ![o.key] = [qty |-> check[s].gross + o.qty, price |-> p]]
           /\ astray' = (\/ astray \/ old.qty # check[s].gross \/ p > o.price
                         \/ old.qty # 0 /\ p > old.price)
    /\ overlap' = [t \in Signals |->
                     IF check[t].pc \in {"scan", "adv", "limit", "approved", "filled"} /\ t # s
                     THEN overlap[t] \cup {s} ELSE overlap[t]]
    /\ booked' = {s}
    /\ UNCHANGED power

\* The order is rejected, or cancelled before it fills.
NoFill(s) == At(s, "approved") /\ Moves(s, "done") /\ UNCHANGED UNREAD

\* One of its two awaits raises, or the fill never reaches it: nothing is booked.
FillIsLost(s) ==
    /\ check[s].pc \in {"approved", "filled"} /\ Moves(s, "done")
    /\ astray' = TRUE
    /\ UNCHANGED <<position, power, booked, overlap>>

\* A position that did not change for POSITION_TTL.
PositionExpires(k) ==
    /\ position[k].qty # 0 /\ ~astray
    /\ position' = [position EXCEPT ![k] = [qty |-> 0, price |-> 0]]
    /\ astray' = TRUE
    /\ UNCHANGED <<power, check, booked, overlap>>

SetBuyingPower(amount) ==
    /\ power' = amount /\ amount # power
    /\ UNCHANGED <<position, check, booked, overlap, astray>>

CheckStep(s) ==
    \/ CheckSize(s) \/ CheckPower(s) \/ CheckAdv(s) \/ CheckStrategyLimit(s) \/ Refuse(s)
    \/ \E k \in Keys : ReadPosition(s, k) \/ ReadPositionAgain(s, k)

ExposureNext ==
    \/ \E s \in Signals : CheckStep(s) \/ NoFill(s) \/ Fill(s) \/ FillIsLost(s)
    \/ \E s \in Signals, p \in Prices : WriteFill(s, p)
    \/ \E k \in Keys : PositionExpires(k)
    \/ \E amount \in Powers : SetBuyingPower(amount)

ExposureSpec == ExposureInit /\ [][ExposureNext]_exposureVars

-----------------------------------------------------------------------------
Worth(signals) == SumFunctionOnSet([s \in Signals |-> Value(s)], signals)

\* The gross exposure is at most its limit plus the orders that were booked while
\* the last one was on its way from its check to its booking, as long as no fill was
\* dearer than expected, no held position has expired, and no fill of a position was
\* lost or overwritten by another.
ExposureBounded ==
    astray \/ \A s \in booked : Gross <= MaxGross + Worth(overlap[s])
=============================================================================
