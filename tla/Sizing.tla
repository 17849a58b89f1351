------------------------------- MODULE Sizing -------------------------------
(***************************************************************************)
(* The sizing of one Bitget entry: preflight (service.py) takes a snapshot *)
(* of the market, aligns, rounds and routes the signal's prices, reads the *)
(* open positions and asks plan_live_position (risk/live_policy.py) for    *)
(* the highest leverage at which the order is legal at the venue, inside   *)
(* the margin and stopped out before it is liquidated.  An exact 25/75     *)
(* split that cannot be placed is sized again as one market order.         *)
(*                                                                         *)
(* Prices, quantities and margins are integers: quotients are floored or   *)
(* compared crosswise where the code floors or compares a Decimal.         *)
(***************************************************************************)
EXTENDS Integers, Sequences

CONSTANTS
    Contracts,      \* what the venue may publish for the symbol (SymbolMetadata)
    Requests,       \* what may be asked: a signal of the channel or a manual entry
    Prices,         \* market prices
    Accounts,       \* available USDT and equity of the account
    MarginCap,      \* BITGET_MAX_MARGIN_PER_TRADE_USDT
    AllocationPct,  \* BITGET_ALLOCATION_PCT, in percent
    MarginMode,     \* BITGET_MARGIN_MODE_TYPE: "unset", "PERCENTAGE" or "FIXED_USDT"
    FixedMargin,    \* BITGET_FIXED_MARGIN_USDT
    DefaultLeverage, MinLeverage,   \* BITGET_DEFAULT_LEVERAGE, BITGET_MIN_LEVERAGE
    MaxNormal,      \* max_normal_positions
    Rate,           \* the denominator of rates: mmr, fee and buffer are n / Rate
    FeeRate, Buffer

VARIABLE sizing     \* the entry being sized

sizingVars == <<sizing>>

Unset == 0          \* a maximum the venue does not publish, an argument not given
Lowest  == 5        \* _MIN_LIVE_LEVERAGE
Highest == 20       \* _MAX_LIVE_LEVERAGE

Directions == {"LONG", "SHORT"}

\* A recent signal, one whose window has passed, one that says "market", and the console's.
EntryKinds == {"recent", "late", "here", "market", "limit"}

ASSUME SizingAssumption ==
    /\ Prices \subseteq Nat \ {0} /\ Accounts \subseteq [available: Nat, equity: Nat]
    /\ {MarginCap, AllocationPct, FixedMargin, MaxNormal, Rate} \subseteq Nat \ {0}
    /\ FixedMargin <= MarginCap /\ AllocationPct <= 100
    /\ MarginMode \in {"unset", "PERCENTAGE", "FIXED_USDT"}
    /\ DefaultLeverage \in Lowest..Highest /\ MinLeverage \in Lowest..Highest
    /\ FeeRate \in 0..Rate /\ Buffer \in 1..Rate
    /\ \A c \in Contracts:
           /\ {c.tick, c.step, c.minQty, c.value, c.maxLeverage} \subseteq Nat \ {0}
           /\ {c.minNotional, c.maxQty, c.maxMarketQty} \subseteq Nat
           /\ c.tiers \in Seq([bound: Nat, mmr: 0..Rate])
    /\ Requests \subseteq [kind: EntryKinds, direction: Directions, entry: Nat, stop: Nat,
                            target: Nat, margin: Nat, leverage: Nat]
    \* Percentages and decades of these are exact.
    /\ \A b \in Accounts: b.available % 100 = 0 /\ b.equity % 100 = 0
    /\ \A r \in Requests: \A p \in {r.entry, r.stop, r.target}: p % 10 = 0

Lesser(a, b)  == IF a <= b THEN a ELSE b
Greater(a, b) == IF a >= b THEN a ELSE b

\* How far price is on the winning side of base.
Ahead(direction, price, base) == IF direction = "LONG" THEN price - base ELSE base - price

\* num/den to the nearest tick, half up.
Nearest(num, den, tick) == ((2 * num + den * tick) \div (2 * den * tick)) * tick

\* num/den down to a multiple of step.
DownTo(num, den, step) == (num \div (den * step)) * step

-----------------------------------------------------------------------------
(* Venue metadata and the liquidation guard *)

\* The maintenance rate of the first tier that holds the notional, of the last one beyond all.
SelectMmr(c, notional) ==
    LET holds == {i \in DOMAIN c.tiers: c.tiers[i].bound = Unset \/ notional <= c.tiers[i].bound}
    IN c.tiers[IF holds = {} THEN Len(c.tiers) ELSE CHOOSE i \in holds: \A j \in holds: i <= j].mmr

\* How far the liquidation price is from entry, as a multiple of entry / (leverage * Rate):
\* the margin ratio is 1 / leverage whatever the margin.
LiquidationSpan(c, leverage, notional) == Rate - (SelectMmr(c, notional) + FeeRate) * leverage

\* The stop is between entry and liquidation, Buffer of the way from liquidation at least.
StopBeforeLiquidation(c, direction, leverage, qty, entry, stop) ==
    LET span == entry * LiquidationSpan(c, leverage, entry * qty * c.value)
        lost == Ahead(direction, entry, stop) * leverage * Rate
    IN /\ 0 < lost /\ lost < span
       /\ (span - lost) * Rate >= span * Buffer

-----------------------------------------------------------------------------
(* plan_live_position: o is the order to plan, l a leverage *)

\* Fault: a split is sized on the step of one order.
QuantumOfOne(o) == o.contract.step

Quantum(o) == IF o.split THEN 4 * o.contract.step ELSE o.contract.step

PerQty(o) == o.entry * o.contract.value

RequiredNotional(o) == Greater(o.contract.minNotional, o.contract.minQty * PerQty(o))

\* What the margin buys at l, within what the venue takes of a market and of a limit order.
Affordable(o, l, margin) ==
    LET c == o.contract
        bought == DownTo(margin * l, PerQty(o), Quantum(o))
        market == DownTo(c.maxMarketQty, 1, c.step) * (IF o.split THEN 4 ELSE 1)
        limit  == 4 * (DownTo(c.maxQty, 1, 3 * c.step) \div 3)
        atMarket == IF c.maxMarketQty = Unset THEN bought ELSE Lesser(bought, market)
    IN IF o.split /\ c.maxQty # Unset THEN Lesser(atMarket, limit) ELSE atMarket

\* The wanted quantity within the cap.
EnforceMarginCap(o, l, qty) == Lesser(DownTo(qty, 1, Quantum(o)),
                                      DownTo(o.cap * l, PerQty(o), Quantum(o)))

\* Venue minimum and maximum of one order of the entry at its own price.
ChildLegal(c, qty, price, maximum) ==
    /\ qty >= c.minQty
    /\ qty * price * c.value >= c.minNotional
    /\ maximum = Unset \/ qty <= maximum

\* Both children of a 25/75 split are legal.
SplitLegal(o, qty) ==
    /\ ChildLegal(o.contract, qty \div 4, o.market, o.contract.maxMarketQty)
    /\ ChildLegal(o.contract, 3 * (qty \div 4), o.limit, o.contract.maxQty)

\* Why l is not usable for qty of the wanted quantity, "ok" if it is.
Verdict(o, l, wanted, qty) ==
    IF wanted = 0 \/ qty < o.contract.minQty
    THEN IF o.split /\ ~SplitLegal(o, wanted) THEN "split" ELSE "margin-cap"
    ELSE IF o.split /\ ~SplitLegal(o, qty) THEN "split"
    ELSE IF qty * PerQty(o) < RequiredNotional(o) THEN "min-notional"
    ELSE IF StopBeforeLiquidation(o.contract, o.direction, l, qty, o.entry, o.stop)
    THEN "ok" ELSE "sl-guard"

Tried(o, l, wanted, qty) == [leverage |-> l, qty |-> qty, tag |-> Verdict(o, l, wanted, qty)]
Capped(o, l, wanted) == Tried(o, l, wanted, EnforceMarginCap(o, l, wanted))
PlanAtLeverage(o, l, margin) == Capped(o, l, Affordable(o, l, margin))

LeverageBounds(o) ==
    Greater(Lowest, o.low)..Lesser(Highest, Lesser(o.contract.maxLeverage, o.desired))

NoPlan == [leverage |-> 0, qty |-> 0]

Attempts(o, margin) == {PlanAtLeverage(o, l, margin) : l \in LeverageBounds(o)}

\* The highest usable leverage, walking down.
SelectPlan(tried) ==
    LET usable == {t \in tried : t.tag = "ok"}
        best == CHOOSE t \in usable : \A u \in usable : u.leverage <= t.leverage
    IN IF usable = {} THEN NoPlan ELSE [leverage |-> best.leverage, qty |-> best.qty]

\* A second search with the whole balance helps neither an unsafe stop nor a quantity the cap
\* forbids, and is for the only position.
MayGoAllIn(o, tried) ==
    LET tags == {t.tag : t \in tried}
    IN /\ "sl-guard" \notin tags
       /\ "margin-cap" \in tags => "min-notional" \in tags
       /\ o.active = 0

PlanOrAllIn(o, tried) ==
    IF SelectPlan(tried) = NoPlan /\ MayGoAllIn(o, tried)
    THEN SelectPlan(Attempts(o, Lesser(o.available, o.cap))) ELSE SelectPlan(tried)

PlanLivePosition(o) ==
    IF o.active >= MaxNormal \/ LeverageBounds(o) = {} \/ o.contract.tiers = <<>> THEN NoPlan
    ELSE PlanOrAllIn(o, Attempts(o, Lesser((o.pct * o.available) \div 100, o.cap)))

-----------------------------------------------------------------------------
(* preflight: the prices, the route and the budget the plan is made with *)

\* The channel may quote in another unit: within one decade here, eight in the code.
Scale(r, market) ==
    CASE r.entry * r.entry > 10 * market * market -> <<1, 10>>
      [] 10 * r.entry * r.entry < market * market -> <<10, 1>>
      [] OTHER -> <<1, 1>>

\* The request in the venue's unit, or as it is when that does not fit the market.
Aligned(r, market) ==
    LET s == Scale(r, market)
        In(price) == (price * s[1]) \div s[2]
        scaled == [r EXCEPT !.entry = In(@), !.stop = In(@), !.target = In(@)]
        off == IF scaled.entry > market THEN scaled.entry - market ELSE market - scaled.entry
    IN IF /\ off * 100 <= 35 * market
          /\ Ahead(r.direction, scaled.entry, scaled.stop) > 0
          /\ r.target # Unset => Ahead(r.direction, scaled.target, scaled.entry) > 0
       THEN scaled ELSE r

\* A recent signal whose entry the market has passed is entered 25% now and 75% at its entry.
Splits(r, entry, market) == r.kind = "recent" /\ Ahead(r.direction, market, entry) > 0

SizingPrice(r, entry, market) ==
    CASE Splits(r, entry, market) -> Greater(market, entry)
      [] r.kind = "limit" -> entry
      [] OTHER -> market

\* A signal without target takes one and a half times its risk.
Target(r, price, tick) ==
    LET risk == IF price > r.stop THEN price - r.stop ELSE r.stop - price
        doubled == IF r.direction = "LONG" THEN 2 * price + 3 * risk ELSE 2 * price - 3 * risk
        derived == IF doubled > 0 THEN Nearest(doubled, 2, tick) ELSE 0
    IN CASE r.target # Unset -> Nearest(r.target, 1, tick)
         [] r.target = Unset /\ Ahead(r.direction, derived, price) >= tick -> derived
         [] OTHER -> 0

\* Stop and target clear the price sized at and the signal's entry by a tick after rounding.
PricesClear(r, price, tick) ==
    LET stop == Nearest(r.stop, 1, tick)
        target == Target(r, price, tick)
    IN /\ stop > 0 /\ target > 0
       /\ \A base \in {Nearest(price, 1, tick), Nearest(r.entry, 1, tick)}:
              /\ base > 0
              /\ Ahead(r.direction, base, stop) >= tick
              /\ Ahead(r.direction, target, base) >= tick

ByHand(r) == r.kind \in {"market", "limit"}

\* The margin one trade of this request may take, resolved once.
Allocation(r, balance) ==
    LET budget == CASE MarginMode = "FIXED_USDT" /\ ~ByHand(r) -> FixedMargin
                    [] MarginMode = "PERCENTAGE" /\ ~ByHand(r) ->
                         (balance.equity * AllocationPct) \div 100
                    [] OTHER -> (balance.available * AllocationPct) \div 100
    IN Lesser(budget, Lesser(balance.available, MarginCap))

\* A manual margin or leverage narrows the policy and never widens it.
RequestAllowed(r, c) ==
    /\ r.margin <= MarginCap
    /\ r.leverage = Unset \/ r.leverage \in Lowest..Lesser(Highest, c.maxLeverage)

\* The order the plan is asked for, valued at price.
Order(r, c, s, split, price) ==
    LET desired == IF ByHand(r) THEN Highest ELSE DefaultLeverage
    IN [contract |-> c, direction |-> r.direction, split |-> split,
        entry |-> Nearest(price, 1, c.tick), stop |-> Nearest(r.stop, 1, c.tick),
        market |-> s.price, limit |-> Nearest(r.entry, 1, c.tick),
        cap |-> IF r.margin # Unset THEN r.margin ELSE Allocation(r, s.balance),
        pct |-> IF MarginMode # "unset" /\ ~ByHand(r) THEN 100 ELSE AllocationPct,
        available |-> s.balance.available, active |-> s.active,
        desired |-> IF r.leverage # Unset THEN r.leverage ELSE desired,
        low |-> IF r.leverage # Unset THEN r.leverage ELSE Lesser(MinLeverage, desired)]

\* The children of a split pass the venue's limits once more before the reservation.
RouteLegal(o, plan) ==
    o.split => /\ plan.qty % 4 = 0 /\ (plan.qty \div 4) % o.contract.step = 0
               /\ SplitLegal(o, plan.qty)

-----------------------------------------------------------------------------
(* The entry *)

SizingInit ==
    \E r \in Requests, c \in Contracts:
        sizing = [stage |-> "asked", request |-> r, contract |-> c]

\* venue.preflight: price and balance; prices that do not clear each other are refused.
TakeSnapshot ==
    /\ sizing.stage = "asked"
    /\ \E price \in Prices, balance \in Accounts:
           LET c == sizing.contract
               r == Aligned(sizing.request, price)
               entry == Nearest(r.entry, 1, c.tick)
               ok == /\ balance.available > 0 /\ entry > 0
                     /\ RequestAllowed(r, c)
                     /\ PricesClear(r, SizingPrice(r, entry, price), c.tick)
           IN sizing' = IF ok THEN [stage |-> "seen", request |-> r, contract |-> c,
                                    price |-> price, balance |-> balance]
                        ELSE [stage |-> "refused", request |-> r, contract |-> c]

\* validate_observed_at: the balance or the positions are too old or of the future.
GoStale ==
    /\ sizing.stage = "seen"
    /\ sizing' = [stage |-> "refused", request |-> sizing.request, contract |-> sizing.contract]

\* The orders that may be asked for, the single-leg fallback of a split after it.
OrdersFor(r, c, s, entry) ==
    LET split == Splits(r, entry, s.price)
        routed == Order(r, c, s, split, SizingPrice(r, entry, s.price))
    IN IF split THEN <<routed, Order(r, c, s, FALSE, entry)>> ELSE <<routed>>

\* The first order with a plan passes a last check of its route.
Outcome(r, c, orders, plans) ==
    LET planned == {i \in DOMAIN plans : plans[i] # NoPlan}
        i == CHOOSE i \in planned : \A j \in planned : i <= j
    IN IF planned = {} THEN [stage |-> "refused", request |-> r, contract |-> c]
       ELSE [stage |-> IF RouteLegal(orders[i], plans[i]) THEN "admitted" ELSE "misrouted",
             order |-> orders[i], plan |-> plans[i], request |-> r]

PlanFor(r, c, orders) ==
    Outcome(r, c, orders, [i \in DOMAIN orders |-> PlanLivePosition(orders[i])])

\* active_position_snapshot, then the plan.
PlanEntry ==
    /\ sizing.stage = "seen"
    /\ \E active \in 0..MaxNormal:
           LET r == sizing.request
               c == sizing.contract
               s == [price |-> sizing.price, balance |-> sizing.balance, active |-> active]
           IN sizing' = PlanFor(r, c, OrdersFor(r, c, s, Nearest(r.entry, 1, c.tick)))

SizingNext == TakeSnapshot \/ GoStale \/ PlanEntry

SizingSpec == SizingInit /\ [][SizingNext]_sizingVars

-----------------------------------------------------------------------------
(* Properties *)

\* The orders the venue will get for qty of o: what it takes at most of one of that type and
\* the price its minimum is judged at, the market's and the limit's for a 25/75 split.
PlacedOrders(o, qty) ==
    IF o.split
    THEN {[qty |-> qty \div 4, price |-> o.market, most |-> o.contract.maxMarketQty],
          [qty |-> qty - qty \div 4, price |-> o.limit, most |-> o.contract.maxQty]}
    ELSE {[qty |-> qty, price |-> o.entry, most |-> o.contract.maxMarketQty]}

\* The venue would accept x: on its step, and between its limits.
TakenByVenue(c, x) ==
    /\ x.qty % c.step = 0 /\ x.qty >= c.minQty
    /\ x.qty * x.price * c.value >= c.minNotional
    /\ x.most # Unset => x.qty <= x.most

\* Tier i is the one the venue keeps the margin of notional by: the first that holds it.
KeptBy(c, i, notional) ==
    LET Holds(j) == c.tiers[j].bound = Unset \/ notional <= c.tiers[j].bound
    IN (\A j \in 1..(i - 1): ~Holds(j)) /\ (Holds(i) \/ i = Len(c.tiers))

\* What the stop loses is Buffer short of the margin that may be lost before liquidation: the
\* position's share 1 / l, less maintenance and fee.
StopsOutFirst(o, l, qty) ==
    LET c == o.contract
        notional == o.entry * qty * c.value
        loss == Ahead(o.direction, o.entry, o.stop) * qty * c.value
    IN /\ loss > 0
       /\ \A i \in DOMAIN c.tiers: KeptBy(c, i, notional) =>
            loss * l * Rate * Rate <=
                notional * (Rate - (c.tiers[i].mmr + FeeRate) * l) * (Rate - Buffer)

\* What plan_live_position accepts, all-in and single-leg plans included, the venue takes and
\* the account survives: the notional is within the cap's and the balance's margin at the
\* leverage, every order the venue will get is on its step and between its limits, the
\* leverage is in range, and the stop loses less than the margin can.  The search decides all
\* this on quanta, ratios and one combined quantity; here it is said of the orders and of the
\* money.  What it accepts as a split passes preflight's check of the children (service.py).
PlanIsLegal ==
    /\ sizing.stage # "misrouted"
    /\ sizing.stage = "admitted" =>
           LET o == sizing.order
               c == o.contract
               l == sizing.plan.leverage
               qty == sizing.plan.qty
           IN /\ o.entry * qty * c.value <= MarginCap * l
              /\ o.entry * qty * c.value <= o.available * l
              /\ l \in Lowest..Highest /\ l <= c.maxLeverage
              /\ \A x \in PlacedOrders(o, qty): TakenByVenue(c, x)
              /\ StopsOutFirst(o, l, qty)
              /\ o.active < MaxNormal

\* README.md:131 "Entry is rejected if estimated liquidation price is within 1.5% of the
\* stop-loss price."  It is not: minimum_liquidation_gap_pct stays at its default of zero
\* (models.py:97) and the guard asks for a tenth of the span only.
StopCushion ==
    sizing.stage = "admitted" =>
        LET o == sizing.order
            l == sizing.plan.leverage
            qty == sizing.plan.qty
            span == o.entry * LiquidationSpan(o.contract, l, o.entry * qty * o.contract.value)
            lost == Ahead(o.direction, o.entry, o.stop) * l * Rate
        IN (span - lost) * 1000 >= 15 * o.stop * l * Rate

\* TRADING-RULES.md:9 "fail closed with a clear reason. Do not silently convert the split into
\* a full-market order".  Preflight sizes an infeasible split again as one market order.
SplitIsKept ==
    sizing.stage = "admitted" =>
        (Splits(sizing.request, sizing.order.limit, sizing.order.market) => sizing.order.split)

====
