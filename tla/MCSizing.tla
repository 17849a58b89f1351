------------------------------ MODULE MCSizing ------------------------------
(***************************************************************************)
(* Small orders for TLC: entries at 2000 (or quoted ten times as high) on a *)
(* symbol with a tick of 20, stops that need a lower leverage or not, and *)
(* venue limits that a split, a quarter of it or the whole order may miss. *)
(***************************************************************************)
EXTENDS Sizing

Contract(step, minNotional, maxQty, maxMarketQty, maxLeverage) ==
    [tick |-> 20, step |-> step, minQty |-> 1, value |-> 1, minNotional |-> minNotional,
     maxQty |-> maxQty, maxMarketQty |-> maxMarketQty, maxLeverage |-> maxLeverage,
     tiers |-> <<[bound |-> 6000, mmr |-> 1], [bound |-> Unset, mmr |-> 2]>>]

MCContracts ==
    {Contract(step, minNotional, maxQty, maxMarketQty, 50):
        step \in {1, 2}, minNotional \in {1000, 2500}, maxQty \in {Unset, 5},
        maxMarketQty \in {Unset, 1}}
    \cup {Contract(1, 1000, Unset, Unset, 10)}

Ask(kind, direction, unit, entry, loss, margin, leverage) ==
    LET sign == IF direction = "LONG" THEN 1 ELSE -1
    IN [kind |-> kind, direction |-> direction, entry |-> entry * unit, margin |-> margin,
        stop |-> (entry - sign * loss) * unit,
        target |-> IF unit = 1 THEN Unset ELSE (entry + sign * 200) * unit,
        leverage |-> leverage]

MCRequests ==
    {Ask(kind, direction, 1, entry, loss, Unset, Unset):
        kind \in {"recent", "late", "here"}, direction \in Directions,
        entry \in {2000, 2030}, loss \in {50, 100}}
    \cup {Ask("recent", direction, 10, 2000, loss, Unset, Unset):
        direction \in Directions, loss \in {50, 100}}
    \cup {Ask(kind, direction, 1, 2000, loss, margin, leverage):
        kind \in {"market", "limit"}, direction \in Directions, loss \in {50, 100},
        margin \in {Unset, 500}, leverage \in {Unset, 10}}

MCAccounts == {[available |-> 4000, equity |-> 4000], [available |-> 600, equity |-> 4000],
               [available |-> 1000, equity |-> 1000]}

====
