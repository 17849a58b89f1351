---------------------------- MODULE ConsoleReads ----------------------------
(***************************************************************************)
(* What the console shows of one symbol: the snapshots its worker collects *)
(* from the venue (reads.py, SnapshotCollector), the owner it finds for a  *)
(* position, the creation time it binds to an entry for good               *)
(* (console_position_epochs), and the protection a reader is told of       *)
(* (reads.py, ReadService).                                                *)
(*                                                                         *)
(* The venue is read position first, plans later and the ledger last, and  *)
(* the console worker's trades read it as well (trading.py).  All entries  *)
(* have the same size and side, so size and side tell no two apart.  A     *)
(* stop and a target come and go together.                                 *)
(***************************************************************************)
EXTENDS Naturals, FiniteSets

CONSTANTS
    Roots,         \* client order ids of entries; each fills at most once
    None,
    MaxEpochs,     \* bound: positions opened on the symbol
    ShowsIds       \* does the venue put the ids of the plans on the position row?

ASSUME ReadsAssumption ==
    /\ None \notin Roots
    /\ MaxEpochs \in Nat
    /\ ShowsIds \in BOOLEAN

VARIABLES
    pos,           \* the venue's position and whose plans protect it
    opened,        \* positions opened so far: the epoch of the latest one
    born,          \* [Roots -> epoch]: the position an entry opened, 0 before
    owned,         \* entries whose remaining_owned_quantity is the position's
    reg,           \* [Roots -> epoch]: active rows of fallback_protection
    bound,         \* [Roots -> epoch]: console_position_epochs
    collector,     \* what collect_once holds between its reads
    trade,         \* what a console trade holds between its reads
    lastOk,        \* is the latest snapshot of a kind free of error?
    good,          \* the latest snapshot of a kind that is
    truth          \* history: the position at its latest reading, whose plans rested at the
                   \* latest reading of them, and both as the last collection that came to
                   \* its end had read them

readVars == <<pos, opened, born, owned, reg, bound, collector, trade, lastOk, good, truth>>
venueVars == <<pos, opened, born, owned, reg>>
snapVars == <<lastOk, good>>

Epochs == 0..MaxEpochs
Kinds == {"positions", "plans", "proofs"}
NoPosition == [epoch |-> 0, root |-> None, plans |-> None]
NoRow == [epoch |-> 0, ids |-> None]
NoPlans == [root |-> None, whole |-> FALSE]
Idle == [pc |-> "idle", row |-> NoRow, read |-> FALSE, plans |-> NoPlans]
NoTrade == [root |-> None, row |-> NoRow]
NoPair == <<None, 0>>

-----------------------------------------------------------------------------
(* The venue and the trading system *)

\* The position row of the venue.  The ids may be missing although the plans are there.
Row == [epoch |-> pos.epoch, ids |-> IF ShowsIds THEN pos.plans ELSE None]

\* An entry fills, or (None) somebody opens a position by hand.
OpenPosition(r) ==
    /\ pos.epoch = 0
    /\ opened < MaxEpochs
    /\ opened' = opened + 1
    /\ pos' = [epoch |-> opened', root |-> r, plans |-> None]
    /\ IF r = None
       THEN UNCHANGED <<born, owned>>
       ELSE born[r] = 0 /\ born' = [born EXCEPT ![r] = opened'] /\ owned' = owned \cup {r}
    /\ UNCHANGED <<reg, bound, collector, trade, snapVars, truth>>

\* The plans of an entry, with client order ids made from its own.
PlacePlans ==
    /\ pos.epoch # 0 /\ pos.root # None
    /\ pos' = [pos EXCEPT !.plans = pos.root]
    /\ UNCHANGED <<opened, born, owned, reg, bound, collector, trade, snapVars, truth>>

DropPlans ==
    /\ pos.plans # None
    /\ pos' = [pos EXCEPT !.plans = None]
    /\ UNCHANGED <<opened, born, owned, reg, bound, collector, trade, snapVars, truth>>

ClosePosition ==
    /\ pos.epoch # 0
    /\ pos' = NoPosition
    /\ UNCHANGED <<opened, born, owned, reg, bound, collector, trade, snapVars, truth>>

\* The exit of an entry is booked, which may be long after it.
BookExit(r) ==
    /\ r \in owned /\ pos.root # r
    /\ owned' = owned \ {r}
    /\ reg' = [reg EXCEPT ![r] = 0]
    /\ UNCHANGED <<pos, opened, born, bound, collector, trade, snapVars, truth>>

\* A fallback registration carries the epoch that was read with it.
RegisterFallback(r) ==
    /\ pos.root = r /\ reg[r] = 0
    /\ reg' = [reg EXCEPT ![r] = pos.epoch]
    /\ UNCHANGED <<pos, opened, born, owned, bound, collector, trade, snapVars, truth>>

-----------------------------------------------------------------------------
(* Ownership *)

TheOnly(S) == IF Cardinality(S) = 1 THEN CHOOSE r \in S: TRUE ELSE None

\* Plans of entry r that do not contradict the ids on the row.
PlansMatch(row, planRoot, r) == planRoot = r /\ row.ids \in {None, r}

\* native_position_owner: by the recorded epoch or, before there is one, by the plans.
NativeOwner(row, planRoot) ==
    TheOnly({r \in owned: IF bound[r] # 0 THEN bound[r] = row.epoch
                                          ELSE PlansMatch(row, planRoot, r)})

\* exact_position_owner: by an active fallback registration of this epoch.
ExactOwner(row) == TheOnly({r \in Roots: reg[r] # 0 /\ reg[r] = row.epoch})

Owner(row, planRoot) ==
    CASE row.epoch = 0 -> None
      [] NativeOwner(row, planRoot) # None -> NativeOwner(row, planRoot)
      [] OTHER -> ExactOwner(row)

\* INSERT ... ON CONFLICT DO NOTHING
Bind(r, epoch) == [bound EXCEPT ![r] = IF @ = 0 THEN epoch ELSE @]

\* _open of a console trade binds what it reads when its entry is done.
BindAtEntry(r) ==
    /\ born[r] # 0 /\ pos.epoch # 0
    /\ bound[r] = 0
    /\ bound' = Bind(r, pos.epoch)
    /\ UNCHANGED <<venueVars, collector, trade, snapVars, truth>>

\* _position of a console trade: first the position, with the size of entry r,
TradeReads(r) ==
    /\ trade.root = None
    /\ pos.epoch # 0 /\ r \in owned
    /\ trade' = [root |-> r, row |-> Row]
    /\ UNCHANGED <<venueVars, bound, collector, snapVars, truth>>

\* then the plans; a trade that is not proved by plans or registration binds nothing.
TradeBinds ==
    LET r == trade.root
    IN  /\ r # None
        /\ bound' = IF PlansMatch(trade.row, pos.plans, r) \/ reg[r] = trade.row.epoch
                    THEN Bind(r, trade.row.epoch) ELSE bound
        /\ trade' = NoTrade
        /\ UNCHANGED <<venueVars, collector, snapVars, truth>>

-----------------------------------------------------------------------------
(* The collector *)

\* put_snapshot, with an error or without.
Put(kind, ok, data) ==
    /\ lastOk' = [lastOk EXCEPT ![kind] = ok]
    /\ good' = IF ok THEN [good EXCEPT ![kind] = data] ELSE good

\* The account could not be identified: every kind gets an error.
Unidentified ==
    /\ collector.pc = "idle"
    /\ lastOk' = [k \in Kinds |-> FALSE]
    /\ truth' = [epoch |-> 0, seen |-> None, last |-> NoPair]
    /\ UNCHANGED <<venueVars, bound, collector, trade, good>>

\* _observe("positions")
ObservePositions(ok) ==
    /\ collector.pc = "idle"
    /\ Put("positions", ok, Row)
    /\ collector' = [Idle EXCEPT !.pc = "plans", !.read = ok, !.row = IF ok THEN Row ELSE NoRow]
    /\ truth' = [truth EXCEPT !.epoch = IF ok THEN pos.epoch ELSE 0]
    /\ UNCHANGED <<venueVars, bound, trade>>

\* The plans of the symbol.  A failed read leaves an empty list, and is an error of the
\* snapshot only when there is neither a position nor a plan.
ObservePlans(ok) ==
    LET planRoot == IF ok THEN pos.plans ELSE None
        whole == ok /\ collector.read
    IN  /\ collector.pc = "plans"
        /\ Put("plans", collector.read \/ planRoot # None, planRoot)
        /\ collector' = [collector EXCEPT !.pc = "prove",
              !.plans = [root |-> planRoot, whole |-> whole]]
        /\ truth' = [truth EXCEPT !.seen = IF whole THEN pos.plans ELSE None]
        /\ UNCHANGED <<venueVars, bound, trade>>

\* confirm_native_protection on what was read: both legs, by client order id and by the
\* ids on the row, if there are any, in a plan list that is whole.
Confirmed(row, plans, r) == plans.whole /\ PlansMatch(row, plans.root, r)

\* _collect_protection: bind the owner's epoch, and prove only what is bound to it.
CollectProtection(ok) ==
    LET row == collector.row
        r == Owner(row, collector.plans.root)
    IN  /\ collector.pc = "prove"
        \* A failure may come before the binding or behind it.
        /\ \E binds \in {ok, TRUE}:
              bound' = IF binds /\ r # None THEN Bind(r, row.epoch) ELSE bound
        /\ Put("proofs", ok /\ collector.read,
               IF r # None /\ bound'[r] = row.epoch /\ Confirmed(row, collector.plans, r)
               THEN <<r, row.epoch>> ELSE NoPair)
        /\ collector' = Idle
        /\ truth' = [truth EXCEPT !.last = <<truth.seen, truth.epoch>>]
        /\ UNCHANGED <<venueVars, trade>>

\* The worker cancels a collection after a minute, most of which _collect_market may take, or
\* dies in it: the snapshots that it put stay, beside the proofs of an earlier one.
StopCollection ==
    /\ collector.pc # "idle"
    /\ collector' = Idle
    /\ UNCHANGED <<venueVars, bound, trade, snapVars, truth>>

-----------------------------------------------------------------------------
(* The reader *)

\* Fault: the last known snapshots do as well.
FreshAnyway == TRUE

\* _positions drops the proof when one of the three is only last known.
Fresh == \A k \in Kinds: lastOk[k]

\* _positions: the row of the protection page says VENUE_PROTECTED of this entry and epoch.
ShownProtected ==
    LET row == good["positions"]
        r == Owner(row, good["plans"])
    IN  IF r # None /\ good["proofs"] = <<r, row.epoch>> /\ Fresh
        THEN <<r, row.epoch>> ELSE NoPair

-----------------------------------------------------------------------------
ReadsInit ==
    /\ pos = NoPosition
    /\ opened = 0
    /\ born = [r \in Roots |-> 0]
    /\ owned = {}
    /\ reg = [r \in Roots |-> 0]
    /\ bound = [r \in Roots |-> 0]
    /\ collector = Idle
    /\ trade = NoTrade
    /\ lastOk = [k \in Kinds |-> FALSE]
    /\ good = [positions |-> NoRow, plans |-> None, proofs |-> NoPair]
    /\ truth = [epoch |-> 0, seen |-> None, last |-> NoPair]

ReadsNext ==
    \/ \E r \in Roots \cup {None}: OpenPosition(r)
    \/ PlacePlans \/ DropPlans \/ ClosePosition
    \/ TradeBinds \/ Unidentified \/ StopCollection
    \/ \E r \in Roots: BookExit(r) \/ RegisterFallback(r) \/ BindAtEntry(r) \/ TradeReads(r)
    \/ \E ok \in BOOLEAN: ObservePositions(ok) \/ ObservePlans(ok) \/ CollectProtection(ok)

ReadsSpec == ReadsInit /\ [][ReadsNext]_readVars

-----------------------------------------------------------------------------
(* Correctness *)

\* Type invariant.
ReadsTypeOK ==
    LET rowType == [epoch: Epochs, ids: Roots \cup {None}]
        pairType == (Roots \cup {None}) \X Epochs
    IN  /\ pos \in [epoch: Epochs, root: Roots \cup {None}, plans: Roots \cup {None}]
        /\ opened \in Epochs
        /\ {born, reg, bound} \subseteq [Roots -> Epochs]
        /\ owned \subseteq Roots
        /\ collector \in [pc: {"idle", "plans", "prove"}, row: rowType, read: BOOLEAN,
                          plans: [root: Roots \cup {None}, whole: BOOLEAN]]
        /\ trade \in [root: Roots \cup {None}, row: rowType]
        /\ lastOk \in [Kinds -> BOOLEAN]
        /\ good \in [positions: rowType, plans: Roots \cup {None}, proofs: pairType]
        /\ truth \in [epoch: Epochs, seen: Roots \cup {None}, last: pairType]

\* An entry and a position that are shown as protected are those that the last collection
\* that came to its end had read, with all the plans of the entry in a list that was whole: no
\* failed read and no account that could not be identified is covered up (last_known and the
\* proof in _positions).  Plans that were read since by a collection that was stopped are not
\* looked at: see ShownByItsPlans.
ShownProtectionIsTrue == ShownProtected # NoPair => ShownProtected = truth.last

\* The claim of docs/BOT-CONSOLE-UI-API-SPEC.md:46, "Missing, malformed, stale, or failed reads
\* must never prove ... protection": an entry that the page calls protected has its plans in
\* the list of plans that the page shows beside it.
ShownByItsPlans == ShownProtected # NoPair => good["plans"] = ShownProtected[1]

\* The claim of docs/TRADING-RULES.md:95, "Immutable provider epochs can be recorded only from
\* initial owned entry readback or already-proved native/fallback ownership; they are not an
\* external-position adoption path": the creation time that is bound to an entry, for good, is
\* that of the position which the entry opened.
BoundEpochIsOwn == \A r \in Roots: bound[r] \in {0, born[r]}

=============================================================================
