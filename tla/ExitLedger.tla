----------------------------- MODULE ExitLedger -----------------------------
(***************************************************************************)
(* How the close of one filled entry is accounted for: the CLOSE rows of   *)
(* live_order_intents, their bindings to the entry's reservation, the      *)
(* fills table, the release of the margin and the settlement of the        *)
(* dispatch.                                                               *)
(*                                                                         *)
(* A position is closed by one of our plans, which the venue executes as   *)
(* an order of its own (native_close.py), by a close we requested          *)
(* (verified_closes.py) or by the owner's hand                             *)
(* (provider_fill_reconciliation.py).  The monitor walks the venue's fills *)
(* while recovery, in the dispatcher's process, resolves the same plan's   *)
(* close; each transaction and each read is a step of its own.             *)
(***************************************************************************)
EXTENDS Integers, Sequences, FiniteSets, FiniteSetsExt

CONSTANTS
    EntryFill,      \* filled_qty of the entry
    EarlierCloses,  \* filled_qty of the symbol's close rows of trades before this one
    PlanCloses,     \* may a plan close at the venue?
    WholePlans,     \* does a plan's order fill at once?
    HandCloses,     \* may the owner close at the venue?
    Requests,       \* does this system request closes?
    RecoveryRuns,   \* does recovery resolve and settle beside the monitor?
    SettlesAbsent,  \* does it settle unknown closes of a flat symbol?
    DetailFails,    \* may the read of an executed order fail?
    MaxExitDeaths   \* bound: processes that die between two transactions

ASSUME ExitAssumption ==
    /\ EntryFill \in Nat \ {0} /\ {EarlierCloses, MaxExitDeaths} \subseteq Nat
    /\ {PlanCloses, WholePlans, HandCloses, Requests, RecoveryRuns, SettlesAbsent, DetailFails} \subseteq BOOLEAN

VARIABLES
    trades,      \* the venue: what is open, the fills that closed the rest, oldest first
    closeRow,    \* CLOSE rows of live_order_intents, and their bindings
    book,        \* table fills: the row each venue fill and each derived fill is kept for
    margin,      \* state of the entry's reservation
    lifecycle,   \* has recovery settled the dispatch as CLOSED?
    writer,      \* where monitor and recovery stand
    verifier,    \* a pass of verified_closes.reconcile
    readback,    \* a status read of the requested close, not yet written
    closer,      \* the process that requests a close
    exitDeaths

exitVars == <<trades, closeRow, book, margin, lifecycle, writer, verifier, readback, closer, exitDeaths>>

FillIds == 1..EntryFill
Native == 0                      \* <root>-native-close
Requested == -1                  \* a close of the bot, the console or the operator
RowIds == {Native, Requested} \cup FillIds   \* and provider-bitget-<digest>, one per fill
Nobody == -2
ExitOrders == {"plan", "requested", "hand"}
Writers == {"monitor", "recovery"}

NoClose == [state |-> "none", requested |-> 0, filled |-> 0, ids |-> {}, order |-> FALSE, bound |-> FALSE]
IdleWriter == [pc |-> "idle", fill |-> 0, last |-> 0, held |-> NoClose]
IdleVerifier == [pc |-> "idle", row |-> Native, evidence |-> {}]
NoStatus == [pc |-> "idle", filled |-> 0, ids |-> {}, state |-> "none"]

ExitInit ==
    /\ trades = [open |-> EntryFill, fills |-> <<>>, resting |-> FALSE]
    /\ closeRow = [r \in RowIds |-> NoClose]
    /\ book = [owner |-> [k \in FillIds |-> Nobody], derived |-> [o \in ExitOrders |-> Nobody]]
    /\ margin = "consumed"
    /\ lifecycle = "open"
    /\ writer = [w \in Writers |-> IdleWriter]
    /\ verifier = IdleVerifier
    /\ readback = NoStatus
    /\ closer = [pc |-> "idle", strict |-> TRUE]
    /\ exitDeaths = 0

Executed == DOMAIN trades.fills
FillQty(S) == MapThenSumSet(LAMBDA k: trades.fills[k].qty, S)
FillsOf(order) == {k \in Executed: trades.fills[k].order = order}

----------------------------------------------------------------------------
(* The venue.                                                              *)

\* Part of the position is closed.  An exit of the owner or of a plan may carry the marks of
\* an external one.
VenueCloses(order, qty, external) ==
    /\ qty \in 1..trades.open
    /\ order = "requested" => /\ trades.resting /\ ~external
                              /\ FillQty(FillsOf("requested")) + qty <= closeRow[Requested].requested
    /\ order = "plan" => PlanCloses /\ (WholePlans => qty = trades.open)
    /\ order = "hand" => HandCloses
    /\ trades' = [trades EXCEPT !.open = @ - qty,
                                !.fills = Append(@, [order |-> order, qty |-> qty, external |-> external])]
    /\ UNCHANGED <<closeRow, book, margin, lifecycle, writer, verifier, readback, closer, exitDeaths>>

----------------------------------------------------------------------------
(* The store: what update and its two inserts leave behind.                *)

OrderOf(r) == CASE r = Native -> "plan" [] r = Requested -> "requested" [] OTHER -> trades.fills[r].order

\* update never writes requested_qty.  A fill stays with the row it was first booked for.
Rewritten(r, rec) ==
    [closeRow EXCEPT ![r].state = rec.state, ![r].filled = rec.filled, ![r].ids = rec.ids,
                     ![r].order = @ \/ rec.order]

BookedFor(r) == {k \in FillIds: book.owner[k] = r}

\* Bug: the provisional row is not taken back.
BookedBeside(r, rec, S) ==
    [owner |-> [k \in FillIds |-> IF k \in S /\ book.owner[k] = Nobody THEN r ELSE book.owner[k]],
     derived |-> [o \in ExitOrders |->
                    IF rec.state = "filled" /\ S = {} /\ o = OrderOf(r) /\ book.derived[o] = Nobody
                    THEN r ELSE book.derived[o]]]

\* insert_provider_fills, then insert_status_derived_fill: a provisional row for a filled
\* intent without any, gone with the first real fill.
Booked(r, rec, S) ==
    LET owner == [k \in FillIds |-> IF k \in S /\ book.owner[k] = Nobody THEN r ELSE book.owner[k]]
        real == \E k \in FillIds: owner[k] = r
        kept == [o \in ExitOrders |-> IF S # {} /\ real /\ book.derived[o] = r THEN Nobody ELSE book.derived[o]]
        lacks == /\ rec.state = "filled" /\ rec.filled > 0
                 /\ ~real /\ \A o \in ExitOrders: kept[o] # r
    IN  [owner |-> owner,
         derived |-> [o \in ExitOrders |->
                        IF lacks /\ o = OrderOf(r) /\ kept[o] = Nobody THEN r ELSE kept[o]]]

\* Exact: the row's quantity is the sum of the real fills it names, each of them its own.
Exact(r) ==
    LET c == closeRow[r]
    IN  /\ c.order /\ c.ids \subseteq BookedFor(r)
        /\ c.filled = FillQty(c.ids)

\* Bug: the row's own quantity is taken for its fills.
RemainingByRows ==
    EntryFill - MapThenSumSet(LAMBDA r: closeRow[r].filled, {r \in RowIds: closeRow[r].bound})

\* remaining_owned_quantity, or -1 where it raises.
Remaining ==
    LET bound == {r \in RowIds: closeRow[r].bound /\ closeRow[r].filled > 0}
        closed == MapThenSumSet(LAMBDA r: closeRow[r].filled, bound)
    IN  IF (\A r \in bound: Exact(r)) /\ closed <= EntryFill THEN EntryFill - closed ELSE -1

----------------------------------------------------------------------------
(* native_close.py: reconcile_native_plan_close, for monitor and recovery. *)

Took(w, pc) == [writer EXCEPT ![w].pc = pc]

NextFill == IF writer["monitor"].fill < writer["monitor"].last
            THEN [writer EXCEPT !["monitor"] = [@ EXCEPT !.pc = "fill", !.fill = @ + 1, !.held = NoClose]]
            ELSE [writer EXCEPT !["monitor"] = IdleWriter]

\* What the monitor does with a fill that is not bound as our plan's.
NotOurs == IF trades.fills[writer["monitor"].fill].external THEN Took("monitor", "exit") ELSE NextFill

\* _reconcile_provider_exits reads the fills and takes them one by one.
ListFills ==
    /\ writer["monitor"].pc = "idle" /\ Executed # {}
    /\ writer' = [writer EXCEPT !["monitor"] = [IdleWriter EXCEPT
                    !.pc = "fill", !.fill = 1, !.last = Len(trades.fills)]]
    /\ UNCHANGED <<trades, closeRow, book, margin, lifecycle, verifier, readback, closer, exitDeaths>>

\* bind_native_plan_close_from_fill: the executed order names our plan, or it is somebody
\* else's, too old to ask for, or cannot be read.
AskOrder ==
    /\ writer["monitor"].pc = "fill"
    /\ LET ours == trades.fills[writer["monitor"].fill].order = "plan"
       IN  \/ ours /\ writer' = Took("monitor", "claim")
           \/ (~ours \/ DetailFails) /\ writer' = NotOurs
    /\ UNCHANGED <<trades, closeRow, book, margin, lifecycle, verifier, readback, closer, exitDeaths>>

\* resolve_native_plan_close takes the newest fill whose order it can read and owns.
ResolveNewest ==
    /\ RecoveryRuns /\ lifecycle = "open"
    /\ writer["recovery"].pc = "idle"
    /\ \/ /\ FillsOf("plan") = {} \/ DetailFails
          /\ writer' = Took("recovery", "count")
       \/ \E k \in FillsOf("plan"):
            /\ DetailFails \/ k = Max(FillsOf("plan"))
            /\ writer' = [writer EXCEPT !["recovery"].pc = "claim", !["recovery"].fill = k]
    /\ UNCHANGED <<trades, closeRow, book, margin, lifecycle, verifier, readback, closer, exitDeaths>>

CloseOf(w) == [state |-> "filled", requested |-> trades.fills[writer[w].fill].qty,
               filled |-> trades.fills[writer[w].fill].qty, ids |-> {writer[w].fill},
               order |-> TRUE, bound |-> FALSE]

\* claim inserts the quantity, but not yet the ids of the fills.
ClaimNative(w) ==
    /\ writer[w].pc = "claim"
    /\ \/ /\ closeRow[Native].state = "none"
          /\ closeRow' = [closeRow EXCEPT ![Native] = [CloseOf(w) EXCEPT !.ids = {}]]
          /\ writer' = [writer EXCEPT ![w].pc = "update", ![w].held = CloseOf(w)]
       \/ closeRow[Native].state # "none" /\ writer' = Took(w, "get") /\ UNCHANGED closeRow
    /\ UNCHANGED <<trades, book, margin, lifecycle, verifier, readback, closer, exitDeaths>>

\* A fill the row does not name yet is added to what it says.
MergeNative(w) ==
    /\ writer[w].pc = "get"
    /\ LET c == closeRow[Native]
           k == writer[w].fill
       IN  writer' = IF k \in c.ids THEN Took(w, "bind")
                     ELSE [writer EXCEPT ![w].pc = "update",
                             ![w].held = [c EXCEPT !.state = "filled", !.ids = @ \cup {k},
                                                   !.filled = @ + trades.fills[k].qty]]
    /\ UNCHANGED <<trades, closeRow, book, margin, lifecycle, verifier, readback, closer, exitDeaths>>

UpdateNative(w) ==
    /\ writer[w].pc = "update"
    /\ closeRow' = Rewritten(Native, writer[w].held)
    /\ book' = Booked(Native, writer[w].held, {writer[w].fill})
    /\ writer' = Took(w, "bind")
    /\ UNCHANGED <<trades, margin, lifecycle, verifier, readback, closer, exitDeaths>>

\* bind_native_close, or the exception its callers swallow.
BindNative(w) ==
    /\ writer[w].pc = "bind"
    /\ LET proven == Exact(Native) /\ closeRow[Native].ids # {}
       IN  /\ closeRow' = [closeRow EXCEPT ![Native].bound = @ \/ proven]
           /\ writer' = CASE w = "recovery" -> Took(w, "count")
                          [] w = "monitor" -> IF proven THEN NextFill ELSE NotOurs
    /\ UNCHANGED <<trades, book, margin, lifecycle, verifier, readback, closer, exitDeaths>>

----------------------------------------------------------------------------
(* provider_fill_reconciliation.py: an exit nobody here asked for.         *)

ClaimExit ==
    /\ writer["monitor"].pc = "exit"
    /\ LET k == writer["monitor"].fill
       IN  /\ closeRow' = IF closeRow[k].state = "none"
                          THEN [closeRow EXCEPT ![k] = [CloseOf("monitor") EXCEPT !.ids = {}]]
                          ELSE closeRow
           /\ writer' = IF k \in closeRow[k].ids THEN NextFill ELSE Took("monitor", "exitupdate")
    /\ UNCHANGED <<trades, book, margin, lifecycle, verifier, readback, closer, exitDeaths>>

UpdateExit ==
    /\ writer["monitor"].pc = "exitupdate"
    /\ LET k == writer["monitor"].fill
       IN  /\ closeRow' = Rewritten(k, CloseOf("monitor"))
           /\ book' = Booked(k, CloseOf("monitor"), {k})
    /\ writer' = NextFill
    /\ UNCHANGED <<trades, margin, lifecycle, verifier, readback, closer, exitDeaths>>

----------------------------------------------------------------------------
(* A close that is requested: claim, bind before the POST, POST, answer.   *)

\* strict: the console and source management post nothing that is not bound; the operator's
\* close goes out all the same.
RequestClose(qty, strict) ==
    /\ Requests /\ closer.pc = "idle" /\ qty \in 1..trades.open
    /\ closeRow' = [closeRow EXCEPT ![Requested] = [NoClose EXCEPT !.state = "requested", !.requested = qty]]
    /\ closer' = [pc |-> "bind", strict |-> strict]
    /\ UNCHANGED <<trades, book, margin, lifecycle, writer, verifier, readback, exitDeaths>>

\* bind_requested_close: never more than what is still owned by the evidence.
BindRequested ==
    /\ closer.pc = "bind"
    /\ LET bound == margin = "consumed" /\ closeRow[Requested].requested <= Remaining
       IN  /\ closeRow' = [closeRow EXCEPT ![Requested].bound = bound]
           /\ closer' = [closer EXCEPT !.pc = IF bound \/ ~closer.strict THEN "post" ELSE "done"]
    /\ UNCHANGED <<trades, book, margin, lifecycle, writer, verifier, readback, exitDeaths>>

\* A lost answer says nothing about the order.
PostClose(arrives, answered) ==
    /\ closer.pc = "post"
    /\ answered => arrives
    /\ trades' = [trades EXCEPT !.resting = arrives]
    /\ closeRow' = [closeRow EXCEPT ![Requested].state = IF answered THEN "submitted" ELSE "unknown",
                                    ![Requested].order = answered]
    /\ closer' = [closer EXCEPT !.pc = "done"]
    /\ UNCHANGED <<book, margin, lifecycle, writer, verifier, readback, exitDeaths>>

\* _reconcile_unresolved_intents: the order's status, with or without its fills, is read ...
ReadStatus(listed) ==
    /\ readback.pc = "idle"
    /\ closeRow[Requested].state \in {"submitted", "unknown"}
    /\ FillsOf("requested") # {}
    /\ LET qty == FillQty(FillsOf("requested"))
       IN  readback' = [pc |-> "write", filled |-> qty,
                        ids |-> IF listed THEN FillsOf("requested") ELSE {},
                        state |-> IF qty = closeRow[Requested].requested THEN "filled" ELSE "submitted"]
    /\ UNCHANGED <<trades, closeRow, book, margin, lifecycle, writer, verifier, closer, exitDeaths>>

\* ... and written.
WriteStatus ==
    /\ readback.pc = "write"
    /\ LET rec == [state |-> readback.state, filled |-> readback.filled, ids |-> readback.ids, order |-> TRUE]
       IN  closeRow' = Rewritten(Requested, rec) /\ book' = Booked(Requested, rec, rec.ids)
    /\ readback' = NoStatus
    /\ UNCHANGED <<trades, margin, lifecycle, writer, verifier, closer, exitDeaths>>

\* settle_absent_protection: flat, nothing pending, and the row knows of no fill.
SettleAbsent ==
    /\ SettlesAbsent
    /\ closeRow[Requested].state = "unknown" /\ closeRow[Requested].filled = 0
    /\ trades.open = 0
    /\ closeRow' = [closeRow EXCEPT ![Requested].state = "cancelled"]
    /\ UNCHANGED <<trades, book, margin, lifecycle, writer, verifier, readback, closer, exitDeaths>>

----------------------------------------------------------------------------
(* verified_closes.py: reconcile.                                          *)

\* The venue's fills of a bound close must add up to what was requested.
VerifyFills(r) ==
    /\ verifier.pc = "idle"
    /\ margin = "consumed" /\ closeRow[r].bound
    /\ closeRow[r].state # "cancelled"
    /\ r = Native => closeRow[r].order
    /\ FillsOf(OrderOf(r)) # {}
    /\ FillQty(FillsOf(OrderOf(r))) = closeRow[r].requested
    /\ verifier' = [pc |-> "write", row |-> r, evidence |-> FillsOf(OrderOf(r))]
    /\ UNCHANGED <<trades, closeRow, book, margin, lifecycle, writer, readback, closer, exitDeaths>>

VerifyWrite ==
    /\ verifier.pc = "write"
    /\ LET rec == [state |-> "filled", filled |-> closeRow[verifier.row].requested,
                   ids |-> verifier.evidence, order |-> TRUE]
       IN  closeRow' = Rewritten(verifier.row, rec) /\ book' = Booked(verifier.row, rec, rec.ids)
    /\ verifier' = [verifier EXCEPT !.pc = "flat"]
    /\ UNCHANGED <<trades, margin, lifecycle, writer, readback, closer, exitDeaths>>

VerifyFlat ==
    /\ verifier.pc = "flat"
    /\ verifier' = IF trades.open = 0 THEN [verifier EXCEPT !.pc = "release"] ELSE IdleVerifier
    /\ UNCHANGED <<trades, closeRow, book, margin, lifecycle, writer, readback, closer, exitDeaths>>

\* Bug: the close is proven, what the other closes took is not asked.
ReleasableAlone(r) == closeRow[r].bound /\ closeRow[r].state = "filled" /\ Exact(r)

\* release_verified_close: the ledger holds exactly the evidence, and nothing is left.
Releasable(r) ==
    LET c == closeRow[r]
    IN  /\ margin = "consumed" /\ c.bound /\ c.state = "filled" /\ c.order
        /\ c.requested = c.filled
        /\ BookedFor(r) = verifier.evidence
        /\ \A o \in ExitOrders: book.derived[o] # r
        /\ FillQty(verifier.evidence) = c.filled
        /\ Remaining = 0

VerifyRelease ==
    /\ verifier.pc = "release"
    /\ margin' = IF Releasable(verifier.row) THEN "released" ELSE margin
    /\ verifier' = IdleVerifier
    /\ UNCHANGED <<trades, closeRow, book, lifecycle, writer, readback, closer, exitDeaths>>

----------------------------------------------------------------------------
(* _closed_lifecycle_reason.                                               *)

\* The root's rows, and then every filled close row of the symbol.
Moved ==
    closeRow[Native].filled + EarlierCloses
      + MapThenSumSet(LAMBDA r: closeRow[r].filled, {r \in RowIds: closeRow[r].state = "filled"})

CountCloses ==
    /\ writer["recovery"].pc = "count"
    /\ writer' = [writer EXCEPT !["recovery"] =
                    IF Moved >= EntryFill THEN [IdleWriter EXCEPT !.pc = "flat"] ELSE IdleWriter]
    /\ UNCHANGED <<trades, closeRow, book, margin, lifecycle, verifier, readback, closer, exitDeaths>>

\* Bug: the rows are taken for the venue's word.
SettledByCount == TRUE

\* position_is_flat.
SettledByVenue == trades.open = 0

\* The reservation is resolved as FILLED, which leaves it consumed.
SettleClosed ==
    /\ writer["recovery"].pc = "flat"
    /\ lifecycle' = IF SettledByVenue THEN "closed" ELSE lifecycle
    /\ writer' = [writer EXCEPT !["recovery"] = IdleWriter]
    /\ UNCHANGED <<trades, closeRow, book, margin, verifier, readback, closer, exitDeaths>>

\* A process ends between two transactions, and starts again.
ExitDies ==
    /\ exitDeaths < MaxExitDeaths
    /\ exitDeaths' = exitDeaths + 1
    /\ \/ /\ writer' = [writer EXCEPT !["recovery"] = IdleWriter]
          /\ UNCHANGED <<verifier, readback, closer>>
       \/ /\ writer' = [writer EXCEPT !["monitor"] = IdleWriter]
          /\ verifier' = IdleVerifier /\ readback' = NoStatus
          /\ UNCHANGED closer
       \/ /\ closer.pc \in {"bind", "post"}
          /\ closer' = [closer EXCEPT !.pc = "done"]
          /\ UNCHANGED <<writer, verifier, readback>>
    /\ UNCHANGED <<trades, closeRow, book, margin, lifecycle>>

----------------------------------------------------------------------------
ExitMonitorStep ==
    \/ ListFills \/ AskOrder \/ ClaimExit \/ UpdateExit
    \/ ClaimNative("monitor") \/ MergeNative("monitor") \/ UpdateNative("monitor") \/ BindNative("monitor")

ExitRecoveryStep ==
    \/ ResolveNewest \/ CountCloses \/ SettleClosed \/ SettleAbsent
    \/ ClaimNative("recovery") \/ MergeNative("recovery") \/ UpdateNative("recovery") \/ BindNative("recovery")

VerifyStep ==
    \/ \E r \in RowIds: VerifyFills(r)
    \/ VerifyWrite \/ VerifyFlat \/ VerifyRelease

ExitNext ==
    \/ \E order \in ExitOrders, qty \in FillIds, external \in BOOLEAN: VenueCloses(order, qty, external)
    \/ ExitMonitorStep \/ ExitRecoveryStep \/ VerifyStep
    \/ \E qty \in FillIds, strict \in BOOLEAN: RequestClose(qty, strict)
    \/ BindRequested
    \/ \E arrives, answered \in BOOLEAN: PostClose(arrives, answered)
    \/ \E listed \in BOOLEAN: ReadStatus(listed)
    \/ WriteStatus
    \/ ExitDies

\* The monitor's loop and the verified closes it ends with run for ever (service.py), and a
\* pass takes every bound close in turn.
ExitSpec ==
    /\ ExitInit /\ [][ExitNext]_exitVars
    /\ WF_exitVars(ExitMonitorStep) /\ WF_exitVars(VerifyStep) /\ WF_exitVars(WriteStatus)
    /\ \A r \in {Native, Requested}: SF_exitVars(VerifyFills(r))

----------------------------------------------------------------------------
ExitTypeOK ==
    /\ trades.open \in 0..EntryFill /\ Executed \subseteq FillIds
    /\ \A r \in RowIds:
         /\ closeRow[r].state \in {"none", "requested", "submitted", "unknown", "filled", "cancelled"}
         /\ closeRow[r].ids \subseteq Executed /\ closeRow[r].bound \in BOOLEAN
         /\ closeRow[r].filled \in 0..(2 * EntryFill)
    /\ book.owner \in [FillIds -> RowIds \cup {Nobody}]
    /\ book.derived \in [ExitOrders -> RowIds \cup {Nobody}]

\* What the ledger says is still owned (remaining_owned_quantity, on which a close is sized
\* and the margin released) is never less than what is open at the venue, although monitor,
\* recovery and readback write the same rows from what they read before.
OwnedNeverUnderstates == Remaining = -1 \/ Remaining >= trades.open

\* The margin is released only when the whole entry is closed by bound closes whose fills
\* are booked, and the dispatch is CLOSED only when the venue is flat
\* (release_verified_close; _closed_lifecycle_reason).
EndIsProven ==
    /\ margin = "released" =>
         /\ trades.open = 0
         /\ FillQty({k \in Executed: book.owner[k] \in RowIds /\ closeRow[book.owner[k]].bound}) = EntryFill
    /\ lifecycle = "closed" => trades.open = 0

\* "A lifecycle settles only on proof: the venue is flat *and* a close-side intent under the
\* same root records a fill for the whole position" (_closed_lifecycle_reason): what closed
\* the position is recorded in the close rows of this trade.
SettledIsAccounted ==
    lifecycle = "closed" => MapThenSumSet(LAMBDA r: closeRow[r].filled, RowIds) >= EntryFill

\* The position was closed by a request that was bound before it was sent, in one fill or
\* in several, and that recovery did not cancel as never sent (settle_absent_protection).
ClosedByRequest ==
    /\ trades.open = 0 /\ Executed = FillsOf("requested")
    /\ closeRow[Requested].bound /\ closeRow[Requested].state # "cancelled"

\* A position that this system asked to close frees its margin in the end (reconcile),
\* although the answer to the request is lost, its status is read without its fills, and
\* recovery and dying processes are at the same rows.
OwnCloseFreesMargin == []<>(ClosedByRequest => margin = "released")

\* README.md:132: "When Bitget confirms a position is flat, the state machine settles the
\* lifecycle, frees margin".  A plan that fills in parts never frees it: the row keeps the
\* first part as requested_qty, which its fills must equal.
FlatFreesMargin == []<>(trades.open = 0 /\ closeRow[Native].bound => margin = "released")

=============================================================================
