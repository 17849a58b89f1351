------------------------- MODULE FallbackProtection -------------------------
(***************************************************************************)
(* Bot-managed stops for positions whose native plan is missing            *)
(* (execution/bitget_fallback_protection.py).  A registered row is watched *)
(* by two lanes of the monitor process: the REST monitor, which walks the  *)
(* rows it loaded at the start of a cycle, and the stream engine           *)
(* (bitget_protection_stream.py), which reacts to marks with a cached copy *)
(* of the rows (service.py).  A lane whose threshold is crossed claims the *)
(* row, sends one reduce-only close, and turns provider fills into a       *)
(* triggered row.                                                          *)
(*                                                                         *)
(* The lanes share one event loop: between two awaits a lane runs alone,   *)
(* at an await anything may happen.  So an await is a step of the provider *)
(* that captures the answer, and what the lane does with it is one action. *)
(* Registration, console jobs and source management are other processes.   *)
(*                                                                         *)
(* One symbol.  A position lifetime is an epoch (cTime), entered once; the *)
(* entry's client order id, the key of a row, is its epoch.                *)
(* Rows without a proven epoch and environment cannot close and are left   *)
(* out, and so are close intents from before claims were transactional.    *)
(***************************************************************************)
EXTENDS Integers, FiniteSets

CONSTANTS
    Rows,        \* ids of fallback_protection rows
    MaxEpoch,    \* bound: position lifetimes on this symbol
    EntryQty,    \* what each lifetime's entry filled
    Direction,   \* "LONG" or "SHORT"
    Stops,       \* stop levels
    Target,      \* the take-profit level
    Marks,       \* mark prices
    StreamOn,    \* BITGET_PROTECTION_STREAM_MUTATIONS_ENABLED
    ConsoleOn,   \* are console fallback jobs run?
    ManagerOn    \* does source management book partial closes and move stops?

ASSUME FallbackAssumption ==
    /\ Rows \subseteq Nat \ {0} /\ MaxEpoch \in Nat
    /\ EntryQty \in [1..MaxEpoch -> Nat \ {0}]
    /\ Direction \in {"LONG", "SHORT"}
    /\ Stops \subseteq Int /\ Marks \subseteq Int /\ Target \in Int
    /\ {StreamOn, ConsoleOn, ManagerOn} \subseteq BOOLEAN

VARIABLES
    position,    \* the venue's position: its epoch and open quantity
    fallback,    \* table fallback_protection
    closeIntent, \* CLOSE rows of live_order_intents, one per fallback row
    order,       \* what the venue knows of each close order
    lane,        \* what each lane has read and not yet acted on
    cache,       \* the stream engine's copy of the rows
    fence,       \* its pending_fallback_ids
    sighting     \* the position as another process last read it

tables == <<fallback, closeIntent>>
fallbackVars == <<position, fallback, closeIntent, order, lane, cache, fence,
                  sighting>>

Lanes == IF StreamOn THEN {"rest", "stream"} ELSE {"rest"}
Live == {"active", "closing"}   \* states in which load_active returns a row
Epochs == 1..MaxEpoch
Quantities == {0} \cup UNION {1..EntryQty[e]: e \in Epochs}
Positions == [epoch: 0..MaxEpoch, qty: Quantities]
Unregistered == [state |-> "none", reason |-> "none", epoch |-> 0, qty |-> 0,
                 stop |-> 0]
Nothing == [r \in Rows |-> Unregistered]
NoIntent == [state |-> "none", asked |-> 0, filled |-> 0]
NoOrder == [posts |-> 0, wire |-> FALSE, left |-> 0, done |-> 0]
Flat == [epoch |-> 0, qty |-> 0]
Resting == [pc |-> "idle", todo |-> Nothing, row |-> 0, entry |-> Unregistered,
            seen |-> Flat, fills |-> 0]

-----------------------------------------------------------------------------
(* Reading *)

\* load_active: the rows as a lane keeps them until its next load.
LoadActive == [r \in Rows |-> IF fallback[r].state \in Live
                              THEN [fallback[r] EXCEPT !.reason = "none"] ELSE Unregistered]

\* check_thresholds: does this mark call for a close?
CheckThresholds(mark, stop) ==
    IF Direction = "LONG" THEN mark >= Target \/ mark <= stop
                          ELSE mark <= Target \/ mark >= stop

\* _owned_quantity: the row's position lifetime, at the row's quantity, and an entry
\* intent that filled exactly this quantity.  The entry's fills are never edited.
Owned(entry, seen) ==
    /\ seen.epoch = entry.epoch
    /\ seen.qty = entry.qty
    /\ seen.qty = EntryQty[entry.epoch]

\* _open_quantity is zero: the lane has seen no open position on the symbol.
SeenFlat(l) == lane[l].seen.qty = 0

-----------------------------------------------------------------------------
(* Writing *)

\* mark_closing
MarkClosing(r) == [fallback EXCEPT ![r].state = "closing", ![r].reason = "close-submitted"]

\* mark_position_flat: the row, whatever state it is in by now.
MarkPositionFlat(r) ==
    [fallback EXCEPT ![r].state = "cancelled", ![r].reason = "position-already-flat"]

\* _update_close_intent
UpdateCloseIntent(r, state) == [closeIntent EXCEPT ![r].state = state]

\* Fault: the claim forgets that it may be made only once, and only on an active row.
ClaimableAgain(r, qty) == fallback[r].state \in Live /\ fallback[r].qty >= qty

\* _ensure_close_intent: under the row's lock, only an active row of at least the
\* quantity, and only once.
Claimable(r, qty) ==
    /\ fallback[r].state = "active"
    /\ fallback[r].qty >= qty
    /\ closeIntent[r].state = "none"

\* _persist_close_fills: the evidence is for a row that is still being worked on.
Persistable(r, fills) ==
    /\ fallback[r].state \in Live \cup {"triggered"}
    /\ closeIntent[r].state # "none"
    /\ closeIntent[r].filled + fills > 0

\* The transaction of _persist_close_fills: ledger, intent and lifecycle together.
PersistCloseFills(r, fills, flat) ==
    LET total == IF fills > closeIntent[r].filled THEN fills ELSE closeIntent[r].filled
        full == total = closeIntent[r].asked
        confirmed == full /\ flat
    IN  /\ closeIntent' = [closeIntent EXCEPT
              ![r].filled = total,
              ![r].state = IF full THEN "filled" ELSE "partially_filled"]
        /\ fallback' = [fallback EXCEPT
              ![r].state = IF confirmed THEN "triggered" ELSE "closing",
              ![r].reason = IF confirmed THEN "close-confirmed" ELSE "close-evidence-pending"]

-----------------------------------------------------------------------------
(* The lanes *)

Goto(l, pc) == lane' = [lane EXCEPT ![l].pc = pc]

\* One row is done with: the lane goes on with the rest of its list.
NextRow(l) ==
    lane' = [lane EXCEPT ![l] = IF lane[l].todo = Nothing THEN Resting
              ELSE [Resting EXCEPT !.pc = "loop", !.todo = lane[l].todo]]

\* The stream engine lets go of its fence only for outcomes that precede a claim.
ReleaseFence(l) == fence' = IF l = "stream" THEN fence \ {lane[l].row} ELSE fence

\* A cycle of run_fallback_monitor_async loads the rows once.
RestLoad ==
    /\ lane["rest"].pc = "idle"
    /\ LoadActive # Nothing
    /\ lane' = [lane EXCEPT !["rest"].pc = "loop", !["rest"].todo = LoadActive]
    /\ UNCHANGED <<position, tables, order, cache, fence, sighting>>

\* handle_event: a fresh mark, compared with rows that are at most two seconds old.
StreamEvent ==
    /\ StreamOn
    /\ lane["stream"].pc = "idle"
    /\ cache' \in {cache, LoadActive}
    /\ \E mark \in Marks:
        LET hit == {r \in Rows \ fence: /\ cache'[r].state = "active"
                                        /\ CheckThresholds(mark, cache'[r].stop)}
        IN  /\ hit # {}
            /\ lane' = [lane EXCEPT !["stream"] = [Resting EXCEPT
                  !.pc = "loop",
                  !.todo = [r \in Rows |-> IF r \in hit THEN cache'[r] ELSE Unregistered]]]
    /\ UNCHANGED <<position, tables, order, fence, sighting>>

\* The next row of the REST list: its position is read.
RestRow ==
    /\ lane["rest"].pc = "loop"
    /\ \E r \in Rows:
        /\ lane["rest"].todo[r] # Unregistered
        /\ lane' = [lane EXCEPT !["rest"].pc = "read", !["rest"].row = r,
                                !["rest"].entry = lane["rest"].todo[r],
                                !["rest"].todo = [@ EXCEPT ![r] = Unregistered]]
    /\ UNCHANGED <<position, tables, order, cache, fence, sighting>>

\* The next hit of the stream: fence it and look the row up again, perhaps in a newer
\* copy.  A row that is gone by then ("close-entry-missing") stays fenced.
StreamRow ==
    /\ StreamOn
    /\ lane["stream"].pc = "loop"
    /\ cache' \in {cache, LoadActive}
    /\ \E r \in Rows:
        /\ lane["stream"].todo[r] # Unregistered
        /\ fence' = fence \cup {r}
        /\ LET rest == [lane["stream"].todo EXCEPT ![r] = Unregistered]
               found == [lane["stream"] EXCEPT !.pc = "read", !.row = r, !.entry = cache'[r],
                                               !.todo = rest]
               missing == IF rest = Nothing THEN Resting
                                            ELSE [lane["stream"] EXCEPT !.todo = rest]
           IN  lane' = [lane EXCEPT !["stream"] =
                          IF cache'[r] = Unregistered THEN missing ELSE found]
    /\ UNCHANGED <<position, tables, order, sighting>>

\* get_single_position answers.
ReadPosition(l) ==
    /\ lane[l].pc = "read"
    /\ lane' = [lane EXCEPT ![l].pc = "decide", ![l].seen = position]
    /\ UNCHANGED <<position, tables, order, cache, fence, sighting>>

\* Fault: an unreadable position is taken for a flat one.
ReadPositionFailsFlat(l) ==
    /\ lane[l].pc = "read"
    /\ fallback' = MarkPositionFlat(lane[l].row)
    /\ NextRow(l)
    /\ UNCHANGED <<position, closeIntent, order, cache, fence, sighting>>

\* The read fails or its answer is invalid: the row is left for a later cycle or mark.
ReadPositionFails(l) ==
    /\ lane[l].pc = "read"
    /\ NextRow(l)
    /\ ReleaseFence(l)
    /\ UNCHANGED <<position, tables, order, cache, sighting>>

\* A row loaded as closing is never closed again: its fills are looked up.
RecoverClosing(l) ==
    /\ lane[l].pc = "decide"
    /\ lane[l].entry.state = "closing"
    /\ Goto(l, "fills")
    /\ UNCHANGED <<position, tables, order, cache, fence, sighting>>

\* A row loaded as active whose position is gone.
CancelFlat(l) ==
    /\ lane[l].pc = "decide"
    /\ lane[l].entry.state = "active"
    /\ SeenFlat(l)
    /\ fallback' = MarkPositionFlat(lane[l].row)
    /\ NextRow(l)
    /\ UNCHANGED <<position, closeIntent, order, cache, fence, sighting>>

\* The open position is not provably the row's.
Disown(l) ==
    /\ lane[l].pc = "decide"
    /\ lane[l].entry.state = "active"
    /\ ~SeenFlat(l)
    /\ ~Owned(lane[l].entry, lane[l].seen)
    /\ NextRow(l)
    /\ ReleaseFence(l)
    /\ UNCHANGED <<position, tables, order, cache, sighting>>

\* _ensure_close_intent, mark_closing, and the POST that only the claim's winner makes.
ClaimClose(l) ==
    LET r == lane[l].row
        qty == lane[l].entry.qty
    IN  /\ IF Claimable(r, qty)
           THEN /\ closeIntent' = [closeIntent EXCEPT ![r].state = "requested", ![r].asked = qty]
                /\ fallback' = MarkClosing(r)
                /\ order' = [order EXCEPT ![r].posts = @ + 1, ![r].wire = TRUE]
                /\ Goto(l, "post")
           ELSE /\ NextRow(l)
                /\ UNCHANGED <<tables, order>>
        /\ UNCHANGED <<position, cache, fence, sighting>>

\* The REST lane asks for the mark once the position is its own.
AskTicker ==
    /\ lane["rest"].pc = "decide"
    /\ lane["rest"].entry.state = "active"
    /\ Owned(lane["rest"].entry, lane["rest"].seen)
    /\ Goto("rest", "ticker")
    /\ UNCHANGED <<position, tables, order, cache, fence, sighting>>

\* The ticker fails, or its mark is between the thresholds the lane loaded.
MarkCalm ==
    /\ lane["rest"].pc = "ticker"
    /\ NextRow("rest")
    /\ UNCHANGED <<position, tables, order, cache, fence, sighting>>

RestClose(mark) ==
    /\ lane["rest"].pc = "ticker"
    /\ CheckThresholds(mark, lane["rest"].entry.stop)
    /\ ClaimClose("rest")

StreamClose ==
    /\ StreamOn
    /\ lane["stream"].pc = "decide"
    /\ lane["stream"].entry.state = "active"
    /\ Owned(lane["stream"].entry, lane["stream"].seen)
    /\ ClaimClose("stream")

\* The POST raised, timed out or was refused.
PostFails(l) ==
    /\ lane[l].pc = "post"
    /\ closeIntent' = UpdateCloseIntent(lane[l].row, "unknown")
    /\ NextRow(l)
    /\ UNCHANGED <<position, fallback, order, cache, fence, sighting>>

\* The POST was acknowledged: both rows say so, and the position is read back.
Acknowledge(l) ==
    /\ lane[l].pc = "acked"
    /\ closeIntent' = UpdateCloseIntent(lane[l].row, "submitted")
    /\ fallback' = MarkClosing(lane[l].row)
    /\ Goto(l, "readback")
    /\ UNCHANGED <<position, order, cache, fence, sighting>>

ReadBack(l) ==
    /\ lane[l].pc = "readback"
    /\ lane' = [lane EXCEPT ![l].seen = position,
                            ![l].pc = IF position.qty = 0 THEN "fills" ELSE "open"]
    /\ UNCHANGED <<position, tables, order, cache, fence, sighting>>

\* Still open: only the stream writes the intent once more.
StillOpen(l) ==
    /\ lane[l].pc = "open"
    /\ closeIntent' = IF l = "stream" THEN UpdateCloseIntent(lane[l].row, "submitted")
                                      ELSE closeIntent
    /\ NextRow(l)
    /\ UNCHANGED <<position, fallback, order, cache, fence, sighting>>

\* The readback, or _reconcile_close_evidence's get_fills, failed; a malformed list of
\* fills is only ignored.
EvidenceFails(l) ==
    /\ lane[l].pc \in {"readback", "fills"}
    /\ \/ closeIntent' = UpdateCloseIntent(lane[l].row, "unknown")
       \/ lane[l].pc = "fills" /\ UNCHANGED closeIntent
    /\ NextRow(l)
    /\ UNCHANGED <<position, fallback, order, cache, fence, sighting>>

\* get_fills answers with the fills there are.
ReadFills(l) ==
    /\ lane[l].pc = "fills"
    /\ lane' = [lane EXCEPT ![l].pc = "persist", ![l].fills = order[lane[l].row].done]
    /\ UNCHANGED <<position, tables, order, cache, fence, sighting>>

PersistFills(l) ==
    LET r == lane[l].row
    IN  /\ lane[l].pc = "persist"
        /\ IF Persistable(r, lane[l].fills)
           THEN PersistCloseFills(r, lane[l].fills, SeenFlat(l))
           ELSE UNCHANGED tables
        /\ NextRow(l)
        /\ UNCHANGED <<position, order, cache, fence, sighting>>

\* The monitor process dies, or a cycle exceeds its budget (_run_cycle_with_timeout) and
\* takes it down with both lanes: everything but the tables and the wire is lost.
Restart ==
    /\ \E l \in Lanes: lane[l] # Resting
    /\ lane' = [l \in Lanes |-> Resting]
    /\ cache' = Nothing
    /\ fence' = {}
    /\ UNCHANGED <<position, tables, order, sighting>>

-----------------------------------------------------------------------------
(* Other processes.  Each acts on a read of the position that may be old.  *)

\* _fallback_identity, the console's _position, the manager's readback.
SightPosition ==
    /\ position.qty > 0
    /\ sighting' = position
    /\ UNCHANGED <<position, tables, order, lane, cache, fence>>

\* register_fallback: the unique index admits one live row per key.  The dispatcher
\* registers the entry as it filled, the console what is left of it.
RegisterFallback(r, stop) ==
    /\ sighting # Flat
    /\ ConsoleOn \/ sighting.qty = EntryQty[sighting.epoch]
    /\ fallback[r].state = "none"
    /\ \A s \in Rows: s < r => fallback[s].state # "none"
    /\ \A s \in Rows: fallback[s].state \in Live => fallback[s].epoch # sighting.epoch
    /\ fallback' = [fallback EXCEPT ![r] = [state |-> "active", reason |-> "none",
              epoch |-> sighting.epoch, qty |-> sighting.qty, stop |-> stop]]
    /\ UNCHANGED <<position, closeIntent, order, lane, cache, fence, sighting>>

\* protection.disable_fallback, after a proof of native protection.
DisableFallback(r) ==
    /\ ConsoleOn
    /\ fallback[r].state = "active"
    /\ fallback[r].epoch = sighting.epoch
    /\ fallback' = [fallback EXCEPT ![r].state = "cancelled",
                                    ![r].reason = "console-native-confirmed"]
    /\ UNCHANGED <<position, closeIntent, order, lane, cache, fence, sighting>>

\* protection.update_fallback: the new level must clear the last price.
UpdateFallback(r, stop) ==
    /\ ConsoleOn
    /\ \E last \in Marks: ~CheckThresholds(last, stop)
    /\ fallback[r].state = "active"
    /\ fallback[r].epoch = sighting.epoch
    /\ fallback' = [fallback EXCEPT ![r].stop = stop]
    /\ UNCHANGED <<position, closeIntent, order, lane, cache, fence, sighting>>

\* update_fallback_levels: a moved stop and what a booked target left of the position.
UpdateFallbackLevels(r, stop) ==
    /\ ManagerOn
    /\ fallback[r].state \in Live
    /\ fallback[r].epoch = sighting.epoch
    /\ fallback' = [fallback EXCEPT ![r].stop = stop, ![r].qty = sighting.qty]
    /\ UNCHANGED <<position, closeIntent, order, lane, cache, fence, sighting>>

-----------------------------------------------------------------------------
(* The venue *)

\* An entry fills: a position lifetime begins.
VenueOpen ==
    /\ position.qty = 0
    /\ position.epoch < MaxEpoch
    /\ position' = [epoch |-> position.epoch + 1, qty |-> EntryQty[position.epoch + 1]]
    /\ UNCHANGED <<tables, order, lane, cache, fence, sighting>>

\* Somebody else reduces the position: a booked target, a native plan, a hand.
VenueReduce ==
    /\ position.qty > 0
    /\ \E left \in 0..(position.qty - 1):
        /\ left = 0 \/ ManagerOn
        /\ position' = [position EXCEPT !.qty = left]
        /\ order' = [r \in Rows |-> [order[r] EXCEPT !.left = IF @ > left THEN left ELSE @]]
    /\ UNCHANGED <<tables, lane, cache, fence, sighting>>

\* A close arrives.  It is reduce-only: without a position it is refused.  The lane
\* hears of it if it is still waiting and the answer is not lost.
VenueAccept(r) ==
    /\ order[r].wire
    /\ order' = [order EXCEPT ![r].wire = FALSE,
          ![r].left = IF closeIntent[r].asked < position.qty THEN closeIntent[r].asked
                                                             ELSE position.qty]
    /\ \/ UNCHANGED lane
       \/ /\ position.qty > 0
          /\ \E l \in Lanes: /\ lane[l].pc = "post" /\ lane[l].row = r
                             /\ Goto(l, "acked")
    /\ UNCHANGED <<position, tables, cache, fence, sighting>>

\* The request never arrives.
VenueLoses(r) ==
    /\ order[r].wire
    /\ order' = [order EXCEPT ![r].wire = FALSE]
    /\ UNCHANGED <<position, tables, lane, cache, fence, sighting>>

\* A close fills unit by unit; what exceeds the position is dropped.
VenueFill(r) ==
    /\ order[r].left > 0
    /\ position' = [position EXCEPT !.qty = @ - 1]
    /\ order' = [s \in Rows |->
          [order[s] EXCEPT
              !.done = IF s = r THEN @ + 1 ELSE @,
              !.left = IF s = r THEN @ - 1 ELSE IF @ > position.qty - 1 THEN position.qty - 1
                                                ELSE @]]
    /\ UNCHANGED <<tables, lane, cache, fence, sighting>>

-----------------------------------------------------------------------------
FallbackInit ==
    /\ position = Flat
    /\ fallback = Nothing
    /\ closeIntent = [r \in Rows |-> NoIntent]
    /\ order = [r \in Rows |-> NoOrder]
    /\ lane = [l \in Lanes |-> Resting]
    /\ cache = Nothing
    /\ fence = {}
    /\ sighting = Flat

LaneStep(l) ==
    \/ ReadPosition(l) \/ ReadPositionFails(l) \/ RecoverClosing(l)
    \/ CancelFlat(l) \/ Disown(l) \/ PostFails(l) \/ Acknowledge(l) \/ ReadBack(l)
    \/ StillOpen(l) \/ EvidenceFails(l) \/ ReadFills(l) \/ PersistFills(l)

FallbackNext ==
    \/ \E l \in Lanes: LaneStep(l)
    \/ RestLoad \/ RestRow \/ AskTicker \/ MarkCalm
    \/ \E mark \in Marks: RestClose(mark)
    \/ StreamEvent \/ StreamRow \/ StreamClose
    \/ Restart
    \/ SightPosition
    \/ \E r \in Rows, stop \in Stops: RegisterFallback(r, stop) \/ UpdateFallback(r, stop)
                                      \/ UpdateFallbackLevels(r, stop)
    \/ \E r \in Rows: DisableFallback(r) \/ VenueAccept(r) \/ VenueLoses(r) \/ VenueFill(r)
    \/ VenueOpen \/ VenueReduce

FallbackSpec == FallbackInit /\ [][FallbackNext]_fallbackVars

-----------------------------------------------------------------------------
(* What the lanes owe each other *)

Lifecycle == {"none", "active", "closing", "triggered", "cancelled"}
FallbackRecords ==
    [state: Lifecycle, epoch: 0..MaxEpoch, qty: Quantities, stop: Stops \cup {0},
     reason: {"none", "close-submitted", "close-evidence-pending", "close-confirmed",
              "position-already-flat", "console-native-confirmed"}]

\* Type invariant of the tables, the venue and the lanes.
FallbackTypeOK ==
    /\ position \in Positions /\ sighting \in Positions
    /\ fallback \in [Rows -> FallbackRecords]
    /\ closeIntent \in [Rows -> [state: {"none", "requested", "submitted", "unknown",
                                         "partially_filled", "filled"},
                                 asked: Quantities, filled: Quantities]]
    /\ order \in [Rows -> [posts: Nat, wire: BOOLEAN, left: Quantities, done: Quantities]]
    /\ lane \in [Lanes -> [pc: {"idle", "loop", "read", "decide", "ticker", "post", "acked",
                                "readback", "open", "fills", "persist"},
                           todo: [Rows -> FallbackRecords], row: Rows \cup {0},
                           entry: FallbackRecords, seen: Positions, fills: Quantities]]
    /\ cache \in [Rows -> FallbackRecords]
    /\ fence \subseteq Rows

\* One protective close per position lifetime, whichever lane sends it, across restarts,
\* stale copies of the rows, lost answers, and rows disabled and registered again
\* (_ensure_close_intent, "never granted a second POST").
OneClosePerLifetime ==
    \A e \in Epochs, r, s \in Rows:
        (fallback[r].epoch = e /\ fallback[s].epoch = e /\ order[r].posts + order[s].posts > 1)
            => r = s /\ order[r].posts = 1

\* No lane gives up a row while its position is open: only the console, with a native
\* proof, does (mark_position_flat and "close-confirmed" both need a flat readback).
ProtectedUntilFlat ==
    [][\A r \in Rows:
          (/\ fallback[r].state \in Live /\ fallback'[r].state \notin Live
           /\ fallback'[r].reason # "console-native-confirmed")
              => ~(position.epoch = fallback[r].epoch /\ position.qty > 0)]_fallbackVars

\* An active row that names the open position's lifetime and quantity can close it
\* (update_fallback_levels: the lane must serve the remaining quantity).
ResidualIsServed ==
    \A r \in Rows:
        (/\ fallback[r].state = "active" /\ position.qty > 0
         /\ fallback[r].epoch = position.epoch /\ fallback[r].qty = position.qty)
            => Owned(fallback[r], position)

====
