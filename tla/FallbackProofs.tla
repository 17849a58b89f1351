--------------------------- MODULE FallbackProofs ---------------------------
(***************************************************************************)
(* Proofs about the local stops, for any rows, position lifetimes,         *)
(* quantities, levels and marks: a lifetime gets at most one protective    *)
(* close, and no lane gives a row up while its position is open.           *)
(***************************************************************************)
EXTENDS FallbackProtection, TLAPS

\* The shapes of the tables and of what a lane keeps.
Reasons     == {"none", "close-submitted", "close-evidence-pending", "close-confirmed",
                "position-already-flat", "console-native-confirmed"}
CloseStates == {"none", "requested", "submitted", "unknown", "partially_filled", "filled"}
LanePcs     == {"idle", "loop", "read", "decide", "ticker", "post", "acked", "readback",
                "open", "fills", "persist"}

RowRecords    == [state : Lifecycle, reason : Reasons, epoch : Nat, qty : Nat, stop : Int]
IntentRecords == [state : CloseStates, asked : Nat, filled : Nat]
OrderRecords  == [posts : Nat, wire : BOOLEAN, left : Nat, done : Nat]
Readings      == [epoch : Nat, qty : Nat]
LaneRecords   == [pc : LanePcs, todo : [Rows -> RowRecords], row : Rows \cup {0},
                  entry : RowRecords, seen : Readings, fills : Nat]

TablesFit ==
    /\ fallback \in [Rows -> RowRecords]
    /\ closeIntent \in [Rows -> IntentRecords]
    /\ order \in [Rows -> OrderRecords]

LanesFit ==
    /\ lane \in [Lanes -> LaneRecords]
    /\ cache \in [Rows -> RowRecords]

\* A position that is open belongs to a lifetime, and so does one that was read.
VenueFits ==
    /\ position \in Readings /\ position.epoch <= MaxEpoch
    /\ position.qty > 0 => position.epoch >= 1
    /\ sighting \in Readings
    /\ sighting # Flat => 1 <= sighting.epoch /\ sighting.epoch <= position.epoch

-----------------------------------------------------------------------------
Posted(r) == order[r].posts = 1

\* The lifetime is over, or something of its position has been closed.
Gone(e) == position.epoch > e \/ (position.epoch = e /\ position.qty < EntryQty[e])

\* One POST per row, journaled; before it the row is active, and it is closing while it waits
\* for evidence.
RowOK(r) ==
    /\ order[r].posts \in {0, 1}
    /\ Posted(r) <=> closeIntent[r].state # "none"
    /\ fallback[r].state \in {"none", "active"} => ~ Posted(r)
    /\ fallback[r].state = "closing" => Posted(r)
    /\ fallback[r].state # "none" =>
           1 <= fallback[r].epoch /\ fallback[r].epoch <= position.epoch
    /\ order[r].left <= position.qty

\* A row whose close was sent is given up only when its position was no longer whole.
GivenUp(r) == Posted(r) /\ fallback[r].state \notin Live => Gone(fallback[r].epoch)

\* Of the rows of one lifetime at most one has sent its close and at most one is active, and a
\* row registered after the close of another is for a position that is no longer whole.
Apart(r, s) ==
    r # s /\ fallback[r].epoch = fallback[s].epoch =>
        /\ ~ (Posted(r) /\ Posted(s))
        /\ fallback[s].state = "active" =>
               /\ fallback[r].state # "active"
               /\ Posted(r) => Gone(fallback[s].epoch)

RowsOK ==
    /\ \A r \in Rows : RowOK(r) /\ GivenUp(r)
    /\ \A r, s \in Rows : Apart(r, s)

\* A lane's copy of a row may be old, but the row is still of its lifetime, and a close that
\* was sent stays sent.
IsCopy(c, r) ==
    \/ c = Unregistered
    \/ /\ c.state \in Live /\ fallback[r].state # "none" /\ c.epoch = fallback[r].epoch
       /\ c.state = "closing" => Posted(r)

\* What a lane has read of the position: of the row's lifetime or a later one, and what is
\* open of it can only have become less.
Saw(l) ==
    /\ lane[l].entry.epoch <= lane[l].seen.epoch
    /\ lane[l].seen.epoch <= position.epoch
    /\ lane[l].seen.epoch = position.epoch => position.qty <= lane[l].seen.qty

\* A lane that may still claim does not own the position if another row of the lifetime has
\* sent its close already.
TooLate(l) ==
    \A r \in Rows :
        /\ Posted(r) /\ lane[l].row # r /\ fallback[lane[l].row].state = "active"
        /\ fallback[r].epoch = fallback[lane[l].row].epoch
        => ~ Owned(lane[l].entry, lane[l].seen)

LaneOK(l) ==
    /\ \A r \in Rows : IsCopy(lane[l].todo[r], r)
    /\ lane[l].pc \notin {"idle", "loop"} =>
           /\ lane[l].row \in Rows /\ lane[l].entry # Unregistered
           /\ IsCopy(lane[l].entry, lane[l].row)
    /\ lane[l].pc \notin {"idle", "loop", "read"} => Saw(l)
    /\ lane[l].pc = "ticker" =>
           lane[l].entry.state = "active" /\ Owned(lane[l].entry, lane[l].seen)
    /\ lane[l].pc \in {"post", "acked", "readback", "open", "fills", "persist"} =>
           Posted(lane[l].row)
    /\ lane[l].pc \in {"decide", "ticker"} => TooLate(l)

CopiesOK == \A r \in Rows : IsCopy(cache[r], r)

FallbackInv ==
    /\ TablesFit /\ LanesFit /\ VenueFits
    /\ RowsOK /\ CopiesOK
    /\ \A l \in Lanes : LaneOK(l)

USE FallbackAssumption

\* The fields of the tables, the position and a lane.
LEMMA TableFields ==
    ASSUME TablesFit, NEW r \in Rows
    PROVE  /\ fallback[r] \in RowRecords /\ fallback[r].state \in Lifecycle
           /\ fallback[r].epoch \in Nat /\ fallback[r].qty \in Nat
           /\ closeIntent[r].asked \in Nat /\ closeIntent[r].filled \in Nat
           /\ order[r] \in OrderRecords
           /\ order[r].posts \in Nat /\ order[r].left \in Nat /\ order[r].done \in Nat
BY Zenon DEF TablesFit, RowRecords, IntentRecords, OrderRecords

LEMMA VenueFields ==
    ASSUME VenueFits
    PROVE  /\ position.epoch \in Nat /\ position.qty \in Nat
           /\ sighting.epoch \in Nat /\ sighting.qty \in Nat
BY Zenon DEF VenueFits, Readings

LEMMA LaneFields ==
    ASSUME LanesFit, NEW l \in Lanes
    PROVE  /\ lane[l] \in LaneRecords /\ lane[l].todo \in [Rows -> RowRecords]
           /\ lane[l].row \in Rows \cup {0} /\ lane[l].entry \in RowRecords
           /\ lane[l].entry.epoch \in Nat /\ lane[l].entry.qty \in Nat
           /\ lane[l].seen \in Readings
           /\ lane[l].seen.epoch \in Nat /\ lane[l].seen.qty \in Nat
           /\ lane[l].fills \in Nat
BY Zenon DEF LanesFit, LaneRecords, Readings, RowRecords

-----------------------------------------------------------------------------
\* What every step does to the rows that exist, and to the position: a row keeps its lifetime,
\* does not become active again, and its close is sent only while it is active and no other
\* row of the lifetime has sent one.
RowsStay ==
    \A r \in Rows :
        /\ fallback[r].state # "none" =>
               /\ fallback'[r].state # "none" /\ fallback'[r].epoch = fallback[r].epoch
               /\ fallback'[r].state = "active" => fallback[r].state = "active"
        /\ Posted(r) => Posted(r)'
        /\ Posted(r)' => Posted(r) \/ fallback[r].state = "active"
        /\ \A s \in Rows \ {r} :
               Posted(r)' /\ Posted(s)' /\ fallback[r].epoch = fallback[s].epoch =>
                   Posted(r) /\ Posted(s)

PositionMoves ==
    \/ position'.epoch > position.epoch
    \/ position'.epoch = position.epoch /\ position'.qty <= position.qty

\* What is gone stays gone.
GoneNext(e) ==
    position'.epoch > e \/ (position'.epoch = e /\ position'.qty < EntryQty[e])

LEMMA GoneStays ==
    ASSUME VenueFits, VenueFits', PositionMoves, NEW e \in Epochs, Gone(e)
    PROVE  GoneNext(e)
<1>1. EntryQty[e] \in Nat
  BY DEF Epochs
<1>2. position'.epoch \in Nat /\ position'.qty \in Nat
  BY Zenon DEF VenueFits, Readings
<1> QED BY <1>1, <1>2, VenueFields DEF Gone, GoneNext, PositionMoves, Epochs

\* A row's lifetime is one.
LEMMA RowLife ==
    ASSUME FallbackInv, NEW r \in Rows, fallback[r].state # "none"
    PROVE  fallback[r].epoch \in Epochs /\ fallback[r].epoch <= position.epoch
BY TableFields, VenueFields DEF FallbackInv, RowsOK, RowOK, VenueFits, Epochs

\* No row of one lifetime disturbs another if none is registered.
LEMMA RowsStayApart ==
    ASSUME FallbackInv, VenueFits', RowsStay, PositionMoves,
           \A r \in Rows : RowOK(r)',
           \A r \in Rows : fallback[r].state = "none" => fallback'[r].state = "none"
    PROVE  \A r, s \in Rows : Apart(r, s)'
<1> SUFFICES ASSUME NEW r \in Rows, NEW s \in Rows, r # s,
                    fallback'[r].epoch = fallback'[s].epoch
             PROVE  /\ ~ (Posted(r)' /\ Posted(s)')
                    /\ fallback'[s].state = "active" =>
                           /\ fallback'[r].state # "active"
                           /\ Posted(r)' => Gone(fallback[s].epoch)'
  BY DEF Apart
<1>1. CASE fallback[r].state = "none" \/ fallback[s].state = "none"
  BY <1>1 DEF RowOK
<1>2. CASE fallback[r].state # "none" /\ fallback[s].state # "none"
  <2>1. fallback[r].epoch = fallback[s].epoch /\ fallback'[s].epoch = fallback[s].epoch
    BY <1>2 DEF RowsStay
  <2>2. /\ ~ (Posted(r) /\ Posted(s))
        /\ fallback[s].state = "active" =>
               fallback[r].state # "active" /\ (Posted(r) => Gone(fallback[s].epoch))
    BY <2>1 DEF FallbackInv, RowsOK, Apart
  <2>3. ~ (Posted(r)' /\ Posted(s)')
    BY <2>1, <2>2 DEF RowsStay
  <2>4. ASSUME fallback'[s].state = "active"
        PROVE  fallback'[r].state # "active" /\ (Posted(r)' => Gone(fallback[s].epoch)')
    <3>1. fallback[s].state = "active"
      BY <1>2, <2>4 DEF RowsStay
    <3>2. fallback'[r].state # "active" /\ (Posted(r)' => Gone(fallback[s].epoch))
      BY <1>2, <2>2, <3>1 DEF RowsStay
    <3>3. fallback[s].epoch \in Epochs
      BY <3>1, RowLife
    <3>4. Gone(fallback[s].epoch) => GoneNext(fallback[s].epoch)
      BY <3>3, GoneStays DEF FallbackInv
    <3> QED BY <2>1, <3>2, <3>4 DEF Gone, GoneNext
  <2> QED BY <2>3, <2>4
<1> QED BY <1>1, <1>2

\* What a lane has read holds of the tables and the position after the step.
CopyNext(c, r) ==
    \/ c = Unregistered
    \/ /\ c.state \in Live /\ fallback'[r].state # "none" /\ c.epoch = fallback'[r].epoch
       /\ c.state = "closing" => order'[r].posts = 1

SawNext(l) ==
    /\ lane[l].entry.epoch <= lane[l].seen.epoch
    /\ lane[l].seen.epoch <= position'.epoch
    /\ lane[l].seen.epoch = position'.epoch => position'.qty <= lane[l].seen.qty

TooLateNext(l) ==
    \A r \in Rows :
        /\ Posted(r)' /\ lane[l].row # r /\ fallback'[lane[l].row].state = "active"
        /\ fallback'[r].epoch = fallback'[lane[l].row].epoch
        => ~ Owned(lane[l].entry, lane[l].seen)

Kept(l) ==
    /\ \A r \in Rows : CopyNext(lane[l].todo[r], r)
    /\ lane[l].pc \notin {"idle", "loop"} =>
           /\ lane[l].row \in Rows /\ lane[l].entry # Unregistered
           /\ CopyNext(lane[l].entry, lane[l].row)
    /\ lane[l].pc \notin {"idle", "loop", "read"} => SawNext(l)
    /\ lane[l].pc = "ticker" =>
           lane[l].entry.state = "active" /\ Owned(lane[l].entry, lane[l].seen)
    /\ lane[l].pc \in {"post", "acked", "readback", "open", "fills", "persist"} =>
           order'[lane[l].row].posts = 1
    /\ lane[l].pc \in {"decide", "ticker"} => TooLateNext(l)

LEMMA LaneKept ==
    ASSUME FallbackInv, VenueFits', RowsStay, PositionMoves, NEW l \in Lanes
    PROVE  Kept(l)
<1> USE DEF FallbackInv
<1>1. LaneOK(l)
  OBVIOUS
<1>2. \A r \in Rows : CopyNext(lane[l].todo[r], r)
  BY <1>1 DEF LaneOK, IsCopy, CopyNext, RowsStay, Posted
<1>3. lane[l].pc \notin {"idle", "loop"} =>
        /\ lane[l].row \in Rows /\ lane[l].entry # Unregistered
        /\ IsCopy(lane[l].entry, lane[l].row) /\ CopyNext(lane[l].entry, lane[l].row)
        /\ fallback[lane[l].row].state # "none"
  <2>1. lane[l].pc \notin {"idle", "loop"} =>
          /\ lane[l].row \in Rows /\ lane[l].entry # Unregistered
          /\ IsCopy(lane[l].entry, lane[l].row)
    BY <1>1 DEF LaneOK
  <2> QED BY <2>1 DEF IsCopy, CopyNext, RowsStay, Posted
<1>4. lane[l].pc \notin {"idle", "loop", "read"} => SawNext(l)
  <2>1. position'.epoch \in Nat /\ position'.qty \in Nat
    BY Zenon DEF VenueFits, Readings
  <2> QED BY <1>1, <2>1, VenueFields, LaneFields DEF LaneOK, Saw, SawNext, PositionMoves
<1>5. lane[l].pc \in {"post", "acked", "readback", "open", "fills", "persist"} =>
        order'[lane[l].row].posts = 1
  BY <1>1, <1>3 DEF LaneOK, RowsStay, Posted
<1>6. ASSUME lane[l].pc \in {"decide", "ticker"}, NEW r \in Rows, Posted(r)',
             lane[l].row # r, fallback'[lane[l].row].state = "active",
             fallback'[r].epoch = fallback'[lane[l].row].epoch
      PROVE  ~ Owned(lane[l].entry, lane[l].seen)
  <2>1. /\ fallback[lane[l].row].state = "active"
        /\ fallback'[lane[l].row].epoch = fallback[lane[l].row].epoch
    BY <1>3, <1>6 DEF RowsStay
  <2>2. fallback[r].state # "none" /\ fallback'[r].epoch = fallback[r].epoch
    BY <1>6 DEF RowsStay, RowsOK, RowOK
  <2>3. fallback[r].state # "active"
    BY <1>3, <1>6, <2>1, <2>2 DEF RowsOK, Apart
  <2>4. Posted(r)
    BY <1>6, <2>3 DEF RowsStay
  <2> QED BY <1>1, <1>6, <2>1, <2>2, <2>4 DEF LaneOK, TooLate
<1>7. lane[l].pc = "ticker" =>
        lane[l].entry.state = "active" /\ Owned(lane[l].entry, lane[l].seen)
  BY <1>1 DEF LaneOK
<1> QED BY <1>2, <1>3, <1>4, <1>5, <1>6, <1>7 DEF Kept, TooLateNext

\* A lane that does not move keeps what it has.
LEMMA LaneStays ==
    ASSUME NEW l \in Lanes, Kept(l), lane'[l] = lane[l]
    PROVE  LaneOK(l)'
BY DEF Kept, LaneOK, IsCopy, CopyNext, Saw, SawNext, TooLate, TooLateNext, Posted

\* A lane's record is replaced.
LEMMA LaneMoves ==
    ASSUME FallbackInv, \A k \in Lanes : Kept(k), NEW l \in Lanes, NEW r \in LaneRecords,
           lane' = [lane EXCEPT ![l] = r]
    PROVE  /\ lane' \in [Lanes -> LaneRecords] /\ lane'[l] = r
           /\ \A k \in Lanes \ {l} : LaneOK(k)'
<1>1. /\ lane' \in [Lanes -> LaneRecords] /\ lane'[l] = r
      /\ \A k \in Lanes \ {l} : lane'[k] = lane[k]
  BY Zenon DEF FallbackInv, LanesFit
<1> QED BY <1>1, LaneStays

\* All that a lane must know when it stands between two rows are its copies of the others.
LEMMA BetweenRows ==
    ASSUME NEW l \in Lanes, lane'[l].pc \in {"idle", "loop"},
           \A r \in Rows : CopyNext(lane'[l].todo[r], r)
    PROVE  LaneOK(l)'
BY DEF LaneOK, IsCopy, CopyNext, Posted

LEMMA RestingFits ==
    /\ Nothing \in [Rows -> RowRecords] /\ Unregistered \in RowRecords
    /\ Resting \in LaneRecords /\ Resting.pc = "idle" /\ Resting.todo = Nothing
    /\ \A r \in Rows : Nothing[r] = Unregistered
<1>1. "none" \in Lifecycle /\ "none" \in Reasons /\ "idle" \in LanePcs
  BY DEF Lifecycle, Reasons, LanePcs
<1>2. 0 \in Nat /\ 0 \in Int
  OBVIOUS
<1>3. Unregistered \in RowRecords
  BY <1>1, <1>2, Zenon DEF Unregistered, RowRecords
<1>4. Nothing \in [Rows -> RowRecords] /\ \A r \in Rows : Nothing[r] = Unregistered
  BY <1>3, Zenon DEF Nothing
<1>5. Flat \in Readings
  BY <1>2, Zenon DEF Flat, Readings
<1>6. Resting \in LaneRecords
  BY <1>1, <1>2, <1>3, <1>4, <1>5, Zenon DEF Resting, LaneRecords
<1>7. Resting.pc = "idle" /\ Resting.todo = Nothing
  BY Zenon DEF Resting
<1> QED BY <1>3, <1>4, <1>6, <1>7

\* A lane is done with its row.
LEMMA NextRowFits ==
    ASSUME FallbackInv, \A k \in Lanes : Kept(k), NEW l \in Lanes, NextRow(l)
    PROVE  lane' \in [Lanes -> LaneRecords] /\ \A k \in Lanes : LaneOK(k)'
<1> DEFINE r == IF lane[l].todo = Nothing THEN Resting
                ELSE [Resting EXCEPT !.pc = "loop", !.todo = lane[l].todo]
<1>1. lane' = [lane EXCEPT ![l] = r]
  BY Zenon DEF NextRow
<1>2. lane[l].todo \in [Rows -> RowRecords]
  BY LaneFields DEF FallbackInv
<1>3. r \in LaneRecords /\ r.pc \in {"idle", "loop"} /\ r.todo = lane[l].todo
  <2>1. CASE lane[l].todo = Nothing
    BY <2>1, RestingFits
  <2>2. CASE lane[l].todo # Nothing
    <3>1. "loop" \in LanePcs
      BY DEF LanePcs
    <3>2. /\ [Resting EXCEPT !.pc = "loop", !.todo = lane[l].todo] \in LaneRecords
          /\ [Resting EXCEPT !.pc = "loop", !.todo = lane[l].todo].pc = "loop"
          /\ [Resting EXCEPT !.pc = "loop", !.todo = lane[l].todo].todo = lane[l].todo
      BY <1>2, <3>1, RestingFits, Zenon DEF LaneRecords
    <3> QED BY <2>2, <3>2
  <2> QED BY <2>1, <2>2
<1> HIDE DEF r
<1>4. /\ lane' \in [Lanes -> LaneRecords] /\ lane'[l] = r
      /\ \A k \in Lanes \ {l} : LaneOK(k)'
  BY <1>1, <1>3, LaneMoves
<1>5. LaneOK(l)'
  BY <1>3, <1>4, BetweenRows DEF Kept
<1> QED BY <1>4, <1>5

\* A lane goes on to another place with its row.
LEMMA GotoFits ==
    ASSUME FallbackInv, \A k \in Lanes : Kept(k), NEW l \in Lanes, NEW pc \in LanePcs,
           Goto(l, pc),
           lane[l].pc \notin {"idle", "loop", "read"}, pc \notin {"idle", "loop", "read"},
           pc = "ticker" => lane[l].entry.state = "active"
                            /\ Owned(lane[l].entry, lane[l].seen),
           pc \in {"decide", "ticker"} => lane[l].pc \in {"decide", "ticker"},
           pc \notin {"decide", "ticker"} => order'[lane[l].row].posts = 1
    PROVE  lane' \in [Lanes -> LaneRecords] /\ \A k \in Lanes : LaneOK(k)'
<1> DEFINE r == [lane[l] EXCEPT !.pc = pc]
<1>1. lane' = [lane EXCEPT ![l] = r]
  BY Zenon DEF Goto
<1>2. /\ r \in LaneRecords /\ r.pc = pc /\ r.todo = lane[l].todo /\ r.row = lane[l].row
      /\ r.entry = lane[l].entry /\ r.seen = lane[l].seen
  <2>1. lane[l] \in LaneRecords
    BY LaneFields DEF FallbackInv
  <2> QED BY <2>1, Zenon DEF LaneRecords
<1> HIDE DEF r
<1>3. /\ lane' \in [Lanes -> LaneRecords] /\ lane'[l] = r
      /\ \A k \in Lanes \ {l} : LaneOK(k)'
  BY <1>1, <1>2, LaneMoves
<1>4. Kept(l)
  OBVIOUS
<1>5. LaneOK(l)'
  BY <1>2, <1>3, <1>4, SMTT(60)
     DEF Kept, LaneOK, IsCopy, CopyNext, Saw, SawNext, TooLate, TooLateNext, Posted, LanePcs
<1> QED BY <1>3, <1>5

-----------------------------------------------------------------------------
\* A step that leaves tables, orders and position alone.
Quiet == UNCHANGED <<position, fallback, closeIntent, order>>

LEMMA QuietStays ==
    ASSUME FallbackInv, Quiet, VenueFits'
    PROVE  /\ TablesFit' /\ RowsOK' /\ RowsStay /\ PositionMoves
           /\ \A k \in Lanes : Kept(k)
<1>1. RowsStay
  BY DEF Quiet, RowsStay, Posted
<1>2. PositionMoves
  BY VenueFields DEF FallbackInv, Quiet, PositionMoves
<1>3. TablesFit'
  BY DEF FallbackInv, Quiet, TablesFit
<1>4. RowsOK'
  BY DEF FallbackInv, Quiet, RowsOK, RowOK, GivenUp, Apart, Gone, Posted
<1> QED BY <1>1, <1>2, <1>3, <1>4, LaneKept

\* What load_active returns is a copy.
LEMMA LoadFits ==
    ASSUME FallbackInv
    PROVE  LoadActive \in [Rows -> RowRecords] /\ \A r \in Rows : IsCopy(LoadActive[r], r)
<1>1. ASSUME NEW r \in Rows
      PROVE  /\ [fallback[r] EXCEPT !.reason = "none"] \in RowRecords
             /\ [fallback[r] EXCEPT !.reason = "none"].state = fallback[r].state
             /\ [fallback[r] EXCEPT !.reason = "none"].epoch = fallback[r].epoch
  <2>1. "none" \in Reasons
    BY DEF Reasons
  <2>2. fallback[r] \in RowRecords
    BY TableFields DEF FallbackInv
  <2> QED BY <2>1, <2>2, Zenon DEF RowRecords
<1>2. ASSUME NEW r \in Rows
      PROVE  LoadActive[r] \in RowRecords /\ IsCopy(LoadActive[r], r)
  <2>1. CASE fallback[r].state \in Live
    <3>1. LoadActive[r] = [fallback[r] EXCEPT !.reason = "none"]
      BY <2>1, Zenon DEF LoadActive
    <3>2. fallback[r].state # "none" /\ (fallback[r].state = "closing" => Posted(r))
      BY <2>1 DEF Live, FallbackInv, RowsOK, RowOK
    <3> QED BY <1>1, <2>1, <3>1, <3>2 DEF IsCopy
  <2>2. CASE fallback[r].state \notin Live
    <3>1. LoadActive[r] = Unregistered
      BY <2>2, Zenon DEF LoadActive
    <3> QED BY <3>1, RestingFits DEF IsCopy
  <2> QED BY <2>1, <2>2
<1>3. LoadActive = [r \in Rows |-> LoadActive[r]]
  BY Zenon DEF LoadActive
<1> QED BY <1>2, <1>3

\* The stream's copy of the rows, as it was or loaded again.
LEMMA CacheFits ==
    ASSUME FallbackInv, Quiet, cache' \in {cache, LoadActive}
    PROVE  cache' \in [Rows -> RowRecords] /\ CopiesOK'
           /\ \A r \in Rows : CopyNext(cache'[r], r)
<1>1. cache' \in [Rows -> RowRecords] /\ \A r \in Rows : IsCopy(cache'[r], r)
  BY LoadFits DEF FallbackInv, LanesFit, CopiesOK
<1> QED BY <1>1 DEF CopiesOK, IsCopy, CopyNext, Quiet, Posted

LanesStep == lane' \in [Lanes -> LaneRecords] /\ \A k \in Lanes : LaneOK(k)'

LEMMA LanesAreNamed ==
    /\ "rest" \in Lanes
    /\ StreamOn => "stream" \in Lanes
BY DEF Lanes

\* RestLoad: the REST lane takes the rows as they are.
LEMMA RestLoadFits ==
    ASSUME FallbackInv, Quiet, \A k \in Lanes : Kept(k), RestLoad
    PROVE  LanesStep
<1> DEFINE r == [lane["rest"] EXCEPT !.pc = "loop", !.todo = LoadActive]
<1>1. lane' = [lane EXCEPT !["rest"] = r]
  BY Zenon DEF RestLoad
<1>2. r \in LaneRecords /\ r.pc = "loop" /\ r.todo = LoadActive
  <2>1. lane["rest"] \in LaneRecords /\ "loop" \in LanePcs
    BY LaneFields, LanesAreNamed DEF FallbackInv, LanePcs
  <2> QED BY <2>1, LoadFits, Zenon DEF LaneRecords
<1> HIDE DEF r
<1>3. /\ lane' \in [Lanes -> LaneRecords] /\ lane'["rest"] = r
      /\ \A k \in Lanes \ {"rest"} : LaneOK(k)'
  BY <1>1, <1>2, LaneMoves, LanesAreNamed
<1>4. \A x \in Rows : CopyNext(LoadActive[x], x)
  BY LoadFits DEF IsCopy, CopyNext, Quiet, Posted
<1>5. LaneOK("rest")'
  BY <1>2, <1>3, <1>4, BetweenRows, LanesAreNamed
<1> QED BY <1>3, <1>5 DEF LanesStep

\* StreamEvent: a mark hits some rows of the stream's copy.
LEMMA StreamEventFits ==
    ASSUME FallbackInv, Quiet, \A k \in Lanes : Kept(k), StreamEvent
    PROVE  LanesStep
<1>1. cache' \in {cache, LoadActive} /\ StreamOn
  BY Zenon DEF StreamEvent
<1>2. PICK mark \in Marks :
        LET hit == {r \in Rows \ fence : /\ cache'[r].state = "active"
                                         /\ CheckThresholds(mark, cache'[r].stop)}
        IN  lane' = [lane EXCEPT !["stream"] = [Resting EXCEPT
                  !.pc = "loop",
                  !.todo = [r \in Rows |-> IF r \in hit THEN cache'[r] ELSE Unregistered]]]
  BY Zenon DEF StreamEvent
<1> DEFINE hit == {r \in Rows \ fence : /\ cache'[r].state = "active"
                                        /\ CheckThresholds(mark, cache'[r].stop)}
           todo == [r \in Rows |-> IF r \in hit THEN cache'[r] ELSE Unregistered]
           rec == [Resting EXCEPT !.pc = "loop", !.todo = todo]
<1>3. lane' = [lane EXCEPT !["stream"] = rec]
  BY <1>2, Zenon
<1> HIDE DEF hit
<1>4. /\ todo \in [Rows -> RowRecords]
      /\ \A x \in Rows : CopyNext(todo[x], x)
  <2>1. \A x \in Rows : todo[x] = cache'[x] \/ todo[x] = Unregistered
    BY Zenon
  <2>2. \A x \in Rows : todo[x] \in RowRecords
    BY <1>1, <2>1, CacheFits, RestingFits
  <2>3. todo = [x \in Rows |-> todo[x]]
    BY Zenon
  <2> HIDE DEF todo
  <2> QED BY <1>1, <2>1, <2>2, <2>3, CacheFits DEF CopyNext
<1> HIDE DEF todo
<1>5. rec \in LaneRecords /\ rec.pc = "loop" /\ rec.todo = todo
  <2>1. "loop" \in LanePcs
    BY DEF LanePcs
  <2> QED BY <1>4, <2>1, RestingFits, Zenon DEF LaneRecords
<1> HIDE DEF rec
<1>6. /\ lane' \in [Lanes -> LaneRecords] /\ lane'["stream"] = rec
      /\ \A k \in Lanes \ {"stream"} : LaneOK(k)'
  BY <1>1, <1>3, <1>5, LaneMoves, LanesAreNamed
<1>7. LaneOK("stream")'
  BY <1>1, <1>4, <1>5, <1>6, BetweenRows, LanesAreNamed
<1> QED BY <1>6, <1>7 DEF LanesStep

\* A lane takes a row from its list: it holds a copy of it.
LEMMA HoldsRow ==
    ASSUME NEW l \in Lanes, lane'[l].pc = "read", lane'[l].row \in Rows,
           lane'[l].entry # Unregistered, CopyNext(lane'[l].entry, lane'[l].row),
           \A x \in Rows : CopyNext(lane'[l].todo[x], x)
    PROVE  LaneOK(l)'
BY DEF LaneOK, IsCopy, CopyNext, Posted

\* A list without one of its rows.
LEMMA ListWithout ==
    ASSUME NEW todo \in [Rows -> RowRecords], NEW x \in Rows,
           \A y \in Rows : CopyNext(todo[y], y)
    PROVE  /\ [todo EXCEPT ![x] = Unregistered] \in [Rows -> RowRecords]
           /\ \A y \in Rows : CopyNext([todo EXCEPT ![x] = Unregistered][y], y)
<1> DEFINE rest == [todo EXCEPT ![x] = Unregistered]
<1>1. /\ rest \in [Rows -> RowRecords] /\ rest[x] = Unregistered
      /\ \A y \in Rows \ {x} : rest[y] = todo[y]
  BY RestingFits, Zenon
<1> HIDE DEF rest
<1>2. \A y \in Rows : CopyNext(rest[y], y)
  BY <1>1 DEF CopyNext
<1> QED BY <1>1, <1>2 DEF rest

\* RestRow: the next row of the REST list.
LEMMA RestRowFits ==
    ASSUME FallbackInv, Quiet, \A k \in Lanes : Kept(k), RestRow
    PROVE  LanesStep
<1>1. PICK x \in Rows :
        /\ lane["rest"].todo[x] # Unregistered
        /\ lane' = [lane EXCEPT !["rest"].pc = "read", !["rest"].row = x,
                                !["rest"].entry = lane["rest"].todo[x],
                                !["rest"].todo = [@ EXCEPT ![x] = Unregistered]]
  BY Zenon DEF RestRow
<1> DEFINE entry == lane["rest"].todo[x]
           rest == [lane["rest"].todo EXCEPT ![x] = Unregistered]
           r == [lane["rest"] EXCEPT !.pc = "read", !.row = x, !.entry = entry, !.todo = rest]
<1>2. lane' = [lane EXCEPT !["rest"] = r]
  BY <1>1, Zenon
<1>3. /\ lane["rest"] \in LaneRecords /\ lane["rest"].todo \in [Rows -> RowRecords]
      /\ \A y \in Rows : CopyNext(lane["rest"].todo[y], y)
  BY LaneFields, LanesAreNamed DEF FallbackInv, Kept
<1>4. /\ rest \in [Rows -> RowRecords] /\ \A y \in Rows : CopyNext(rest[y], y)
  BY <1>3, ListWithout
<1>5. entry \in RowRecords /\ entry # Unregistered /\ CopyNext(entry, x)
  BY <1>1, <1>3
<1> HIDE DEF entry, rest
<1>6. r \in LaneRecords /\ r.pc = "read" /\ r.row = x /\ r.entry = entry /\ r.todo = rest
  <2>1. "read" \in LanePcs /\ x \in Rows \cup {0}
    BY DEF LanePcs
  <2> QED BY <1>3, <1>4, <1>5, <2>1, Zenon DEF LaneRecords
<1> HIDE DEF r
<1>7. /\ lane' \in [Lanes -> LaneRecords] /\ lane'["rest"] = r
      /\ \A k \in Lanes \ {"rest"} : LaneOK(k)'
  BY <1>2, <1>6, LaneMoves, LanesAreNamed
<1>8. LaneOK("rest")'
  BY <1>4, <1>5, <1>6, <1>7, HoldsRow, LanesAreNamed
<1> QED BY <1>7, <1>8 DEF LanesStep

\* StreamRow: the next hit of the stream, looked up again.
LEMMA StreamRowFits ==
    ASSUME FallbackInv, Quiet, \A k \in Lanes : Kept(k), StreamRow
    PROVE  LanesStep
<1>1. /\ cache' \in {cache, LoadActive} /\ "stream" \in Lanes /\ lane["stream"].pc = "loop"
      /\ lane["stream"].pc \in {"idle", "loop"}
  BY LanesAreNamed DEF StreamRow
<1>2. PICK x \in Rows :
        LET rest == [lane["stream"].todo EXCEPT ![x] = Unregistered]
            found == [lane["stream"] EXCEPT !.pc = "read", !.row = x, !.entry = cache'[x],
                                            !.todo = rest]
            missing == IF rest = Nothing THEN Resting
                                         ELSE [lane["stream"] EXCEPT !.todo = rest]
        IN  lane' = [lane EXCEPT !["stream"] =
                        IF cache'[x] = Unregistered THEN missing ELSE found]
  BY Zenon DEF StreamRow
<1> DEFINE rest == [lane["stream"].todo EXCEPT ![x] = Unregistered]
           entry == cache'[x]
<1>3. /\ lane["stream"] \in LaneRecords /\ lane["stream"].todo \in [Rows -> RowRecords]
      /\ \A y \in Rows : CopyNext(lane["stream"].todo[y], y)
  BY <1>1, LaneFields DEF FallbackInv, Kept
<1>4. /\ rest \in [Rows -> RowRecords] /\ \A y \in Rows : CopyNext(rest[y], y)
  BY <1>3, ListWithout
<1>5. entry \in RowRecords /\ CopyNext(entry, x)
  BY <1>1, CacheFits
<1>6. CASE entry = Unregistered /\ rest = Nothing
  <2>1. lane' = [lane EXCEPT !["stream"] = Resting]
    BY <1>2, <1>6, Zenon
  <2>2. /\ lane' \in [Lanes -> LaneRecords] /\ lane'["stream"] = Resting
        /\ \A k \in Lanes \ {"stream"} : LaneOK(k)'
    BY <1>1, <2>1, LaneMoves, RestingFits
  <2>3. LaneOK("stream")'
    BY <1>1, <2>2, RestingFits, BetweenRows DEF CopyNext
  <2> QED BY <2>2, <2>3 DEF LanesStep
<1>7. CASE entry = Unregistered /\ rest # Nothing
  <2> DEFINE r == [lane["stream"] EXCEPT !.todo = rest]
  <2>1. lane' = [lane EXCEPT !["stream"] = r]
    BY <1>2, <1>7, Zenon
  <2> HIDE DEF rest
  <2>2. r \in LaneRecords /\ r.pc = lane["stream"].pc /\ r.todo = rest
    BY <1>3, <1>4, Zenon DEF LaneRecords
  <2> HIDE DEF r
  <2>3. /\ lane' \in [Lanes -> LaneRecords] /\ lane'["stream"] = r
        /\ \A k \in Lanes \ {"stream"} : LaneOK(k)'
    BY <1>1, <2>1, <2>2, LaneMoves
  <2>4. LaneOK("stream")'
    BY <1>1, <1>4, <2>2, <2>3, BetweenRows
  <2> QED BY <2>3, <2>4 DEF LanesStep
<1>8. CASE entry # Unregistered
  <2> DEFINE r == [lane["stream"] EXCEPT !.pc = "read", !.row = x, !.entry = entry,
                                         !.todo = rest]
  <2>1. lane' = [lane EXCEPT !["stream"] = r]
    BY <1>2, <1>8, Zenon
  <2> HIDE DEF rest, entry
  <2>2. r \in LaneRecords /\ r.pc = "read" /\ r.row = x /\ r.entry = entry /\ r.todo = rest
    <3>1. "read" \in LanePcs /\ x \in Rows \cup {0}
      BY DEF LanePcs
    <3> QED BY <1>3, <1>4, <1>5, <3>1, Zenon DEF LaneRecords
  <2> HIDE DEF r
  <2>3. /\ lane' \in [Lanes -> LaneRecords] /\ lane'["stream"] = r
        /\ \A k \in Lanes \ {"stream"} : LaneOK(k)'
    BY <1>1, <2>1, <2>2, LaneMoves
  <2>4. LaneOK("stream")'
    BY <1>1, <1>4, <1>5, <1>8, <2>2, <2>3, HoldsRow
  <2> QED BY <2>3, <2>4 DEF LanesStep
<1> QED BY <1>6, <1>7, <1>8

\* ReadPosition: what is open can only have become less since the row was registered, and if
\* another row of the lifetime has sent its close it is no longer whole.
LEMMA ReadPositionFits ==
    ASSUME FallbackInv, Quiet, \A k \in Lanes : Kept(k), NEW l \in Lanes, ReadPosition(l)
    PROVE  LanesStep
<1> DEFINE r == [lane[l] EXCEPT !.pc = "decide", !.seen = position]
<1>1. lane' = [lane EXCEPT ![l] = r] /\ lane[l].pc = "read"
  BY Zenon DEF ReadPosition
<1>2. /\ r \in LaneRecords /\ r.pc = "decide" /\ r.seen = position /\ r.row = lane[l].row
      /\ r.entry = lane[l].entry /\ r.todo = lane[l].todo
  <2>1. lane[l] \in LaneRecords /\ "decide" \in LanePcs /\ position \in Readings
    BY LaneFields DEF FallbackInv, LanePcs, VenueFits
  <2> QED BY <2>1, Zenon DEF LaneRecords
<1> HIDE DEF r
<1>3. /\ lane' \in [Lanes -> LaneRecords] /\ lane'[l] = r
      /\ \A k \in Lanes \ {l} : LaneOK(k)'
  BY <1>1, <1>2, LaneMoves
<1>4. /\ lane[l].row \in Rows /\ lane[l].entry # Unregistered
      /\ IsCopy(lane[l].entry, lane[l].row)
      /\ \A x \in Rows : IsCopy(lane[l].todo[x], x)
  BY <1>1 DEF FallbackInv, LaneOK
<1>5. /\ lane[l].entry.epoch = fallback[lane[l].row].epoch
      /\ fallback[lane[l].row].epoch \in Epochs
      /\ fallback[lane[l].row].epoch <= position.epoch
  BY <1>4, RowLife DEF IsCopy
<1>6. ASSUME NEW x \in Rows, Posted(x), lane[l].row # x,
             fallback[lane[l].row].state = "active",
             fallback[x].epoch = fallback[lane[l].row].epoch
      PROVE  ~ Owned(lane[l].entry, position)
  <2>1. Gone(fallback[lane[l].row].epoch)
    BY <1>4, <1>6 DEF FallbackInv, RowsOK, Apart
  <2>2. EntryQty[fallback[lane[l].row].epoch] \in Nat
    BY <1>5 DEF Epochs
  <2> QED BY <1>5, <2>1, <2>2, VenueFields DEF Gone, Owned, FallbackInv, Epochs
<1>7. /\ lane[l].entry.epoch <= position.epoch /\ position.qty <= position.qty
  BY <1>5, VenueFields DEF FallbackInv
<1>8. /\ position' = position /\ fallback' = fallback /\ order' = order
  BY DEF Quiet
<1>9. LaneOK(l)'
  <2>1. \A x \in Rows : IsCopy(lane[l].todo[x], x)'
    BY <1>2, <1>3, <1>4, <1>8 DEF IsCopy, Posted
  <2>2. /\ lane'[l].row \in Rows /\ lane'[l].entry # Unregistered
        /\ IsCopy(lane[l].entry, lane[l].row)'
    BY <1>2, <1>3, <1>4, <1>8 DEF IsCopy, Posted
  <2>3. Saw(l)'
    BY <1>2, <1>3, <1>7, <1>8, VenueFields DEF Saw, FallbackInv
  <2>4. TooLate(l)'
    BY <1>2, <1>3, <1>6, <1>8 DEF TooLate, Posted
  <2> QED BY <1>2, <1>3, <2>1, <2>2, <2>3, <2>4 DEF LaneOK
<1> QED BY <1>3, <1>9 DEF LanesStep

\* ReadBack: the same read, after the close was acknowledged.
LEMMA ReadBackFits ==
    ASSUME FallbackInv, Quiet, \A k \in Lanes : Kept(k), NEW l \in Lanes, ReadBack(l)
    PROVE  LanesStep
<1> DEFINE pc == IF position.qty = 0 THEN "fills" ELSE "open"
           r == [lane[l] EXCEPT !.seen = position, !.pc = pc]
<1>1. lane' = [lane EXCEPT ![l] = r] /\ lane[l].pc = "readback"
  BY Zenon DEF ReadBack
<1>2. pc \in {"fills", "open"} /\ pc \in LanePcs
  BY DEF LanePcs
<1> HIDE DEF pc
<1>3. /\ r \in LaneRecords /\ r.pc = pc /\ r.seen = position /\ r.row = lane[l].row
      /\ r.entry = lane[l].entry /\ r.todo = lane[l].todo
  <2>1. lane[l] \in LaneRecords /\ position \in Readings
    BY LaneFields DEF FallbackInv, VenueFits
  <2> QED BY <1>2, <2>1, Zenon DEF LaneRecords
<1> HIDE DEF r
<1>4. /\ lane' \in [Lanes -> LaneRecords] /\ lane'[l] = r
      /\ \A k \in Lanes \ {l} : LaneOK(k)'
  BY <1>1, <1>3, LaneMoves
<1>5. /\ lane[l].row \in Rows /\ lane[l].entry # Unregistered
      /\ IsCopy(lane[l].entry, lane[l].row) /\ Posted(lane[l].row)
      /\ \A x \in Rows : IsCopy(lane[l].todo[x], x)
  BY <1>1 DEF FallbackInv, LaneOK
<1>6. /\ lane[l].entry.epoch <= position.epoch /\ position.qty <= position.qty
  <2>1. /\ lane[l].entry.epoch = fallback[lane[l].row].epoch
        /\ fallback[lane[l].row].epoch <= position.epoch
    BY <1>5, RowLife DEF IsCopy
  <2> QED BY <2>1, VenueFields DEF FallbackInv
<1>7. /\ position' = position /\ fallback' = fallback /\ order' = order
  BY DEF Quiet
<1>8. LaneOK(l)'
  <2>1. \A x \in Rows : IsCopy(lane[l].todo[x], x)'
    BY <1>3, <1>4, <1>5, <1>7 DEF IsCopy, Posted
  <2>2. /\ lane'[l].row \in Rows /\ lane'[l].entry # Unregistered
        /\ IsCopy(lane[l].entry, lane[l].row)' /\ Posted(lane[l].row)'
    BY <1>3, <1>4, <1>5, <1>7 DEF IsCopy, Posted
  <2>3. Saw(l)'
    BY <1>3, <1>4, <1>6, <1>7, VenueFields DEF Saw, FallbackInv
  <2> QED BY <1>2, <1>3, <1>4, <2>1, <2>2, <2>3 DEF LaneOK
<1> QED BY <1>4, <1>8 DEF LanesStep

\* ReadFills: what the venue has of the close.
LEMMA ReadFillsFits ==
    ASSUME FallbackInv, Quiet, \A k \in Lanes : Kept(k), NEW l \in Lanes, ReadFills(l)
    PROVE  LanesStep
<1> DEFINE fills == order[lane[l].row].done
           r == [lane[l] EXCEPT !.pc = "persist", !.fills = fills]
<1>1. lane' = [lane EXCEPT ![l] = r] /\ lane[l].pc = "fills"
  BY Zenon DEF ReadFills
<1>2. lane[l].row \in Rows /\ Kept(l)
  BY <1>1 DEF FallbackInv, LaneOK
<1>3. fills \in Nat
  BY <1>2, TableFields DEF FallbackInv
<1> HIDE DEF fills
<1>4. /\ r \in LaneRecords /\ r.pc = "persist" /\ r.seen = lane[l].seen
      /\ r.row = lane[l].row /\ r.entry = lane[l].entry /\ r.todo = lane[l].todo
  <2>1. lane[l] \in LaneRecords /\ "persist" \in LanePcs
    BY LaneFields DEF FallbackInv, LanePcs
  <2> QED BY <1>3, <2>1, Zenon DEF LaneRecords
<1> HIDE DEF r
<1>5. /\ lane' \in [Lanes -> LaneRecords] /\ lane'[l] = r
      /\ \A k \in Lanes \ {l} : LaneOK(k)'
  BY <1>1, <1>4, LaneMoves
<1>6. LaneOK(l)'
  BY <1>1, <1>2, <1>4, <1>5, SMTT(60) DEF Kept, LaneOK, IsCopy, CopyNext, Saw, SawNext, Posted
<1> QED BY <1>5, <1>6 DEF LanesStep

-----------------------------------------------------------------------------
\* What a step leaves of the rows, besides the lanes.
RowsFit ==
    /\ RowsStay /\ PositionMoves
    /\ \A r \in Rows : RowOK(r)' /\ GivenUp(r)'
    /\ \A r, s \in Rows : Apart(r, s)'
    /\ \A k \in Lanes : Kept(k)

\* A step whose rows, lanes and venue fit keeps the invariant.
LEMMA StepFits ==
    ASSUME FallbackInv, TablesFit', VenueFits', RowsFit, LanesStep,
           cache' \in [Rows -> RowRecords], cache' = cache \/ CopiesOK'
    PROVE  FallbackInv'
<1>1. CopiesOK'
  <2>1. CASE cache' = cache
    BY <2>1 DEF FallbackInv, CopiesOK, IsCopy, RowsFit, RowsStay, Posted
  <2> QED BY <2>1
<1> QED BY <1>1 DEF FallbackInv, LanesFit, LanesStep, RowsOK, RowsFit

\* Quiet steps leave the rows as they are.
LEMMA QuietRowsFit ==
    ASSUME FallbackInv, Quiet, VenueFits'
    PROVE  TablesFit' /\ RowsFit
BY QuietStays DEF RowsFit, RowsOK

\* A close that was sent by a row that is given up stays justified.
LEMMA GivenUpStays ==
    ASSUME FallbackInv, VenueFits', PositionMoves, NEW r \in Rows, Posted(r),
           fallback[r].state \notin Live
    PROVE  GoneNext(fallback[r].epoch)
<1>1. Gone(fallback[r].epoch) /\ fallback[r].state # "none"
  BY DEF FallbackInv, RowsOK, RowOK, GivenUp
<1> QED BY <1>1, RowLife, GoneStays DEF FallbackInv

\* A process writes one registered row and its intent; orders and position stay.
LEMMA RowWritten ==
    ASSUME FallbackInv, VenueFits', UNCHANGED <<position, order>>, NEW x \in Rows,
           \A r \in Rows \ {x} : fallback'[r] = fallback[r] /\ closeIntent'[r] = closeIntent[r],
           fallback[x].state # "none", fallback'[x].state # "none",
           fallback'[x].epoch = fallback[x].epoch,
           closeIntent'[x].state = "none" <=> closeIntent[x].state = "none",
           fallback'[x].state = "active" => fallback[x].state = "active",
           fallback'[x].state = "closing" => Posted(x),
           Posted(x) /\ fallback'[x].state \notin Live => Gone(fallback[x].epoch)
    PROVE  RowsFit
<1> USE DEF Posted
<1>1. \A r \in Rows : /\ fallback[r].state = "none" <=> fallback'[r].state = "none"
                      /\ fallback'[r].epoch = fallback[r].epoch
                      /\ fallback'[r].state = "active" => fallback[r].state = "active"
                      /\ closeIntent'[r].state = "none" <=> closeIntent[r].state = "none"
  OBVIOUS
<1>2. order' = order /\ position' = position
  OBVIOUS
<1>3. RowsStay
  BY <1>1, <1>2 DEF RowsStay
<1>4. PositionMoves
  BY <1>2, VenueFields DEF FallbackInv, PositionMoves
<1>5. \A r \in Rows : RowOK(r)'
  <2> TAKE r \in Rows
  <2>1. RowOK(r)
    BY DEF FallbackInv, RowsOK
  <2>2. CASE r = x
    BY <1>1, <1>2, <2>1, <2>2 DEF RowOK
  <2>3. CASE r # x
    BY <1>1, <1>2, <2>1, <2>3 DEF RowOK
  <2> QED BY <2>2, <2>3
<1>6. \A r \in Rows : GivenUp(r)'
  <2> TAKE r \in Rows
  <2>1. GivenUp(r)
    BY DEF FallbackInv, RowsOK
  <2> QED BY <1>1, <1>2, <2>1 DEF GivenUp, Gone
<1>7. \A r, s \in Rows : Apart(r, s)'
  BY <1>1, <1>3, <1>4, <1>5, RowsStayApart
<1> QED BY <1>3, <1>4, <1>5, <1>6, <1>7, LaneKept DEF RowsFit

\* The venue moves: rows and intents stay, no order is sent, and what an order may still take
\* is at most what is open.
LEMMA OrdersMoved ==
    ASSUME FallbackInv, VenueFits', PositionMoves, UNCHANGED <<fallback, closeIntent>>,
           \A r \in Rows : order'[r].posts = order[r].posts /\ order'[r].left <= position'.qty
    PROVE  RowsFit
<1> USE DEF Posted
<1>1. fallback' = fallback /\ closeIntent' = closeIntent
  OBVIOUS
<1>2. RowsStay
  BY <1>1 DEF RowsStay
<1>3. \A r \in Rows : RowOK(r)'
  <2> TAKE r \in Rows
  <2>1. RowOK(r)
    BY DEF FallbackInv, RowsOK
  <2>2. position'.epoch \in Nat /\ position.epoch <= position'.epoch
    BY VenueFields DEF VenueFits, Readings, PositionMoves, FallbackInv
  <2>3. fallback[r].epoch \in Nat /\ position.epoch \in Nat
    BY TableFields, VenueFields DEF FallbackInv
  <2> QED BY <1>1, <2>1, <2>2, <2>3 DEF RowOK
<1>4. \A r \in Rows : GivenUp(r)'
  <2> TAKE r \in Rows
  <2> SUFFICES ASSUME Posted(r), fallback[r].state \notin Live
               PROVE  Gone(fallback[r].epoch)'
    BY <1>1 DEF GivenUp
  <2>1. GoneNext(fallback[r].epoch)
    BY GivenUpStays
  <2> QED BY <1>1, <2>1 DEF Gone, GoneNext
<1>5. \A r, s \in Rows : Apart(r, s)'
  BY <1>1, <1>2, <1>3, RowsStayApart
<1> QED BY <1>2, <1>3, <1>4, <1>5, LaneKept DEF RowsFit

\* A step that moves no lane.
LEMMA LanesStand ==
    ASSUME FallbackInv, \A k \in Lanes : Kept(k), UNCHANGED lane
    PROVE  LanesStep
BY LaneStays DEF LanesStep, FallbackInv, LanesFit

-----------------------------------------------------------------------------
\* The lanes' steps that only read.
LEMMA RecoverClosingFits ==
    ASSUME FallbackInv, Quiet, \A k \in Lanes : Kept(k), NEW l \in Lanes, RecoverClosing(l)
    PROVE  LanesStep
<1>1. lane[l].pc = "decide" /\ lane[l].entry.state = "closing" /\ Goto(l, "fills")
  BY Zenon DEF RecoverClosing
<1>2. order'[lane[l].row].posts = 1
  <2>1. CopyNext(lane[l].entry, lane[l].row) /\ lane[l].entry # Unregistered
    BY <1>1 DEF Kept
  <2> QED BY <1>1, <2>1 DEF CopyNext
<1>3. "fills" \in LanePcs
  BY DEF LanePcs
<1> QED BY <1>1, <1>2, <1>3, GotoFits DEF LanesStep

LEMMA AskTickerFits ==
    ASSUME FallbackInv, Quiet, \A k \in Lanes : Kept(k), AskTicker
    PROVE  LanesStep
<1>1. /\ lane["rest"].pc = "decide" /\ lane["rest"].entry.state = "active"
      /\ Owned(lane["rest"].entry, lane["rest"].seen) /\ Goto("rest", "ticker")
  BY Zenon DEF AskTicker
<1>2. "ticker" \in LanePcs
  BY DEF LanePcs
<1> QED BY <1>1, <1>2, GotoFits, LanesAreNamed DEF LanesStep

LEMMA RestartFits ==
    ASSUME FallbackInv, Quiet, Restart
    PROVE  LanesStep /\ cache' \in [Rows -> RowRecords] /\ CopiesOK'
<1>1. lane' = [l \in Lanes |-> Resting] /\ cache' = Nothing
  BY Zenon DEF Restart
<1>2. lane' \in [Lanes -> LaneRecords] /\ \A k \in Lanes : lane'[k] = Resting
  BY <1>1, RestingFits, Zenon
<1>3. \A k \in Lanes : LaneOK(k)'
  BY <1>2, RestingFits, BetweenRows DEF CopyNext
<1>4. CopiesOK'
  BY <1>1, RestingFits DEF CopiesOK, IsCopy
<1> QED BY <1>1, <1>2, <1>3, <1>4, RestingFits DEF LanesStep

\* A step that writes no table and is not the venue's.
LaneReads(l) ==
    \/ ReadPosition(l) \/ ReadPositionFails(l) \/ RecoverClosing(l) \/ Disown(l)
    \/ ReadBack(l) \/ ReadFills(l)

Reads ==
    \/ \E l \in Lanes : LaneReads(l)
    \/ RestLoad \/ RestRow \/ AskTicker \/ MarkCalm \/ StreamEvent \/ StreamRow
    \/ Restart

LEMMA ReadsFit ==
    ASSUME FallbackInv, Reads
    PROVE  FallbackInv'
<1>1. Quiet /\ UNCHANGED sighting
  BY Zenon DEF Reads, LaneReads, ReadPosition, ReadPositionFails, RecoverClosing, Disown,
               ReadBack, ReadFills, RestLoad, RestRow, AskTicker, MarkCalm, StreamEvent,
               StreamRow, Restart, Quiet, tables
<1>2. VenueFits'
  BY <1>1 DEF FallbackInv, VenueFits, Quiet
<1>3. TablesFit' /\ RowsFit /\ \A k \in Lanes : Kept(k)
  BY <1>1, <1>2, QuietRowsFit DEF RowsFit
<1>4. CASE Restart
  BY <1>1, <1>2, <1>3, <1>4, RestartFits, StepFits
<1>5. CASE StreamEvent \/ StreamRow
  <2>1. cache' \in {cache, LoadActive}
    BY <1>5, Zenon DEF StreamEvent, StreamRow
  <2>2. LanesStep
    BY <1>1, <1>3, <1>5, StreamEventFits, StreamRowFits
  <2> QED BY <1>1, <1>2, <1>3, <2>1, <2>2, CacheFits, StepFits
<1>6. CASE RestLoad \/ RestRow \/ AskTicker \/ MarkCalm \/ \E l \in Lanes : LaneReads(l)
  <2>1. cache' = cache /\ cache' \in [Rows -> RowRecords]
    <3>1. cache' = cache
      BY <1>6, Zenon DEF LaneReads, ReadPosition, ReadPositionFails, RecoverClosing, Disown,
                         ReadBack, ReadFills, RestLoad, RestRow, AskTicker, MarkCalm
    <3> QED BY <3>1 DEF FallbackInv, LanesFit
  <2>2. CASE RestLoad \/ RestRow \/ AskTicker
    BY <1>1, <1>2, <1>3, <2>1, <2>2, RestLoadFits, RestRowFits, AskTickerFits, StepFits
  <2>3. CASE MarkCalm
    <3>1. NextRow("rest")
      BY <2>3, Zenon DEF MarkCalm
    <3> QED BY <1>2, <1>3, <2>1, <3>1, NextRowFits, LanesAreNamed, StepFits DEF LanesStep
  <2>4. ASSUME NEW l \in Lanes, LaneReads(l)
        PROVE  LanesStep
    <3>1. CASE ReadPositionFails(l) \/ Disown(l)
      <4>1. NextRow(l)
        BY <3>1, Zenon DEF ReadPositionFails, Disown
      <4> QED BY <1>3, <4>1, NextRowFits DEF LanesStep
    <3>2. CASE ReadPosition(l) \/ ReadBack(l) \/ ReadFills(l) \/ RecoverClosing(l)
      BY <1>1, <1>3, <3>2, ReadPositionFits, ReadBackFits, ReadFillsFits,
         RecoverClosingFits
    <3> QED BY <2>4, <3>1, <3>2 DEF LaneReads
  <2> QED BY <1>2, <1>3, <1>6, <2>1, <2>2, <2>3, <2>4, StepFits
<1> QED BY <1>4, <1>5, <1>6 DEF Reads

\* SightPosition: another process reads the position.
LEMMA SightPositionFits ==
    ASSUME FallbackInv, SightPosition
    PROVE  FallbackInv'
<1>1. Quiet /\ UNCHANGED <<lane, cache>> /\ sighting' = position /\ position.qty > 0
  BY Zenon DEF SightPosition, Quiet, tables
<1>2. VenueFits'
  BY <1>1, VenueFields DEF FallbackInv, VenueFits, Quiet
<1>3. TablesFit' /\ RowsFit
  BY <1>1, <1>2, QuietRowsFit
<1>4. LanesStep /\ cache' = cache /\ cache' \in [Rows -> RowRecords]
  BY <1>1, <1>3, LanesStand DEF RowsFit, FallbackInv, LanesFit
<1> QED BY <1>2, <1>3, <1>4, StepFits

-----------------------------------------------------------------------------
\* Writes to the tables.
LEMMA RowMarked ==
    ASSUME TablesFit, NEW x \in Rows, NEW s \in Lifecycle, NEW w \in Reasons,
           fallback' = [fallback EXCEPT ![x].state = s, ![x].reason = w]
    PROVE  /\ fallback' \in [Rows -> RowRecords]
           /\ fallback'[x].state = s /\ fallback'[x].reason = w
           /\ fallback'[x].epoch = fallback[x].epoch
           /\ \A r \in Rows \ {x} : fallback'[r] = fallback[r]
<1> DEFINE g == [fallback[x] EXCEPT !.state = s, !.reason = w]
<1>1. fallback' = [fallback EXCEPT ![x] = g]
  BY Zenon DEF TablesFit
<1>2. g \in RowRecords /\ g.state = s /\ g.reason = w /\ g.epoch = fallback[x].epoch
  <2>1. fallback[x] \in RowRecords
    BY TableFields
  <2> QED BY <2>1, Zenon DEF RowRecords
<1> HIDE DEF g
<1> QED BY <1>1, <1>2, ZenonT(60) DEF TablesFit

LEMMA IntentMarked ==
    ASSUME TablesFit, NEW x \in Rows, NEW s \in CloseStates,
           closeIntent' = UpdateCloseIntent(x, s)
    PROVE  /\ closeIntent' \in [Rows -> IntentRecords] /\ closeIntent'[x].state = s
           /\ \A r \in Rows \ {x} : closeIntent'[r] = closeIntent[r]
<1> DEFINE g == [closeIntent[x] EXCEPT !.state = s]
<1>1. closeIntent' = [closeIntent EXCEPT ![x] = g]
  BY Zenon DEF UpdateCloseIntent
<1>2. g \in IntentRecords /\ g.state = s
  <2>1. closeIntent[x] \in IntentRecords
    BY Zenon DEF TablesFit
  <2> QED BY <2>1, Zenon DEF IntentRecords
<1> HIDE DEF g
<1> QED BY <1>1, <1>2, Zenon DEF TablesFit

\* What a lane that has sent its close knows of the row.
LEMMA SentRow ==
    ASSUME FallbackInv, NEW x \in Rows, Posted(x)
    PROVE  /\ fallback[x].state \notin {"none", "active"} /\ closeIntent[x].state # "none"
           /\ fallback[x].state \notin Live => Gone(fallback[x].epoch)
BY DEF FallbackInv, RowsOK, RowOK, GivenUp

\* A lane writes the intent of a close it has sent.
LEMMA IntentWritten ==
    ASSUME FallbackInv, UNCHANGED <<position, fallback, order, sighting>>, NEW x \in Rows,
           Posted(x), NEW s \in CloseStates \ {"none"}, closeIntent' = UpdateCloseIntent(x, s)
    PROVE  TablesFit' /\ RowsFit
<1>1. /\ closeIntent' \in [Rows -> IntentRecords] /\ closeIntent'[x].state = s
      /\ \A r \in Rows \ {x} : closeIntent'[r] = closeIntent[r]
  BY IntentMarked DEF FallbackInv
<1>2. VenueFits' /\ TablesFit'
  BY <1>1 DEF FallbackInv, VenueFits, TablesFit
<1> QED BY <1>1, <1>2, SentRow, RowWritten

\* A lane that has done with its row and wrote only tables.
LEMMA LaneWrote ==
    ASSUME FallbackInv, TablesFit', RowsFit, UNCHANGED <<position, sighting, cache>>,
           NEW l \in Lanes, NextRow(l)
    PROVE  FallbackInv'
<1>1. LanesStep
  BY NextRowFits DEF RowsFit, LanesStep
<1>2. VenueFits' /\ cache' = cache /\ cache' \in [Rows -> RowRecords]
  BY DEF FallbackInv, VenueFits, LanesFit
<1> QED BY <1>1, <1>2, StepFits

\* What a lane knows of the row it holds.
LEMMA LaneRow ==
    ASSUME FallbackInv, NEW l \in Lanes, lane[l].pc \notin {"idle", "loop"}
    PROVE  /\ lane[l].row \in Rows /\ fallback[lane[l].row].state # "none"
           /\ lane[l].entry.epoch = fallback[lane[l].row].epoch
           /\ lane[l].pc \notin {"read", "decide", "ticker"} => Posted(lane[l].row)
<1>1. LaneOK(l) /\ lane[l].pc \in LanePcs
  BY Zenon DEF FallbackInv, LanesFit, LaneRecords
<1> QED BY <1>1 DEF LaneOK, IsCopy, LanePcs

\* PostFails, StillOpen, EvidenceFails: the lane writes the state of its intent, or nothing.
LEMMA IntentStepsFit ==
    ASSUME FallbackInv, NEW l \in Lanes, PostFails(l) \/ StillOpen(l) \/ EvidenceFails(l)
    PROVE  FallbackInv'
<1>1. /\ UNCHANGED <<position, fallback, order, sighting, cache>> /\ NextRow(l)
      /\ lane[l].pc \in {"post", "open", "readback", "fills"}
      /\ \/ closeIntent' = closeIntent
         \/ closeIntent' = UpdateCloseIntent(lane[l].row, "unknown")
         \/ closeIntent' = UpdateCloseIntent(lane[l].row, "submitted")
  BY DEF PostFails, StillOpen, EvidenceFails
<1>2. lane[l].row \in Rows /\ Posted(lane[l].row)
  BY <1>1, LaneRow
<1>3. CASE closeIntent' = closeIntent
  <2>1. Quiet /\ VenueFits'
    BY <1>1, <1>3 DEF Quiet, FallbackInv, VenueFits
  <2> QED BY <1>1, <2>1, QuietRowsFit, LaneWrote
<1>4. ASSUME NEW s \in {"unknown", "submitted"},
             closeIntent' = UpdateCloseIntent(lane[l].row, s)
      PROVE  FallbackInv'
  <2>1. s \in CloseStates \ {"none"}
    BY DEF CloseStates
  <2> QED BY <1>1, <1>2, <1>4, <2>1, IntentWritten, LaneWrote
<1> QED BY <1>1, <1>3, <1>4

\* Acknowledge: row and intent say that the close was sent.
LEMMA AcknowledgeFits ==
    ASSUME FallbackInv, NEW l \in Lanes, Acknowledge(l)
    PROVE  FallbackInv'
<1>1. /\ UNCHANGED <<position, order, sighting, cache>> /\ Goto(l, "readback")
      /\ lane[l].pc = "acked"
      /\ closeIntent' = UpdateCloseIntent(lane[l].row, "submitted")
      /\ fallback' = [fallback EXCEPT ![lane[l].row].state = "closing",
                                      ![lane[l].row].reason = "close-submitted"]
  BY Zenon DEF Acknowledge, MarkClosing
<1> DEFINE x == lane[l].row
<1>2. x \in Rows /\ Posted(x) /\ fallback[x].state # "none" /\ closeIntent[x].state # "none"
  BY <1>1, LaneRow, SentRow
<1>3. "submitted" \in CloseStates /\ "closing" \in Lifecycle /\ "close-submitted" \in Reasons
      /\ "readback" \in LanePcs
  BY DEF CloseStates, Lifecycle, Reasons, LanePcs
<1>4. /\ fallback' \in [Rows -> RowRecords]
      /\ fallback'[x].state = "closing" /\ fallback'[x].epoch = fallback[x].epoch
      /\ \A r \in Rows \ {x} : fallback'[r] = fallback[r]
  BY <1>1, <1>2, <1>3, RowMarked DEF FallbackInv
<1>5. /\ closeIntent' \in [Rows -> IntentRecords] /\ closeIntent'[x].state = "submitted"
      /\ \A r \in Rows \ {x} : closeIntent'[r] = closeIntent[r]
  BY <1>1, <1>2, <1>3, IntentMarked DEF FallbackInv
<1>6. VenueFits' /\ TablesFit' /\ cache' = cache /\ cache' \in [Rows -> RowRecords]
  BY <1>1, <1>4, <1>5 DEF FallbackInv, VenueFits, TablesFit, LanesFit
<1>7. RowsFit
  <2>1. fallback'[x].state \in Live
    BY <1>4 DEF Live
  <2> HIDE DEF x
  <2> QED BY <1>1, <1>2, <1>4, <1>5, <1>6, <2>1, RowWritten, ZenonT(60)
<1>8. LanesStep
  <2>1. order'[x].posts = 1
    BY <1>1, <1>2 DEF Posted
  <2> QED BY <1>1, <1>3, <1>7, <2>1, GotoFits DEF RowsFit, LanesStep
<1> QED BY <1>6, <1>7, <1>8, StepFits

\* ProtectedUntilFlat, of one row.
StopKept(r) ==
    (/\ fallback[r].state \in Live /\ fallback'[r].state \notin Live
     /\ fallback'[r].reason # "console-native-confirmed")
        => ~(position.epoch = fallback[r].epoch /\ position.qty > 0)

\* A lane that has seen no open position: whatever there was of the row's lifetime is closed.
LEMMA FlatIsGone ==
    ASSUME FallbackInv, NEW l \in Lanes, lane[l].pc \notin {"idle", "loop", "read"}, SeenFlat(l)
    PROVE  /\ Gone(fallback[lane[l].row].epoch)
           /\ ~ (position.epoch = fallback[lane[l].row].epoch /\ position.qty > 0)
<1>1. /\ lane[l].row \in Rows /\ fallback[lane[l].row].state # "none"
      /\ lane[l].entry.epoch = fallback[lane[l].row].epoch
  BY LaneRow
<1>2. Saw(l) /\ lane[l].seen.qty = 0
  BY DEF FallbackInv, LaneOK, SeenFlat
<1>3. fallback[lane[l].row].epoch \in Epochs /\ fallback[lane[l].row].epoch \in Nat
  BY <1>1, RowLife, TableFields DEF FallbackInv
<1>4. EntryQty[fallback[lane[l].row].epoch] \in Nat \ {0}
  BY <1>3 DEF Epochs
<1>5. /\ lane[l].seen.epoch \in Nat /\ lane[l].seen.qty \in Nat
      /\ position.epoch \in Nat /\ position.qty \in Nat
  BY LaneFields, VenueFields DEF FallbackInv
<1> QED BY <1>1, <1>2, <1>3, <1>4, <1>5 DEF Saw, Gone

\* CancelFlat: the row is given up whatever state it is in by now.
LEMMA CancelFlatFits ==
    ASSUME FallbackInv, NEW l \in Lanes, CancelFlat(l)
    PROVE  FallbackInv' /\ \A r \in Rows : StopKept(r)
<1>1. /\ UNCHANGED <<position, closeIntent, order, sighting, cache>> /\ NextRow(l)
      /\ lane[l].pc = "decide" /\ SeenFlat(l)
      /\ fallback' = [fallback EXCEPT ![lane[l].row].state = "cancelled",
                                      ![lane[l].row].reason = "position-already-flat"]
  BY Zenon DEF CancelFlat, MarkPositionFlat
<1> DEFINE x == lane[l].row
<1>2. /\ x \in Rows /\ fallback[x].state # "none" /\ Gone(fallback[x].epoch)
      /\ ~ (position.epoch = fallback[x].epoch /\ position.qty > 0)
  BY <1>1, LaneRow, FlatIsGone
<1>3. "cancelled" \in Lifecycle /\ "position-already-flat" \in Reasons
  BY DEF Lifecycle, Reasons
<1>4. /\ fallback' \in [Rows -> RowRecords]
      /\ fallback'[x].state = "cancelled" /\ fallback'[x].epoch = fallback[x].epoch
      /\ \A r \in Rows \ {x} : fallback'[r] = fallback[r]
  BY <1>1, <1>2, <1>3, RowMarked DEF FallbackInv
<1>5. VenueFits' /\ TablesFit'
  BY <1>1, <1>4 DEF FallbackInv, VenueFits, TablesFit
<1>6. RowsFit
  <2> HIDE DEF x
  <2> QED BY <1>1, <1>2, <1>4, <1>5, RowWritten
<1> QED BY <1>1, <1>2, <1>4, <1>5, <1>6, LaneWrote DEF StopKept

\* The transaction of _persist_close_fills, on a row whose close was sent.
LEMMA FillsPersisted ==
    ASSUME FallbackInv, NEW x \in Rows, Posted(x), NEW fills \in Nat, NEW flat \in BOOLEAN,
           PersistCloseFills(x, fills, flat), UNCHANGED <<position, order, sighting>>,
           flat => Gone(fallback[x].epoch)
    PROVE  /\ TablesFit' /\ RowsFit
           /\ fallback'[x].state \in {"closing", "triggered"}
           /\ fallback'[x].state = "triggered" => flat
           /\ \A r \in Rows \ {x} : fallback'[r] = fallback[r]
<1> DEFINE total == IF fills > closeIntent[x].filled THEN fills ELSE closeIntent[x].filled
           full == total = closeIntent[x].asked
           confirmed == full /\ flat
           stage == IF full THEN "filled" ELSE "partially_filled"
           s == IF confirmed THEN "triggered" ELSE "closing"
           w == IF confirmed THEN "close-confirmed" ELSE "close-evidence-pending"
<1>1. /\ closeIntent' = [closeIntent EXCEPT ![x].filled = total, ![x].state = stage]
      /\ fallback' = [fallback EXCEPT ![x].state = s, ![x].reason = w]
  BY Zenon DEF PersistCloseFills
<1>2. total \in Nat /\ stage \in CloseStates \ {"none"}
  BY TableFields DEF FallbackInv, CloseStates
<1>3. s \in Lifecycle /\ s \in {"closing", "triggered"} /\ (s = "triggered" => flat)
  BY DEF Lifecycle
<1>4. w \in Reasons
  BY DEF Reasons
<1> HIDE DEF total, full, stage, s, w
<1>5. /\ closeIntent' \in [Rows -> IntentRecords] /\ closeIntent'[x].state = stage
      /\ \A r \in Rows \ {x} : closeIntent'[r] = closeIntent[r]
  <2> DEFINE g == [closeIntent[x] EXCEPT !.filled = total, !.state = stage]
  <2>1. closeIntent' = [closeIntent EXCEPT ![x] = g]
    BY <1>1, Zenon DEF FallbackInv, TablesFit
  <2>2. g \in IntentRecords /\ g.state = stage
    <3>1. closeIntent[x] \in IntentRecords /\ stage \in CloseStates
      BY <1>2, Zenon DEF FallbackInv, TablesFit
    <3> QED BY <1>2, <3>1, Zenon DEF IntentRecords
  <2> HIDE DEF g
  <2> QED BY <2>1, <2>2, Zenon DEF FallbackInv, TablesFit
<1>6. /\ fallback' \in [Rows -> RowRecords]
      /\ fallback'[x].state = s /\ fallback'[x].epoch = fallback[x].epoch
      /\ \A r \in Rows \ {x} : fallback'[r] = fallback[r]
  BY <1>1, <1>3, <1>4, RowMarked DEF FallbackInv
<1>7. VenueFits' /\ TablesFit'
  BY <1>5, <1>6 DEF FallbackInv, VenueFits, TablesFit
<1>8. RowsFit
  <2>1. fallback'[x].state = "closing" \/ (fallback'[x].state = "triggered" /\ flat)
    BY <1>3, <1>6
  <2>2. "closing" \in Live
    BY DEF Live
  <2> QED BY <1>2, <1>5, <1>6, <1>7, <2>1, <2>2, SentRow, RowWritten
<1> QED BY <1>3, <1>6, <1>7, <1>8

\* PersistFills: provider fills become a triggered row only after a flat readback.
LEMMA PersistFillsFits ==
    ASSUME FallbackInv, NEW l \in Lanes, PersistFills(l)
    PROVE  FallbackInv' /\ \A r \in Rows : StopKept(r)
<1> DEFINE x == lane[l].row
           fills == lane[l].fills
           flat == lane[l].seen.qty = 0
<1>1. /\ UNCHANGED <<position, order, sighting, cache>> /\ NextRow(l)
      /\ lane[l].pc = "persist"
      /\ PersistCloseFills(x, fills, flat) \/ UNCHANGED <<fallback, closeIntent>>
  BY Zenon DEF PersistFills, SeenFlat, tables
<1>2. /\ x \in Rows /\ Posted(x) /\ fills \in Nat /\ flat \in BOOLEAN
      /\ flat => /\ Gone(fallback[x].epoch)
                 /\ ~ (position.epoch = fallback[x].epoch /\ position.qty > 0)
  BY <1>1, LaneRow, LaneFields, FlatIsGone DEF FallbackInv, SeenFlat
<1>3. CASE PersistCloseFills(x, fills, flat)
  <2> HIDE DEF x, fills, flat
  <2>1. /\ TablesFit' /\ RowsFit
        /\ fallback'[x].state \in {"closing", "triggered"}
        /\ fallback'[x].state = "triggered" => flat
        /\ \A r \in Rows \ {x} : fallback'[r] = fallback[r]
    BY <1>1, <1>2, <1>3, FillsPersisted
  <2>2. FallbackInv'
    BY <1>1, <2>1, LaneWrote
  <2> QED BY <1>2, <2>1, <2>2 DEF StopKept, Live
<1>4. CASE UNCHANGED <<fallback, closeIntent>>
  <2>1. Quiet /\ VenueFits'
    BY <1>1, <1>4 DEF Quiet, FallbackInv, VenueFits
  <2>2. FallbackInv'
    BY <1>1, <2>1, QuietRowsFit, LaneWrote
  <2> QED BY <1>4, <2>2 DEF StopKept
<1> QED BY <1>1, <1>3, <1>4

\* Steps of other processes and the venue that leave lanes and cache alone.
LEMMA OthersFit ==
    ASSUME FallbackInv, TablesFit', VenueFits', RowsFit, UNCHANGED <<lane, cache>>
    PROVE  FallbackInv'
<1>1. LanesStep /\ cache' = cache /\ cache' \in [Rows -> RowRecords]
  BY LanesStand DEF RowsFit, FallbackInv, LanesFit
<1> QED BY <1>1, StepFits

\* DisableFallback: the console, with a native proof.
LEMMA DisableFallbackFits ==
    ASSUME FallbackInv, NEW x \in Rows, DisableFallback(x)
    PROVE  FallbackInv' /\ \A r \in Rows : StopKept(r)
<1>1. /\ UNCHANGED <<position, closeIntent, order, lane, cache, sighting>>
      /\ fallback[x].state = "active"
      /\ fallback' = [fallback EXCEPT ![x].state = "cancelled",
                                      ![x].reason = "console-native-confirmed"]
  BY Zenon DEF DisableFallback
<1>2. "cancelled" \in Lifecycle /\ "console-native-confirmed" \in Reasons
  BY DEF Lifecycle, Reasons
<1>3. /\ fallback' \in [Rows -> RowRecords]
      /\ fallback'[x].state = "cancelled" /\ fallback'[x].epoch = fallback[x].epoch
      /\ fallback'[x].reason = "console-native-confirmed"
      /\ \A r \in Rows \ {x} : fallback'[r] = fallback[r]
  BY <1>1, <1>2, RowMarked DEF FallbackInv
<1>4. VenueFits' /\ TablesFit' /\ ~ Posted(x)
  BY <1>1, <1>3 DEF FallbackInv, VenueFits, TablesFit, RowsOK, RowOK
<1>5. RowsFit
  BY <1>1, <1>3, <1>4, RowWritten
<1> QED BY <1>1, <1>3, <1>4, <1>5, OthersFit DEF StopKept

\* A row gets another level, or another quantity with it.
LEMMA RowRewritten ==
    ASSUME TablesFit, NEW x \in Rows, NEW stop \in Int, NEW qty \in Nat,
           fallback' = [fallback EXCEPT ![x].stop = stop, ![x].qty = qty]
    PROVE  /\ fallback' \in [Rows -> RowRecords]
           /\ fallback'[x].state = fallback[x].state /\ fallback'[x].epoch = fallback[x].epoch
           /\ \A r \in Rows \ {x} : fallback'[r] = fallback[r]
<1> DEFINE g == [fallback[x] EXCEPT !.stop = stop, !.qty = qty]
<1>1. fallback' = [fallback EXCEPT ![x] = g]
  BY Zenon DEF TablesFit
<1>2. g \in RowRecords /\ g.state = fallback[x].state /\ g.epoch = fallback[x].epoch
  <2>1. fallback[x] \in RowRecords
    BY TableFields
  <2> QED BY <2>1, Zenon DEF RowRecords
<1> HIDE DEF g
<1> QED BY <1>1, <1>2, ZenonT(60) DEF TablesFit

\* UpdateFallback, UpdateFallbackLevels: the row stays what it is.
LEMMA UpdatesFit ==
    ASSUME FallbackInv, NEW x \in Rows, NEW stop \in Stops,
           UpdateFallback(x, stop) \/ UpdateFallbackLevels(x, stop)
    PROVE  FallbackInv' /\ \A r \in Rows : fallback'[r].state = fallback[r].state
<1>1. /\ UNCHANGED <<position, closeIntent, order, lane, cache, sighting>>
      /\ fallback[x].state \in Live
      /\ \/ fallback' = [fallback EXCEPT ![x].stop = stop]
         \/ fallback' = [fallback EXCEPT ![x].stop = stop, ![x].qty = sighting.qty]
  BY Zenon DEF UpdateFallback, UpdateFallbackLevels, Live
<1>2. stop \in Int /\ sighting.qty \in Nat
  BY VenueFields DEF FallbackInv
<1>3. /\ fallback' \in [Rows -> RowRecords]
      /\ fallback'[x].state = fallback[x].state /\ fallback'[x].epoch = fallback[x].epoch
      /\ \A r \in Rows \ {x} : fallback'[r] = fallback[r]
  <2>1. CASE fallback' = [fallback EXCEPT ![x].stop = stop]
    <3> DEFINE g == [fallback[x] EXCEPT !.stop = stop]
    <3>1. fallback' = [fallback EXCEPT ![x] = g]
      BY <2>1, Zenon
    <3>2. g \in RowRecords /\ g.state = fallback[x].state /\ g.epoch = fallback[x].epoch
      <4>1. fallback[x] \in RowRecords
        BY TableFields DEF FallbackInv
      <4> QED BY <1>2, <4>1, Zenon DEF RowRecords
    <3> HIDE DEF g
    <3> QED BY <3>1, <3>2, Zenon DEF FallbackInv, TablesFit
  <2>2. CASE fallback' = [fallback EXCEPT ![x].stop = stop, ![x].qty = sighting.qty]
    BY <1>2, <2>2, RowRewritten DEF FallbackInv
  <2> QED BY <1>1, <2>1, <2>2
<1>4. /\ VenueFits' /\ TablesFit' /\ fallback[x].state # "none"
      /\ fallback[x].state = "closing" => Posted(x)
  BY <1>1, <1>3 DEF FallbackInv, VenueFits, TablesFit, RowsOK, RowOK, Live
<1>5. RowsFit
  BY <1>1, <1>3, <1>4, RowWritten
<1> QED BY <1>1, <1>3, <1>4, <1>5, OthersFit

-----------------------------------------------------------------------------
\* The claim is made: an active row that has sent nothing sends its close, and no other row of
\* the lifetime has sent one, or the lane would not own the position.
LEMMA ClaimedRowsFit ==
    ASSUME FallbackInv, VenueFits', UNCHANGED position, NEW l \in Lanes,
           lane[l].pc \in {"decide", "ticker"}, Owned(lane[l].entry, lane[l].seen),
           NEW x \in Rows, x = lane[l].row, fallback[x].state = "active",
           fallback'[x].state = "closing", fallback'[x].epoch = fallback[x].epoch,
           closeIntent'[x].state # "none",
           order'[x].posts = order[x].posts + 1, order'[x].left = order[x].left,
           \A r \in Rows \ {x} : /\ fallback'[r] = fallback[r] /\ order'[r] = order[r]
                                 /\ closeIntent'[r] = closeIntent[r]
    PROVE  RowsFit /\ order'[x].posts = 1
<1> USE DEF Posted
<1>1. order[x].posts = 0 /\ order'[x].posts = 1
  <2>1. RowOK(x) /\ order[x].posts \in {0, 1}
    BY DEF FallbackInv, RowsOK, RowOK
  <2>2. order[x].posts # 1
    BY <2>1, Zenon DEF RowOK
  <2> QED BY <2>1, <2>2
<1>2. \A r \in Rows \ {x} : order[r].posts = 1 => fallback[r].epoch # fallback[x].epoch
  BY DEF FallbackInv, LaneOK, TooLate
<1>3. RowsStay
  <2>1. \A r \in Rows : /\ fallback'[r].epoch = fallback[r].epoch
                        /\ fallback[r].state # "none" => fallback'[r].state # "none"
                        /\ fallback'[r].state = "active" => fallback[r].state = "active"
    OBVIOUS
  <2>2. \A r \in Rows \ {x} : order'[r].posts = order[r].posts
    OBVIOUS
  <2>3. \A r \in Rows : /\ order[r].posts = 1 => order'[r].posts = 1
                        /\ order'[r].posts = 1 => order[r].posts = 1 \/ r = x
    BY <1>1, <2>2
  <2>4. ASSUME NEW r \in Rows, NEW s \in Rows \ {r}, order'[r].posts = 1,
               order'[s].posts = 1, fallback[r].epoch = fallback[s].epoch
        PROVE  order[r].posts = 1 /\ order[s].posts = 1
    BY <1>2, <2>3, <2>4, ZenonT(60)
  <2> QED BY <2>1, <2>3, <2>4 DEF RowsStay
<1>4. PositionMoves
  BY VenueFields DEF FallbackInv, PositionMoves
<1>5. \A r \in Rows : RowOK(r)'
  <2> TAKE r \in Rows
  <2>1. RowOK(r)
    BY DEF FallbackInv, RowsOK
  <2>2. CASE r = x
    BY <1>1, <2>1, <2>2 DEF RowOK
  <2>3. CASE r # x
    BY <2>1, <2>3 DEF RowOK
  <2> QED BY <2>2, <2>3
<1>6. \A r \in Rows : GivenUp(r)'
  <2> TAKE r \in Rows
  <2>1. GivenUp(r)
    BY DEF FallbackInv, RowsOK
  <2> QED BY <2>1 DEF GivenUp, Gone, Live
<1>7. \A r, s \in Rows : Apart(r, s)'
  BY <1>3, <1>4, <1>5, RowsStayApart
<1> QED BY <1>1, <1>3, <1>4, <1>5, <1>6, <1>7, LaneKept DEF RowsFit

\* ClaimClose, when the lane owns the position.
LEMMA ClaimCloseFits ==
    ASSUME FallbackInv, NEW l \in Lanes, ClaimClose(l),
           lane[l].pc \in {"decide", "ticker"}, Owned(lane[l].entry, lane[l].seen)
    PROVE  /\ FallbackInv'
           /\ \A r \in Rows : fallback'[r].state \in Live \/ fallback'[r] = fallback[r]
<1> DEFINE x == lane[l].row
           qty == lane[l].entry.qty
           posts == order[x].posts + 1
<1>1. UNCHANGED <<position, cache, sighting>>
  BY Zenon DEF ClaimClose
<1>2. CASE ~ Claimable(x, qty)
  <2>1. NextRow(l) /\ Quiet
    BY <1>1, <1>2 DEF ClaimClose, Quiet, tables
  <2>2. VenueFits'
    BY <1>1 DEF FallbackInv, VenueFits
  <2>3. FallbackInv'
    BY <1>1, <2>1, <2>2, QuietRowsFit, LaneWrote
  <2> QED BY <2>1, <2>3 DEF Quiet
<1>3. CASE Claimable(x, qty)
  <2>1. /\ closeIntent' = [closeIntent EXCEPT ![x].state = "requested", ![x].asked = qty]
        /\ fallback' = [fallback EXCEPT ![x].state = "closing", ![x].reason = "close-submitted"]
        /\ order' = [order EXCEPT ![x].posts = @ + 1, ![x].wire = TRUE]
        /\ Goto(l, "post")
    BY <1>3, Zenon DEF ClaimClose, MarkClosing
  <2>2. x \in Rows /\ qty \in Nat /\ posts \in Nat
    <3>1. x \in Rows /\ qty \in Nat
      BY LaneRow, LaneFields DEF FallbackInv
    <3> HIDE DEF x
    <3> QED BY <3>1, TableFields DEF FallbackInv
  <2>3. /\ "requested" \in CloseStates /\ "closing" \in Lifecycle
        /\ "close-submitted" \in Reasons /\ "post" \in LanePcs
    BY DEF CloseStates, Lifecycle, Reasons, LanePcs
  <2>4. /\ closeIntent' \in [Rows -> IntentRecords] /\ closeIntent'[x].state = "requested"
        /\ \A r \in Rows \ {x} : closeIntent'[r] = closeIntent[r]
    <3> DEFINE g == [closeIntent[x] EXCEPT !.state = "requested", !.asked = qty]
    <3> HIDE DEF x, qty
    <3>1. closeIntent' = [closeIntent EXCEPT ![x] = g]
      BY <2>1, Zenon DEF FallbackInv, TablesFit
    <3>2. g \in IntentRecords /\ g.state = "requested"
      <4>1. closeIntent[x] \in IntentRecords
        BY <2>2, Zenon DEF FallbackInv, TablesFit
      <4> QED BY <2>2, <2>3, <4>1, Zenon DEF IntentRecords
    <3> HIDE DEF g
    <3> QED BY <2>2, <3>1, <3>2, Zenon DEF FallbackInv, TablesFit
  <2>5. /\ order' \in [Rows -> OrderRecords] /\ order'[x].posts = posts
        /\ order'[x].left = order[x].left
        /\ \A r \in Rows \ {x} : order'[r] = order[r]
    <3> DEFINE g == [order[x] EXCEPT !.posts = posts, !.wire = TRUE]
    <3> HIDE DEF x, qty
    <3>1. order' = [order EXCEPT ![x] = g]
      BY <2>1, Zenon DEF FallbackInv, TablesFit
    <3> HIDE DEF posts
    <3>2. g \in OrderRecords /\ g.posts = posts /\ g.left = order[x].left
      <4>1. order[x] \in OrderRecords /\ TRUE \in BOOLEAN
        BY <2>2, TableFields DEF FallbackInv
      <4> QED BY <2>2, <4>1, Zenon DEF OrderRecords
    <3> HIDE DEF g
    <3> QED BY <2>2, <3>1, <3>2, Zenon DEF FallbackInv, TablesFit
  <2>6. /\ fallback' \in [Rows -> RowRecords]
        /\ fallback'[x].state = "closing" /\ fallback'[x].epoch = fallback[x].epoch
        /\ \A r \in Rows \ {x} : fallback'[r] = fallback[r]
    BY <2>1, <2>2, <2>3, RowMarked DEF FallbackInv
  <2>7. /\ VenueFits' /\ TablesFit' /\ cache' = cache /\ cache' \in [Rows -> RowRecords]
        /\ fallback[x].state = "active"
    BY <1>1, <1>3, <2>4, <2>5, <2>6
       DEF FallbackInv, VenueFits, TablesFit, LanesFit, Claimable
  <2>8. RowsFit /\ order'[x].posts = 1
    BY <1>1, <2>2, <2>4, <2>5, <2>6, <2>7, ClaimedRowsFit, ZenonT(60)
  <2>9. LanesStep
    BY <2>1, <2>3, <2>8, GotoFits DEF RowsFit, LanesStep
  <2>10. FallbackInv'
    BY <2>7, <2>8, <2>9, StepFits
  <2> QED BY <2>6, <2>10 DEF Live
<1> QED BY <1>2, <1>3

\* RestClose, StreamClose.
LEMMA ClosesFit ==
    ASSUME FallbackInv, StreamClose \/ \E mark \in Marks : RestClose(mark)
    PROVE  /\ FallbackInv'
           /\ \A r \in Rows : fallback'[r].state \in Live \/ fallback'[r] = fallback[r]
<1>1. CASE StreamClose
  <2>1. /\ "stream" \in Lanes /\ ClaimClose("stream") /\ lane["stream"].pc = "decide"
        /\ Owned(lane["stream"].entry, lane["stream"].seen)
    BY <1>1, LanesAreNamed, Zenon DEF StreamClose
  <2> QED BY <2>1, ClaimCloseFits
<1>2. CASE \E mark \in Marks : RestClose(mark)
  <2>1. "rest" \in Lanes /\ ClaimClose("rest") /\ lane["rest"].pc = "ticker"
    BY <1>2, LanesAreNamed, Zenon DEF RestClose
  <2>2. Owned(lane["rest"].entry, lane["rest"].seen)
    BY <2>1 DEF FallbackInv, LaneOK
  <2> QED BY <2>1, <2>2, ClaimCloseFits
<1> QED BY <1>1, <1>2

\* RegisterFallback: no live row of the lifetime is left, so whatever was sent for it was for a
\* position that is no longer whole.
LEMMA RegisterFallbackFits ==
    ASSUME FallbackInv, NEW x \in Rows, NEW stop \in Stops, RegisterFallback(x, stop)
    PROVE  FallbackInv' /\ \A r \in Rows \ {x} : fallback'[r] = fallback[r]
<1> DEFINE epoch == sighting.epoch
           qty == sighting.qty
           g == [state |-> "active", reason |-> "none", epoch |-> epoch, qty |-> qty,
                 stop |-> stop]
<1>1. /\ UNCHANGED <<position, closeIntent, order, lane, cache, sighting>>
      /\ sighting # Flat /\ fallback[x].state = "none"
      /\ \A s \in Rows : fallback[s].state \in Live => fallback[s].epoch # epoch
      /\ fallback' = [fallback EXCEPT ![x] = g]
  BY Zenon DEF RegisterFallback
<1>2. /\ epoch \in Nat /\ qty \in Nat /\ stop \in Int
      /\ 1 <= epoch /\ epoch <= position.epoch /\ position.epoch \in Nat
  BY <1>1, VenueFields DEF FallbackInv, VenueFits
<1> HIDE DEF epoch, qty
<1>3. g \in RowRecords /\ g.state = "active" /\ g.epoch = epoch
  <2>1. "active" \in Lifecycle /\ "none" \in Reasons
    BY DEF Lifecycle, Reasons
  <2> QED BY <1>2, <2>1, Zenon DEF RowRecords
<1> HIDE DEF g
<1>4. /\ fallback' \in [Rows -> RowRecords] /\ fallback'[x] = g
      /\ \A r \in Rows \ {x} : fallback'[r] = fallback[r]
  BY <1>1, <1>3, Zenon DEF FallbackInv, TablesFit
<1> USE DEF Posted
<1>5. VenueFits' /\ TablesFit' /\ PositionMoves
  BY <1>1, <1>4, VenueFields DEF FallbackInv, VenueFits, TablesFit, PositionMoves
<1>6. RowsStay
  BY <1>1, <1>3, <1>4 DEF RowsStay
<1>7. \A r \in Rows : RowOK(r)'
  <2> TAKE r \in Rows
  <2>1. RowOK(r)
    BY DEF FallbackInv, RowsOK
  <2>2. CASE r = x
    BY <1>1, <1>2, <1>3, <1>4, <2>1, <2>2 DEF RowOK
  <2>3. CASE r # x
    BY <1>1, <1>4, <2>1, <2>3 DEF RowOK
  <2> QED BY <2>2, <2>3
<1>8. \A r \in Rows : GivenUp(r)'
  <2> TAKE r \in Rows
  <2>1. GivenUp(r)
    BY DEF FallbackInv, RowsOK
  <2> QED BY <1>1, <1>3, <1>4, <2>1 DEF GivenUp, Gone, Live
<1>9. order[x].posts # 1
  BY <1>1 DEF FallbackInv, RowsOK, RowOK
<1>10. \A r \in Rows : fallback[r].epoch = epoch /\ order[r].posts = 1 => Gone(epoch)
  BY <1>1 DEF FallbackInv, RowsOK, GivenUp
<1>11. ASSUME NEW r \in Rows, NEW s \in Rows
       PROVE  Apart(r, s)'
  <2>1. Apart(r, s)
    BY DEF FallbackInv, RowsOK
  <2>2. order' = order /\ (Gone(epoch) => GoneNext(epoch))
    BY <1>1 DEF Gone, GoneNext
  <2>3. CASE s = x
    BY <1>1, <1>3, <1>4, <1>9, <1>10, <2>2, <2>3 DEF Apart, Gone, GoneNext, Live
  <2>4. CASE s # x /\ r = x
    BY <1>1, <1>3, <1>4, <1>9, <2>2, <2>4 DEF Apart, Live
  <2>5. CASE s # x /\ r # x
    BY <1>1, <1>4, <2>1, <2>5 DEF Apart, Gone
  <2> QED BY <2>3, <2>4, <2>5
<1>12. RowsFit
  BY <1>5, <1>6, <1>7, <1>8, <1>11, LaneKept DEF RowsFit
<1> QED BY <1>1, <1>4, <1>5, <1>12, OthersFit

-----------------------------------------------------------------------------
\* The venue's steps.
LEMMA VenueOpenFits ==
    ASSUME FallbackInv, VenueOpen
    PROVE  FallbackInv'
<1> DEFINE next == position.epoch + 1
           qty == EntryQty[next]
<1>1. /\ UNCHANGED <<fallback, closeIntent, order, lane, cache, sighting>>
      /\ position.qty = 0 /\ position.epoch < MaxEpoch
      /\ position' = [epoch |-> next, qty |-> qty]
  BY Zenon DEF VenueOpen, tables
<1>2. next \in Epochs /\ next \in Nat
  BY <1>1, VenueFields DEF FallbackInv, Epochs
<1>3. qty \in Nat /\ next = position.epoch + 1
  BY <1>2 DEF Epochs
<1> HIDE DEF next, qty
<1>4. position' \in Readings /\ position'.epoch = next /\ position'.qty = qty
  BY <1>1, <1>2, <1>3, Zenon DEF Readings
<1>5. VenueFits'
  BY <1>1, <1>2, <1>3, <1>4, VenueFields DEF FallbackInv, VenueFits, Epochs
<1>6. TablesFit' /\ PositionMoves
  BY <1>1, <1>3, <1>4, VenueFields DEF FallbackInv, TablesFit, PositionMoves
<1>7. \A r \in Rows : order'[r].posts = order[r].posts /\ order'[r].left <= position'.qty
  <2> TAKE r \in Rows
  <2>1. order[r].left <= 0 /\ order[r].left \in Nat
    BY <1>1, TableFields DEF FallbackInv, RowsOK, RowOK
  <2> QED BY <1>1, <1>3, <1>4, <2>1
<1> QED BY <1>1, <1>5, <1>6, <1>7, OrdersMoved, OthersFit

\* The position becomes smaller.
LEMMA PositionShrinks ==
    ASSUME FallbackInv, NEW qty \in Nat, qty <= position.qty, UNCHANGED sighting,
           position' = [position EXCEPT !.qty = qty]
    PROVE  VenueFits' /\ PositionMoves /\ position'.qty = qty
<1>1. position \in Readings
  BY DEF FallbackInv, VenueFits
<1>2. /\ position' \in Readings /\ position'.qty = qty /\ position'.epoch = position.epoch
  BY <1>1, Zenon DEF Readings
<1> QED BY <1>2, VenueFields DEF FallbackInv, VenueFits, PositionMoves

LEMMA VenueReduceFits ==
    ASSUME FallbackInv, VenueReduce
    PROVE  FallbackInv'
<1>1. /\ UNCHANGED <<fallback, closeIntent, lane, cache, sighting>> /\ position.qty > 0
      /\ \E left \in 0..(position.qty - 1) :
            /\ position' = [position EXCEPT !.qty = left]
            /\ order' = [r \in Rows |->
                            [order[r] EXCEPT !.left = IF @ > left THEN left ELSE @]]
  BY Zenon DEF VenueReduce, tables
<1>2. PICK left \in 0..(position.qty - 1) :
        /\ position' = [position EXCEPT !.qty = left]
        /\ order' = [r \in Rows |-> [order[r] EXCEPT !.left = IF @ > left THEN left ELSE @]]
  BY <1>1, Zenon
<1>3. left \in Nat /\ left <= position.qty
  BY VenueFields DEF FallbackInv
<1>4. VenueFits' /\ PositionMoves /\ position'.qty = left
  BY <1>1, <1>2, <1>3, PositionShrinks
<1> DEFINE kept(r) == IF order[r].left > left THEN left ELSE order[r].left
<1>5. \A r \in Rows : kept(r) \in Nat /\ kept(r) <= left
  BY <1>3, TableFields DEF FallbackInv
<1>6. order' = [r \in Rows |-> [order[r] EXCEPT !.left = kept(r)]]
  BY <1>2, Zenon
<1> HIDE DEF kept
<1>7. \A r \in Rows : /\ order'[r] \in OrderRecords /\ order'[r].posts = order[r].posts
                      /\ order'[r].left = kept(r)
  <2> TAKE r \in Rows
  <2>1. order[r] \in OrderRecords /\ kept(r) \in Nat
    BY <1>5, TableFields DEF FallbackInv
  <2> QED BY <1>6, <2>1, Zenon DEF OrderRecords
<1>8. order' \in [Rows -> OrderRecords]
  BY <1>6, <1>7, Zenon
<1>9. TablesFit' /\ RowsFit
  <2>1. TablesFit'
    BY <1>1, <1>8 DEF FallbackInv, TablesFit
  <2>2. \A r \in Rows : order'[r].posts = order[r].posts /\ order'[r].left <= position'.qty
    BY <1>4, <1>5, <1>7
  <2> QED BY <1>1, <1>4, <2>1, <2>2, OrdersMoved
<1> QED BY <1>1, <1>4, <1>9, OthersFit

LEMMA VenueFillFits ==
    ASSUME FallbackInv, NEW x \in Rows, VenueFill(x)
    PROVE  FallbackInv'
<1> DEFINE qty == position.qty - 1
           done(r) == IF r = x THEN order[r].done + 1 ELSE order[r].done
           kept(r) == IF r = x THEN order[r].left - 1
                      ELSE IF order[r].left > position.qty - 1 THEN position.qty - 1
                      ELSE order[r].left
<1>1. /\ UNCHANGED <<fallback, closeIntent, lane, cache, sighting>> /\ order[x].left > 0
      /\ position' = [position EXCEPT !.qty = qty]
      /\ order' = [r \in Rows |-> [order[r] EXCEPT !.done = done(r), !.left = kept(r)]]
  BY Zenon DEF VenueFill, tables
<1>2. qty \in Nat /\ qty <= position.qty /\ order[x].left <= position.qty
  <2>1. position.qty \in Nat /\ order[x].left \in Nat
    BY TableFields, VenueFields DEF FallbackInv
  <2>2. order[x].left <= position.qty
    BY DEF FallbackInv, RowsOK, RowOK
  <2>3. order[x].left > 0
    BY <1>1
  <2> QED BY <2>1, <2>2, <2>3
<1>3. \A r \in Rows : done(r) \in Nat /\ kept(r) \in Nat /\ kept(r) <= qty
  <2> TAKE r \in Rows
  <2>1. position.qty \in Nat /\ order[r].left \in Nat /\ order[r].done \in Nat
    BY TableFields, VenueFields DEF FallbackInv
  <2>2. order[x].left > 0 /\ qty \in Nat
    BY <1>1, <1>2
  <2>3. r = x => order[r].left <= position.qty
    BY <1>2
  <2> QED BY <2>1, <2>2, <2>3, SMTT(60)
<1> HIDE DEF done, kept, qty
<1>4. VenueFits' /\ PositionMoves /\ position'.qty = qty
  BY <1>1, <1>2, PositionShrinks
<1>5. \A r \in Rows : /\ order'[r] \in OrderRecords /\ order'[r].posts = order[r].posts
                      /\ order'[r].left = kept(r)
  <2> TAKE r \in Rows
  <2>1. order[r] \in OrderRecords /\ done(r) \in Nat /\ kept(r) \in Nat
    BY <1>3, TableFields DEF FallbackInv
  <2> QED BY <1>1, <2>1, Zenon DEF OrderRecords
<1>6. order' \in [Rows -> OrderRecords]
  BY <1>1, <1>5, Zenon
<1>7. TablesFit' /\ RowsFit
  <2>1. TablesFit'
    BY <1>1, <1>6 DEF FallbackInv, TablesFit
  <2>2. \A r \in Rows : order'[r].posts = order[r].posts /\ order'[r].left <= position'.qty
    BY <1>3, <1>4, <1>5
  <2> QED BY <1>1, <1>4, <2>1, <2>2, OrdersMoved
<1> QED BY <1>1, <1>4, <1>7, OthersFit

\* VenueAccept, VenueLoses: the close leaves the wire; the lane that waits may hear of it.
LEMMA WireFits ==
    ASSUME FallbackInv, NEW x \in Rows, VenueAccept(x) \/ VenueLoses(x)
    PROVE  FallbackInv'
<1> DEFINE most == IF closeIntent[x].asked < position.qty THEN closeIntent[x].asked
                                                          ELSE position.qty
           accepted == [order[x] EXCEPT !.wire = FALSE, !.left = most]
           lost == [order[x] EXCEPT !.wire = FALSE]
<1>1. /\ UNCHANGED <<position, fallback, closeIntent, cache, sighting>>
      /\ order' = [order EXCEPT ![x] = accepted] \/ order' = [order EXCEPT ![x] = lost]
      /\ \/ UNCHANGED lane
         \/ \E l \in Lanes : lane[l].pc = "post" /\ Goto(l, "acked")
  <2>1. CASE VenueAccept(x)
    BY <2>1, Zenon DEF VenueAccept, tables, FallbackInv, TablesFit
  <2>2. CASE VenueLoses(x)
    BY <2>2, Zenon DEF VenueLoses, tables
  <2> QED BY <2>1, <2>2
<1>2. most \in Nat /\ most <= position.qty
  BY TableFields, VenueFields DEF FallbackInv
<1>3. order[x] \in OrderRecords /\ order[x].left <= position.qty /\ FALSE \in BOOLEAN
  BY TableFields DEF FallbackInv, RowsOK, RowOK
<1> HIDE DEF most
<1>4. /\ accepted \in OrderRecords /\ accepted.posts = order[x].posts /\ accepted.left = most
      /\ lost \in OrderRecords /\ lost.posts = order[x].posts /\ lost.left = order[x].left
  BY <1>2, <1>3, Zenon DEF OrderRecords
<1> HIDE DEF accepted, lost
<1>5. /\ order' \in [Rows -> OrderRecords]
      /\ order'[x] \in {accepted, lost} /\ \A r \in Rows \ {x} : order'[r] = order[r]
  <2>1. order \in [Rows -> OrderRecords]
    BY DEF FallbackInv, TablesFit
  <2>2. CASE order' = [order EXCEPT ![x] = accepted]
    BY <1>4, <2>1, <2>2, Zenon
  <2>3. CASE order' = [order EXCEPT ![x] = lost]
    BY <1>4, <2>1, <2>3, Zenon
  <2> QED BY <1>1, <2>2, <2>3
<1>6. VenueFits' /\ TablesFit' /\ PositionMoves
  BY <1>1, <1>5, VenueFields DEF FallbackInv, VenueFits, TablesFit, PositionMoves
<1>7. RowsFit
  <2>1. \A r \in Rows : order'[r].posts = order[r].posts /\ order'[r].left <= position'.qty
    BY <1>1, <1>2, <1>3, <1>4, <1>5 DEF FallbackInv, RowsOK, RowOK
  <2> QED BY <1>1, <1>6, <2>1, OrdersMoved
<1>8. LanesStep
  <2>1. CASE UNCHANGED lane
    BY <1>7, <2>1, LanesStand DEF RowsFit
  <2>2. ASSUME NEW l \in Lanes, lane[l].pc = "post", Goto(l, "acked")
        PROVE  LanesStep
    <3>1. order'[lane[l].row].posts = 1
      BY <1>7, <2>2 DEF RowsFit, Kept
    <3>2. "acked" \in LanePcs
      BY DEF LanePcs
    <3> QED BY <1>7, <2>2, <3>1, <3>2, GotoFits DEF RowsFit, LanesStep
  <2> QED BY <1>1, <2>1, <2>2
<1>9. cache' = cache /\ cache' \in [Rows -> RowRecords]
  BY <1>1 DEF FallbackInv, LanesFit
<1> QED BY <1>6, <1>7, <1>8, <1>9, StepFits

-----------------------------------------------------------------------------
\* The invariant.
LEMMA FallbackInitHolds ==
    ASSUME FallbackInit
    PROVE  FallbackInv
<1>1. /\ position = Flat /\ sighting = Flat /\ fallback = Nothing /\ cache = Nothing
      /\ closeIntent = [r \in Rows |-> NoIntent] /\ order = [r \in Rows |-> NoOrder]
      /\ lane = [l \in Lanes |-> Resting]
  BY DEF FallbackInit
<1>2. /\ "none" \in CloseStates /\ 0 \in Nat /\ FALSE \in BOOLEAN
  BY DEF CloseStates
<1>3. /\ NoIntent \in IntentRecords /\ NoIntent.state = "none"
      /\ NoOrder \in OrderRecords /\ NoOrder.posts = 0 /\ NoOrder.left = 0
      /\ Flat \in Readings /\ Flat.epoch = 0 /\ Flat.qty = 0
      /\ Unregistered.state = "none"
  BY <1>2, Zenon DEF NoIntent, IntentRecords, NoOrder, OrderRecords, Flat, Readings,
                     Unregistered
<1>4. TablesFit /\ LanesFit /\ \A l \in Lanes : lane[l] = Resting
  BY <1>1, <1>3, RestingFits, Zenon DEF TablesFit, LanesFit
<1>5. VenueFits
  BY <1>1, <1>3 DEF VenueFits
<1>6. \A r \in Rows : /\ fallback[r].state = "none" /\ closeIntent[r].state = "none"
                      /\ order[r].posts = 0 /\ order[r].left = 0
  BY <1>1, <1>3, RestingFits, Zenon
<1>7. RowsOK
  BY <1>1, <1>3, <1>6 DEF RowsOK, RowOK, GivenUp, Apart, Posted
<1>8. CopiesOK
  BY <1>1, RestingFits DEF CopiesOK, IsCopy
<1>9. \A l \in Lanes : LaneOK(l)
  BY <1>4, RestingFits DEF LaneOK, IsCopy
<1> QED BY <1>4, <1>5, <1>7, <1>8, <1>9 DEF FallbackInv

\* Every step keeps the invariant and every stop whose position is open.
LEMMA FallbackStepHolds ==
    ASSUME FallbackInv, [FallbackNext]_fallbackVars
    PROVE  FallbackInv' /\ \A r \in Rows : StopKept(r)
<1>1. CASE UNCHANGED fallbackVars
  <2>1. Quiet /\ UNCHANGED <<lane, cache, sighting>>
    BY <1>1 DEF fallbackVars, tables, Quiet
  <2>2. VenueFits'
    BY <2>1 DEF FallbackInv, VenueFits, Quiet
  <2>3. FallbackInv'
    BY <2>1, <2>2, QuietRowsFit, OthersFit
  <2> QED BY <2>1, <2>3 DEF StopKept, Quiet
<1>2. CASE Reads \/ SightPosition
  <2>1. UNCHANGED fallback
    BY <1>2, Zenon DEF Reads, LaneReads, ReadPosition, ReadPositionFails, RecoverClosing,
               Disown, ReadBack, ReadFills, RestLoad, RestRow, AskTicker, MarkCalm,
               StreamEvent, StreamRow, Restart, SightPosition, tables
  <2>2. FallbackInv'
    BY <1>2, ReadsFit, SightPositionFits
  <2> QED BY <2>1, <2>2 DEF StopKept
<1>3. ASSUME NEW l \in Lanes, CancelFlat(l) \/ PersistFills(l)
      PROVE  FallbackInv' /\ \A r \in Rows : StopKept(r)
  BY <1>3, CancelFlatFits, PersistFillsFits
<1>4. ASSUME NEW l \in Lanes, PostFails(l) \/ StillOpen(l) \/ EvidenceFails(l)
      PROVE  FallbackInv' /\ \A r \in Rows : StopKept(r)
  <2>1. UNCHANGED fallback
    BY <1>4, Zenon DEF PostFails, StillOpen, EvidenceFails
  <2> QED BY <1>4, <2>1, IntentStepsFit DEF StopKept
<1>5. ASSUME NEW l \in Lanes, Acknowledge(l)
      PROVE  FallbackInv' /\ \A r \in Rows : StopKept(r)
  <2>1. \A r \in Rows : fallback'[r].state = "closing" \/ fallback'[r] = fallback[r]
    <3>1. lane[l].row \in Rows /\ fallback' = MarkClosing(lane[l].row)
      BY <1>5, LaneRow DEF Acknowledge
    <3>2. "closing" \in Lifecycle /\ "close-submitted" \in Reasons
      BY DEF Lifecycle, Reasons
    <3> QED BY <3>1, <3>2, RowMarked DEF MarkClosing, FallbackInv
  <2> QED BY <1>5, <2>1, AcknowledgeFits DEF StopKept, Live
<1>6. CASE StreamClose \/ \E mark \in Marks : RestClose(mark)
  BY <1>6, ClosesFit DEF StopKept
<1>7. ASSUME NEW x \in Rows, NEW stop \in Stops,
             RegisterFallback(x, stop) \/ UpdateFallback(x, stop)
             \/ UpdateFallbackLevels(x, stop)
      PROVE  FallbackInv' /\ \A r \in Rows : StopKept(r)
  <2>1. CASE RegisterFallback(x, stop)
    <3>1. fallback[x].state = "none"
      BY <2>1 DEF RegisterFallback
    <3> QED BY <2>1, <3>1, RegisterFallbackFits DEF StopKept, Live
  <2>2. CASE UpdateFallback(x, stop) \/ UpdateFallbackLevels(x, stop)
    BY <2>2, UpdatesFit DEF StopKept
  <2> QED BY <1>7, <2>1, <2>2
<1>8. ASSUME NEW x \in Rows, DisableFallback(x)
      PROVE  FallbackInv' /\ \A r \in Rows : StopKept(r)
  BY <1>8, DisableFallbackFits
<1>9. CASE \/ VenueOpen \/ VenueReduce
           \/ \E x \in Rows : VenueAccept(x) \/ VenueLoses(x) \/ VenueFill(x)
  <2>1. UNCHANGED fallback
    BY <1>9, Zenon DEF VenueOpen, VenueReduce, VenueAccept, VenueLoses, VenueFill, tables
  <2>2. FallbackInv'
    BY <1>9, VenueOpenFits, VenueReduceFits, VenueFillFits, WireFits
  <2> QED BY <2>1, <2>2 DEF StopKept
<1> QED BY <1>1, <1>2, <1>3, <1>4, <1>5, <1>6, <1>7, <1>8, <1>9, Zenon
        DEF FallbackNext, LaneStep, Reads, LaneReads

\* Rows, intents, orders and lanes fit together, whatever the rows, lifetimes, quantities,
\* levels and marks.
THEOREM FallbackInvariant == FallbackSpec => []FallbackInv
BY FallbackInitHolds, FallbackStepHolds, PTL DEF FallbackSpec

\* _ensure_close_intent: a position lifetime gets at most one protective close, whichever lane
\* sends it and however often its rows are disabled and registered again.
THEOREM CloseIsSentOnce == FallbackSpec => []OneClosePerLifetime
<1>1. FallbackInv => OneClosePerLifetime
  <2> SUFFICES ASSUME FallbackInv, NEW e \in Epochs, NEW r \in Rows, NEW s \in Rows,
                      fallback[r].epoch = e, fallback[s].epoch = e,
                      order[r].posts + order[s].posts > 1
               PROVE  r = s /\ order[r].posts = 1
    BY DEF OneClosePerLifetime
  <2>1. order[r].posts \in {0, 1} /\ order[s].posts \in {0, 1}
    BY DEF FallbackInv, RowsOK, RowOK
  <2>2. order[r].posts = 1 /\ order[s].posts = 1
    BY <2>1
  <2> QED BY <2>2 DEF FallbackInv, RowsOK, Apart, Posted
<1> QED BY <1>1, FallbackInvariant, PTL

\* mark_position_flat and "close-confirmed": no lane gives up a row while its position is open.
THEOREM StopStaysUntilFlat == FallbackSpec => ProtectedUntilFlat
<1>1. FallbackInv /\ [FallbackNext]_fallbackVars
        => [\A r \in Rows :
              (/\ fallback[r].state \in Live /\ fallback'[r].state \notin Live
               /\ fallback'[r].reason # "console-native-confirmed")
                  => ~(position.epoch = fallback[r].epoch /\ position.qty > 0)]_fallbackVars
  BY FallbackStepHolds DEF StopKept
<1> QED BY <1>1, FallbackInvariant, PTL DEF FallbackSpec, ProtectedUntilFlat
=============================================================================
