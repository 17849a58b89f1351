----------------------------- MODULE PaperLane -----------------------------
(***************************************************************************)
(* The paper lane (kaka/): messages of one channel become paper trades.   *)
(* A worker handles a batch of stored messages in one transaction.  The    *)
(* rows of the batch are locked when they are selected, the ledger only    *)
(* from the first message that means anything on, by an advisory lock that *)
(* ends with the transaction.  The schema does not keep a symbol from      *)
(* being open twice: the lock does.                                        *)
(*                                                                         *)
(* A text is a record of what the parser looks for in it.  A price level   *)
(* is the sequence of fills whose average it is; <<p>> is p itself.        *)
(***************************************************************************)
EXTENDS Integers, Sequences, FiniteSets

CONSTANTS
    PaperRows,      \* how many rows the channel stores (a row is a revision of a message)
    MessageOf,      \* the message a row is a revision of
    TextsOf,        \* what a message may say
    PaperPrices,    \* what the public ticker may answer
    PaperWorkers,   \* processes, one of them on its way out during a deployment
    BatchSize,      \* rows selected at a time
    MaxRollbacks    \* batches that fail or whose process dies

None     == 0       \* no number, no price
NoSymbol == "none"
Messages == {MessageOf[r] : r \in 1..PaperRows}
Wordings == [cues : SUBSET STRING, symbol : STRING, side : {"LONG", "SHORT", "none"},
             entry : Nat, stop : Nat, target : Nat, chart : BOOLEAN]

ASSUME PaperAssumption ==
    /\ PaperRows \in Nat /\ BatchSize \in Nat \ {0} /\ MaxRollbacks \in Nat
    /\ MessageOf \in [1..PaperRows -> Nat]
    /\ TextsOf \in [Messages -> SUBSET Wordings]
    /\ PaperPrices \subseteq Nat \ {None}

VARIABLES
    wording,    \* the text of each message; its revisions differ in their attachment
    arrived,    \* rows stored so far, in the order of received_at
    analyzed,   \* rows in state ANALYZED
    paper,      \* paper_kaka_trades, by source message (unique)
    journal,    \* paper_kaka_events
    batch,      \* the transaction of each worker
    rollbacks

paperVars == <<wording, arrived, analyzed, paper, journal, batch, rollbacks>>

----------------------------------------------------------------------------
(* The parser.                                                             *)

\* The patterns in the order they are tried, and the event each one means.
Patterns == <<"untarget", "cancel", "open", "breakeven", "hit", "closed", "target",
              "again", "stop">>
EventOf == [untarget |-> "TP_REMOVED", cancel |-> "CANCEL", open |-> "OPEN",
            breakeven |-> "BREAKEVEN", hit |-> "STOP_HIT", closed |-> "CLOSE",
            target |-> "TP", again |-> "ADD", stop |-> "STOP_MOVE"]

\* An entry needs a side, a symbol and a stop clause; a new stop needs its number.
Matches(text, p) ==
    CASE p = "open" -> text.side # "none" /\ text.symbol # NoSymbol /\ "stop" \in text.cues
      [] p = "stop" -> "stop" \in text.cues /\ text.stop # None
      [] OTHER      -> p \in text.cues

Classify(text) ==
    LET fitting == SelectSeq(Patterns, LAMBDA p : Matches(text, p))
    IN  IF fitting = <<>> THEN "NOISE" ELSE EventOf[Head(fitting)]

----------------------------------------------------------------------------
(* A paper trade.                                                          *)

NoTrade == [state |-> "none"]
Unwritten == [state |-> "unwritten"]

Given(number, price) == IF number # None THEN number ELSE price

\* open_trade: the trades it may return, none when it refuses the setup (a chart may lack any
\* part of it).
Opened(text, price) ==
    LET entry == Given(text.entry, price)
    IN  IF /\ text.symbol # NoSymbol /\ text.side # "none"
           /\ text.stop # None /\ entry # None
           /\ IF text.side = "LONG" THEN text.stop < entry ELSE text.stop > entry
        THEN {[state |-> "open", symbol |-> text.symbol, side |-> text.side,
               fills |-> <<entry>>, stop |-> <<text.stop>>, target |-> text.target,
               exit |-> <<>>]}
        ELSE {}

\* exit_price_for: a stop that was hit is where it stood; a target may be the trade's own;
\* anything else needs the market.
ExitLevels(x, event, price) ==
    LET market == IF price # None THEN {<<price>>} ELSE {}
    IN  CASE event = "STOP_HIT"                  -> {x.stop}
          [] event = "TP" /\ x.target # None     -> {<<x.target>>}
          [] OTHER                               -> market

\* add_leg, move_stop, breakeven, set_take_profit and close_trade: what a trade may become,
\* nothing when the event is refused.
Changed(x, event, text, price) ==
    CASE event = "ADD" ->
           {[x EXCEPT !.fills = Append(@, fill),
                      !.stop = IF text.stop # None THEN <<text.stop>> ELSE @] :
               fill \in {Given(text.entry, price)} \ {None}}
      [] event = "STOP_MOVE"                    -> {[x EXCEPT !.stop = <<text.stop>>]}
      [] event = "BREAKEVEN"                    -> {[x EXCEPT !.stop = x.fills]}
      [] event = "TP" /\ text.target # None     -> {[x EXCEPT !.target = text.target]}
      [] event = "TP_REMOVED"                   -> {[x EXCEPT !.target = None]}
      [] OTHER -> {[x EXCEPT !.state = "closed", !.exit = level] :
                      level \in ExitLevels(x, event, price)}

----------------------------------------------------------------------------
(* A batch is one transaction: its own writes are visible to it alone until*)
(* it commits.                                                             *)

NoBatch == [todo |-> {}, done |-> {}, wrote |-> [m \in Messages |-> Unwritten],
            noted |-> {}, lane |-> FALSE, open |-> FALSE]

RowsLocked == UNION {batch[w].todo \cup batch[w].done : w \in PaperWorkers}
Received == (1..arrived) \ analyzed

Overlay(wrote) == [m \in Messages |-> IF wrote[m] = Unwritten THEN paper[m] ELSE wrote[m]]
Noted(w) == journal \cup batch[w].noted

\* The row at hand: a batch is taken in the order of its rows.
AtHand(w) == {r \in batch[w].todo : \A q \in batch[w].todo : r <= q}

\* UNIQUE (source_message_id, event_type), ON CONFLICT DO NOTHING.
Added(entries, entry) ==
    IF \E e \in entries : e.message = entry.message /\ e.event = entry.event
    THEN {} ELSE {entry}

\* Fault: the transaction does not take the lane lock.
MayEnterAnyway(w) == TRUE

\* The lane lock is free, or already ours.
MayEnter(w) == \A v \in PaperWorkers \ {w} : ~batch[v].lane

\* Any event of the message stops a later revision of it, whatever became of the first.
Seen(w, m) == \E e \in Noted(w) : e.message = m

OpenTrades(seen, symbol) == {m \in Messages : seen[m].state = "open" /\ seen[m].symbol = symbol}

\* The open trade a management message is about: the one it names, or the only one.
Subjects(seen, text) ==
    LET open == {m \in Messages : seen[m].state = "open"}
    IN  IF text.symbol # NoSymbol THEN OpenTrades(seen, text.symbol)
        ELSE IF Cardinality(open) = 1 THEN open ELSE {}

ChannelSays ==
    wording \in {f \in [Messages -> UNION {TextsOf[m] : m \in Messages}] :
                 \A m \in Messages : f[m] \in TextsOf[m]}

NothingHandled ==
    /\ arrived = 0 /\ analyzed = {} /\ rollbacks = 0
    /\ paper = [m \in Messages |-> NoTrade]
    /\ journal = {}
    /\ batch = [w \in PaperWorkers |-> NoBatch]

PaperInit == ChannelSays /\ NothingHandled

\* Intake stores the next revision of the channel.
Arrive ==
    /\ arrived < PaperRows
    /\ arrived' = arrived + 1
    /\ UNCHANGED <<wording, analyzed, paper, journal, batch, rollbacks>>

tables == <<wording, arrived, analyzed, paper, journal, rollbacks>>

\* claim_paper_batch: the oldest rows that nobody has locked.
ClaimPaperBatch(w) ==
    LET free == Received \ RowsLocked
    IN  /\ ~batch[w].open
        /\ free # {}
        /\ batch' = [batch EXCEPT ![w] = [NoBatch EXCEPT !.open = TRUE,
                        !.todo = {r \in free : Cardinality({q \in free : q < r}) < BatchSize}]]
        /\ UNCHANGED tables

\* The row at hand is marked ANALYZED, with the trade written and the entries made for it.
Handled(w, r, written, entries, lane) ==
    LET b == batch[w]
    IN  batch' = [batch EXCEPT ![w] =
            [b EXCEPT !.todo = @ \ {r}, !.done = @ \cup {r},
                      !.wrote = [m \in Messages |-> IF m \in DOMAIN written THEN written[m]
                                                                            ELSE @[m]],
                      !.noted = @ \cup UNION {Added(Noted(w), e) : e \in entries},
                      !.lane = @ \/ lane]]

Entry(m, event, subject, closes) ==
    [message |-> m, event |-> event, trade |-> subject, closes |-> closes]

\* The row of one trade.
Only(m, x) == [n \in {m} |-> x]

\* What is only recorded: talk, a chart that is not analysed or shows no setup, an image that
\* cannot be read.
HandleQuiet(w, r) ==
    LET m == MessageOf[r]
        text == wording[m]
    IN  /\ r \in AtHand(w)
        /\ \E what \in IF text.chart THEN {"MEDIA_ONLY", "REFUSED:IMAGE"}
                       ELSE {"NOISE"} \cap {Classify(text)} :
              Handled(w, r, <<>>, {Entry(m, what, None, FALSE)}, FALSE)
        /\ UNCHANGED tables

\* handle_event for a message that means something, the price being what the ticker says.  A
\* chart is taken for a setup, never for management.
HandleEvent(w, r) ==
    LET m == MessageOf[r]
        text == wording[m]
        event == IF text.chart THEN "OPEN" ELSE Classify(text)
        seen == Overlay(batch[w].wrote)
        refused == Entry(m, "REFUSED", None, FALSE)
    IN  /\ r \in AtHand(w)
        /\ event # "NOISE"
        /\ MayEnter(w)
        /\ UNCHANGED tables
        /\ \/ Seen(w, m) /\ Handled(w, r, <<>>, {}, TRUE)
           \/ /\ ~Seen(w, m) /\ event = "OPEN"
              /\ LET held == OpenTrades(seen, text.symbol)
                 IN  \/ \E x \in held :
                           Handled(w, r, <<>>, {Entry(m, "OPEN_IGNORED", x, FALSE)}, TRUE)
                     \/ /\ held = {}
                        /\ \E price \in PaperPrices \cup {None} :
                              \/ /\ Opened(text, price) = {}
                                 /\ Handled(w, r, <<>>, {refused}, TRUE)
                              \/ \E x \in Opened(text, price) :
                                    Handled(w, r, IF seen[m] = NoTrade THEN Only(m, x) ELSE <<>>,
                                            {Entry(m, "OPEN", None, FALSE)}, TRUE)
           \/ /\ ~Seen(w, m) /\ event # "OPEN"
              /\ Subjects(seen, text) = {}
              /\ Handled(w, r, <<>>, {Entry(m, "UNMATCHED", None, FALSE)}, TRUE)
           \/ /\ ~Seen(w, m) /\ event # "OPEN"
              /\ \E s \in Subjects(seen, text), price \in PaperPrices \cup {None} :
                    \/ /\ Changed(seen[s], event, text, price) = {}
                       /\ Handled(w, r, <<>>, {refused}, TRUE)
                    \/ \E x \in Changed(seen[s], event, text, price) :
                          Handled(w, r, Only(s, x), {Entry(m, event, s, x.state = "closed")}, TRUE)

\* The batch commits as a whole and frees its locks.
CommitPaperBatch(w) ==
    LET b == batch[w]
    IN  /\ b.open /\ b.todo = {}
        /\ analyzed' = analyzed \cup b.done
        /\ paper' = Overlay(b.wrote)
        /\ journal' = journal \cup UNION {Added(journal, e) : e \in b.noted}
        /\ batch' = [batch EXCEPT ![w] = NoBatch]
        /\ UNCHANGED <<wording, arrived, rollbacks>>

\* An error outside one message's own, or the death of the process, takes the batch back.
RollBack(w) ==
    /\ batch[w].open
    /\ rollbacks < MaxRollbacks
    /\ rollbacks' = rollbacks + 1
    /\ batch' = [batch EXCEPT ![w] = NoBatch]
    /\ UNCHANGED <<wording, arrived, analyzed, paper, journal>>

PaperNext ==
    \/ Arrive
    \/ \E w \in PaperWorkers :
          \/ ClaimPaperBatch(w) \/ CommitPaperBatch(w) \/ RollBack(w)
          \/ \E r \in 1..PaperRows : HandleQuiet(w, r) \/ HandleEvent(w, r)

PaperSpec == PaperInit /\ [][PaperNext]_paperVars

----------------------------------------------------------------------------
\* A trade exists for every OPEN that is recorded, has one leg more than its recorded
\* additions, and is closed when exactly one event closed it.
Additions(entries, m) == {e \in entries : e.trade = m /\ e.event = "ADD"}
Closings(entries, m) == {e \in entries : e.trade = m /\ e.closes}
Tells(entries, m, x) ==
    /\ x # NoTrade <=> \E e \in entries : e.message = m /\ e.event = "OPEN"
    /\ x # NoTrade =>
          /\ Len(x.fills) = 1 + Cardinality(Additions(entries, m))
          /\ Cardinality(Closings(entries, m)) = IF x.state = "closed" THEN 1 ELSE 0

OpenOnce(ledger) ==
    \A m, n \in Messages :
        ledger[m].state = "open" /\ ledger[n].state = "open" /\ m # n
            => ledger[m].symbol # ledger[n].symbol

(* The ledger and its journal tell the same story, through overlapping     *)
(* workers, batches that roll back and revisions of one message, and a     *)
(* symbol is open once ("One lane lock serializes target resolution,       *)
(* read/modify/write and dedup together", kaka/worker.py).                 *)
PaperMatchesJournal ==
    /\ \A m \in Messages : Tells(journal, m, paper[m])
    /\ OpenOnce(paper)

============================================================================
