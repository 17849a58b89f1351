------------------------------- MODULE Signals -------------------------------
(***************************************************************************)
(* From the channel to the queues: the Telegram intake with its catch-up   *)
(* pass (intake/), and the analyzer that turns stored messages into        *)
(* signals, dispatches and management updates (analyzer/).                 *)
(*                                                                         *)
(* The channel publishes messages and edits them.  A revision is one text  *)
(* of one message: the pair of the message's number and the number of its  *)
(* edit.  The analyzer holds the row locks of its batch until it commits,  *)
(* and writes nothing anybody sees before that.  Its batch is never at its *)
(* limit here.                                                             *)
(***************************************************************************)
EXTENDS Integers, FiniteSets

CONSTANTS
    MaxMessage,  \* bound: messages the channel publishes
    MaxEdits,    \* bound: edits of each message
    Says,        \* bound: what each message may say, "hold" being a caption that stands down
    Media,       \* bound: messages that carry media
    Passing,     \* bound: messages that may leave their window or be deleted
    Analyzers,   \* analyzer processes: one, and another while it is replaced
    MaxDeaths    \* bound: analyzer processes that die

ASSUME SignalsAssumption ==
    /\ MaxMessage \in Nat \ {0} /\ MaxDeaths \in Nat
    /\ MaxEdits \in [1..MaxMessage -> Nat]
    /\ Says \in [1..MaxMessage -> SUBSET {"long", "short", "manage", "hold"}]
    /\ Media \cup Passing \subseteq 1..MaxMessage /\ IsFiniteSet(Analyzers)

VARIABLES
    said,      \* the channel: the text of each revision, "none" while it is unwritten
    gone,      \* messages deleted in the channel
    fresh,     \* messages inside their window of five minutes
    message,   \* table telegram_messages
    covered,   \* telegram_catchup_coverage: the watermark, 0 for no row
    catching,  \* the catch-up pass: the message it has stored and not yet covered, or 0
    analyzer,  \* per process, the rows its transaction has locked
    dispatch,  \* table dispatches, one per revision with a signal
    updates,   \* table source_management_updates: the revisions enrolled
    anchor,    \* history: the first watermark
    deaths

intakeVars == <<said, gone, fresh, message, covered, catching, anchor>>
signalVars == <<intakeVars, analyzer, dispatch, updates, deaths>>

Ids   == 1..MaxMessage
Revs  == UNION {{i} \X (0..MaxEdits[i]): i \in Ids}

Written(i)  == {r \in Revs: r[1] = i /\ said[r] # "none"}
Current(i)  == CHOOSE r \in Written(i): \A s \in Written(i): s[2] <= r[2]
Extant      == {i \in Ids \ gone: Written(i) # {}}
NoMessage   == [state |-> "none", reason |-> "none"]
Stored(r)   == message[r].state # "none"
Siblings(r) == {s \in Revs: s[1] = r[1] /\ Stored(s)}
Latest      == CHOOSE i \in Extant: \A k \in Extant: k <= i

-----------------------------------------------------------------------------
(* Intake: what is stored of one revision *)

\* _build_message and ingest_async: why a message can be no entry, as far as it is known
\* when it is handled.  A failed download may heal, media of the wrong kind may not.
Built(r) ==
    IF r[1] \in fresh THEN {"none"} \cup (IF r[1] \in Media THEN {"media", "unfit"} ELSE {})
    ELSE {"stale"}

\* _classify_revision
Revision(r, built) ==
    CASE built # "none" -> built
      [] built = "none" /\ Siblings(r) = {} -> "none"
      [] built = "none" /\ Siblings(r) # {} ->
            IF /\ \A s \in Siblings(r): message[s].reason # "edited"
               /\ \E s \in Siblings(r): said[s] = said[r]
            THEN "superseded" ELSE "edited"

\* INSERT ... ON CONFLICT DO NOTHING, then _heal_media on the row that is there.
Inserted(r, built) ==
    LET reason == Revision(r, built)
        old    == message[r]
    IN  CASE ~Stored(r) ->
               [state |-> IF reason = "none" THEN "RECEIVED" ELSE "EXPIRED", reason |-> reason]
          [] Stored(r) /\ built = "none" /\ old.reason = "media" /\ old.state = "EXPIRED" ->
               [state |-> "RECEIVED", reason |-> "none"]
          [] OTHER -> old

\* Fault: only a revision that was itself classified as an edit revokes the others.
RevokesIfEdited(r, built) ==
    IF Revision(r, built) = "edited" THEN {s \in Siblings(r): said[s] # said[r]} ELSE {}

\* _revoke_edited_source
Revokes(r, built) == {s \in Siblings(r): said[s] # said[r]}

\* _anchor_coverage
Anchored(i) == IF covered = 0 THEN i ELSE covered

Locked == UNION {analyzer[a]: a \in Analyzers}

\* save_and_enqueue_forward, and save_if_new: one transaction, which waits for the row
\* locks of the analyzer.
Save(r) ==
    \E built \in Built(r):
      /\ (Revokes(r, built) \cup {r}) \cap Locked = {}
      /\ message' = [s \in Revs |->
            CASE s = r -> Inserted(r, built)
              [] s \in Revokes(r, built) -> [message[s] EXCEPT !.reason = "edited"]
              [] OTHER -> message[s]]
      /\ covered' = Anchored(r[1])
      /\ anchor' = IF anchor = 0 THEN r[1] ELSE anchor

signalRest == <<said, gone, fresh, analyzer, dispatch, updates, deaths>>

\* handle_message: a push may come late, again, after a newer one, or never.
Realtime(r) ==
    /\ said[r] # "none"
    /\ Save(r)
    /\ UNCHANGED <<catching, signalRest>>

\* backfill_latest: the newest message, whatever the watermark.
Backfill ==
    /\ Extant # {}
    /\ ~Stored(Current(Latest))
    /\ Save(Current(Latest))
    /\ UNCHANGED <<catching, signalRest>>

Missed     == {i \in Extant: i > covered}
NextMissed == CHOOSE i \in Missed: \A k \in Missed: i <= k

\* Fault: the watermark moves first, and the pass may fail before the message is stored.
CatchUpCoversFirst ==
    /\ covered > 0 /\ catching = 0
    /\ Missed # {}
    /\ \/ /\ catching' = NextMissed
          /\ \E r \in Written(NextMissed): Save(r)
          /\ UNCHANGED signalRest
       \/ /\ covered' = NextMissed
          /\ deaths < MaxDeaths /\ deaths' = deaths + 1
          /\ UNCHANGED <<said, gone, fresh, message, catching, anchor, analyzer, dispatch, updates>>

\* catch_up_missed: the next message after the watermark, as the history showed it, is
\* stored first (handle_historical_message) ...
CatchUp ==
    /\ covered > 0 /\ catching = 0
    /\ Missed # {}
    /\ catching' = NextMissed
    /\ \E r \in Written(NextMissed): Save(r)
    /\ UNCHANGED signalRest

\* ... and covered afterwards (advance), or the pass fails and starts over.
CatchUpAdvance ==
    /\ catching # 0
    /\ covered' = IF catching > covered THEN catching ELSE covered
    /\ catching' = 0
    /\ UNCHANGED <<message, anchor, signalRest>>

CatchUpFails ==
    /\ catching # 0
    /\ deaths < MaxDeaths
    /\ deaths' = deaths + 1
    /\ catching' = 0
    /\ UNCHANGED <<said, gone, fresh, message, covered, anchor, analyzer, dispatch, updates>>

-----------------------------------------------------------------------------
(* Analyzer: process_received_batch *)

\* SOURCE_ELIGIBLE_SQL.  Its second arm is for re_admission_reference, which only an
\* operator's script sets.
Eligible(r) ==
    /\ message[r].reason = "none"
    /\ \A s \in Siblings(r): message[s].reason # "edited"
    /\ r[1] \in fresh

\* _SELECT_RECEIVED ... FOR UPDATE SKIP LOCKED
Batch == {r \in Revs: message[r].state = "RECEIVED" /\ Eligible(r)} \ Locked

SelectBatch(a) ==
    /\ analyzer[a] = {}
    /\ Batch # {}
    /\ analyzer' = [analyzer EXCEPT ![a] = Batch]
    /\ UNCHANGED <<intakeVars, dispatch, updates, deaths>>

\* Fault: an instruction is enrolled with the result of the model, and with nothing else.
EnrolledWithResult(r, outcome) == outcome \in {"signal", "nothing"} /\ said[r] = "manage"

\* parse_source_management reads the text alone: the instruction is enrolled when the row
\* has become ineligible and when the analysis raised, too.
Enrolled(r, outcome) == said[r] = "manage"

\* What the model and the deterministic parser make of a text is anybody's guess, and the
\* call may raise (analyze_with_fallback, analyze_image_json).  A caption that stands down
\* gives no signal.  A row may leave its window before or after its turn in the batch.
Outcomes(r) ==
    {"nothing", "failed"}
    \cup (IF said[r] = "hold" THEN {} ELSE {"signal"})
    \cup (IF Eligible(r) THEN {} ELSE {"late"})

Analyzed(r, outcome) ==
    CASE outcome = "late" /\ ~Enrolled(r, outcome) -> [state |-> "EXPIRED", reason |-> "stale"]
      [] outcome = "failed" -> [state |-> "FAILED", reason |-> "failed"]
      [] OTHER -> [message[r] EXCEPT !.state = "ANALYZED"]

\* Row by row, each between savepoints, and then one commit: states, signals with their
\* dispatches, and instructions appear at once.
CommitBatch(a) ==
    /\ analyzer[a] # {}
    /\ \E outcome \in [analyzer[a] -> {"signal", "nothing", "failed", "late"}]:
         /\ \A r \in analyzer[a]: outcome[r] \in Outcomes(r)
         /\ message' = [r \in Revs |-> IF r \in analyzer[a] THEN Analyzed(r, outcome[r])
                                                           ELSE message[r]]
         /\ dispatch' = [r \in Revs |->
               IF r \in analyzer[a] /\ outcome[r] = "signal" /\ dispatch[r] = "none"
               THEN "QUEUED" ELSE dispatch[r]]
         /\ updates' = updates \cup {r \in analyzer[a]: Enrolled(r, outcome[r])}
    /\ analyzer' = [analyzer EXCEPT ![a] = {}]
    /\ UNCHANGED <<said, gone, fresh, covered, catching, anchor, deaths>>

\* The process dies, or an enrolment fails a second time: that statement leaves the
\* transaction aborted, RELEASE SAVEPOINT raises, and the batch is rolled back with it.
AnalyzerDies(a) ==
    /\ analyzer[a] # {}
    /\ deaths < MaxDeaths
    /\ deaths' = deaths + 1
    /\ analyzer' = [analyzer EXCEPT ![a] = {}]
    /\ UNCHANGED <<intakeVars, dispatch, updates>>

\* The dispatcher takes up a queued dispatch, and expires it if its source no longer
\* counts (expire_source_dispatch); what follows is EntryLifecycle.
TakeUp(r) ==
    /\ dispatch[r] = "QUEUED"
    /\ dispatch' = [dispatch EXCEPT ![r] = IF Eligible(r) THEN "CLAIMED" ELSE "EXPIRED"]
    /\ UNCHANGED <<intakeVars, analyzer, updates, deaths>>

-----------------------------------------------------------------------------
(* The channel and the clock *)

channelRest == <<message, covered, catching, anchor, analyzer, dispatch, updates, deaths>>

Publish(i) ==
    /\ Written(i) = {}
    /\ \A k \in 1..(i - 1): Written(k) # {}
    /\ \E t \in Says[i]: said' = [said EXCEPT ![<<i, 0>>] = t]
    /\ fresh' = fresh \cup {i}
    /\ UNCHANGED <<gone, channelRest>>

\* Most edits are cosmetic and leave the text as it is.
Edit(i) ==
    /\ i \in Extant
    /\ Current(i)[2] < MaxEdits[i]
    /\ LET r == <<i, Current(i)[2] + 1>>
       IN  \E t \in Says[i]: said' = [said EXCEPT ![r] = t]
    /\ UNCHANGED <<gone, fresh, channelRest>>

Delete(i) ==
    /\ i \in Extant \cap Passing
    /\ gone' = gone \cup {i}
    /\ UNCHANGED <<said, fresh, channelRest>>

GoStale(i) ==
    /\ i \in fresh \cap Passing
    /\ fresh' = fresh \ {i}
    /\ UNCHANGED <<said, gone, channelRest>>

-----------------------------------------------------------------------------
SignalsInit ==
    /\ said = [r \in Revs |-> "none"]
    /\ gone = {} /\ fresh = {}
    /\ message = [r \in Revs |-> NoMessage]
    /\ covered = 0 /\ anchor = 0 /\ catching = 0
    /\ analyzer = [a \in Analyzers |-> {}]
    /\ dispatch = [r \in Revs |-> "none"]
    /\ updates = {}
    /\ deaths = 0

CatchUpStep == CatchUp \/ CatchUpAdvance
AnalyzerStep(a) == SelectBatch(a) \/ CommitBatch(a)

SignalsNext ==
    \/ \E r \in Revs: Realtime(r) \/ TakeUp(r)
    \/ Backfill \/ CatchUpStep \/ CatchUpFails
    \/ \E a \in Analyzers: AnalyzerStep(a) \/ AnalyzerDies(a)
    \/ \E i \in Ids: Publish(i) \/ Edit(i) \/ Delete(i) \/ GoStale(i)

SignalsSpec == SignalsInit /\ [][SignalsNext]_signalVars

\* The catch-up loop outlives its failures, and a batch that holds it up is committed.
FairSignalsSpec ==
    /\ SignalsSpec
    /\ WF_signalVars(CatchUpStep)
    /\ \A a \in Analyzers: WF_signalVars(AnalyzerStep(a))

-----------------------------------------------------------------------------
(* Correctness *)

\* Type invariant of the stored messages, the dispatches and the updates.
SignalsTypeOK ==
    /\ message \in [Revs -> [state: {"none", "RECEIVED", "ANALYZED", "FAILED", "EXPIRED"},
                             reason: {"none", "stale", "media", "unfit", "superseded",
                                      "edited", "failed"}]]
    /\ dispatch \in [Revs -> {"none", "QUEUED", "CLAIMED", "EXPIRED"}]
    /\ updates \subseteq Revs
    /\ covered \in 0..MaxMessage

\* However often a message is edited, pushed again and caught up, one revision of it is
\* traded at most (_classify_revision, the locks of the batch, ON CONFLICT).
OneTradePerMessage ==
    \A i \in Ids: Cardinality({r \in Revs: r[1] = i /\ dispatch[r] # "none"}) <= 1

\* A dispatch is taken up only while every stored revision of its message says the same,
\* also if the edit arrived, in any order, while the analyzer held the row.
VetoStands ==
    [][\A r \in Revs: dispatch[r] = "QUEUED" /\ dispatch'[r] = "CLAIMED" =>
         \A s \in Siblings(r): said[s] = said[r]]_signalVars

\* A message the analyzer is done with has its instruction in the queue, whatever became
\* of the analysis (_enroll_management in all four places).
InstructionSurvives ==
    \A r \in Revs: message[r].state \in {"ANALYZED", "FAILED"} /\ said[r] = "manage" =>
        r \in updates

\* Every message later than the first watermark is stored in the end, unless it is deleted
\* first, although its push was lost, its window is over, and the pass that catches it up
\* fails between its steps (run_catchup_loop, catch_up_missed): a message counts as covered
\* only when it is stored.
MissedIsCaught ==
    []<>(\A i \in Extant: anchor > 0 /\ i > anchor => \E r \in Written(i): Stored(r))

=============================================================================
