--------------------------- MODULE EntryLifecycle ---------------------------
(***************************************************************************)
(* The life of a Bitget entry: the dispatcher's claim, preflight and       *)
(* submission (execution/bitget_dispatcher.py, bitget_dispatch_execution   *)
(* .py), the recovery that every cycle starts with, the reconciliation     *)
(* monitor that writes the same rows from another process, and the venue.  *)
(*                                                                         *)
(* A worker is a process that runs recover_entry_lifecycles and run_once:  *)
(* the dispatcher service, or a console worker that executes a manual      *)
(* trade or a reconcile job.  Each action is one database transaction, one *)
(* provider call, or a run of them between which no other process can tell *)
(* the difference; whatever a worker has read and not yet written is in    *)
(* its own record worker[w].  The margin ledger is the one of MarginLedger.*)
(*                                                                         *)
(* Entries are single orders here; the split market/limit entry, the       *)
(* approved baseline and post-fill margin verification are left out.       *)
(***************************************************************************)
EXTENDS MarginLedger

CONSTANTS
    OidOf,         \* client_oid of a dispatch; two revisions may share one
    Workers,       \* processes that run recovery and run_once
    Consoles,      \* the console workers among them
    Serves,        \* the dispatches each worker executes
    Qty,           \* requested quantity of every entry
    Pauses,        \* is the admission pause consulted (CONSOLE_ENABLED) and used?
    KillEnforced,  \* bitget_kill_switch_enforced: the latch is ever set
    Exits,         \* how a position may end: "owned" and "alien" closes
    Covers,        \* what placing protection may achieve
    Outages,       \* may recovery's protection reads fail?
    LatePosts,     \* may a GET overtake an entry POST that is still in flight?
    MonitorPace,   \* the monitor's intent pass: "off", "atomic", or "slow" when
                   \* other steps may come between its GET and its write
    MaxCrashes     \* bound on worker crashes

ASSUME EntryAssumption ==
    /\ OidOf \in [Dispatches -> Oids]
    /\ Consoles \subseteq Workers
    /\ Serves \in [Workers -> SUBSET Dispatches]
    /\ Qty \in Nat \ {0}
    /\ Pauses \in BOOLEAN
    /\ KillEnforced \in BOOLEAN
    /\ Exits \subseteq {"owned", "alien"}
    /\ Covers \subseteq {"venue", "local", "none"}
    /\ Outages \in BOOLEAN
    /\ LatePosts \in BOOLEAN
    /\ MonitorPace \in {"off", "atomic", "slow"}
    /\ MaxCrashes \in Nat

VARIABLES
    dispatch,      \* rows of dispatches: state, terminal_reason, lease
    intent,        \* ENTRY rows of live_order_intents, and their close fills
    cover,         \* protection of the filled position: venue plan or local row
    venue,         \* the exchange's side of each order and its position
    worker,        \* local state of every worker
    monitor,       \* the reconciliation monitor's read not yet written back
    fresh,         \* dispatches whose source message is still eligible
    killed,        \* an entry kill switch scope is latched
    paused,        \* the console's admission pause is active
    posts,         \* history: entry POSTs ever sent per client order id
    crashes        \* worker crashes so far

entryVars == <<ledgerVars, dispatch, intent, cover, venue, worker, monitor,
               fresh, killed, paused, posts, crashes>>

NoDispatch == "no-dispatch-in-hand"
NoOid      == "no-order"
Unlisted   == "unlisted"

(* Manual dispatches are inserted by a console worker; the others come     *)
(* from analysed signals.                                                  *)
Manual == UNION {Serves[w] : w \in Consoles}

EntryStates    == {"QUEUED", "PREFLIGHT", "SIZED", "VALIDATED", "SUBMITTING"}
DispatchStates == EntryStates \cup
    {"absent", "ACKNOWLEDGED", "PARTIALLY_FILLED", "FILLED", "REJECTED",
     "EXPIRED", "UNKNOWN", "CLOSING", "CLOSED"}
IntentStates   == {"none", "requested", "acknowledged", "partially_filled",
                   "filled", "rejected", "unknown", "reconciled"}
SettledStates  == {"rejected", "reconciled"}

(* terminal_reason, reduced to what unresolved_protection_issues and the   *)
(* dispatcher's loop tell apart.                                           *)
DispatchReasons == {"none", "unprotected", "flat-unproven"}

NoReadback == [status |-> "UNKNOWN", qty |-> 0, known |-> FALSE]

AtRest ==
    [pc |-> "idle", d |-> NoDispatch, cand |-> NoDispatch,
     listed |-> [d \in Dispatches |-> Unlisted], res |-> NoReadback,
     reason |-> "none", mine |-> FALSE, seen |-> {}, ready |-> FALSE,
     issues |-> {}, orphans |-> {}, moot |-> NoOid, verified |-> {}]

MonitorIdle == [oid |-> NoOid, res |-> NoReadback]

EntryInit ==
    /\ LedgerInit
    /\ dispatch = [d \in Dispatches |->
            [state |-> IF d \in Manual THEN "absent" ELSE "QUEUED",
             reason |-> "none", leased |-> FALSE]]
    /\ intent = [o \in Oids |->
            [state |-> "none", filled |-> 0, known |-> FALSE, closed |-> FALSE]]
    /\ cover   = [o \in Oids |-> "none"]
    /\ venue   = [o \in Oids |-> [order |-> "none", filled |-> 0, exit |-> "none"]]
    /\ worker  = [w \in Workers |-> AtRest]
    /\ monitor = MonitorIdle
    /\ fresh   = Dispatches
    /\ killed  = FALSE
    /\ paused  = FALSE
    /\ posts   = [o \in Oids |-> 0]
    /\ crashes = 0

-----------------------------------------------------------------------------
(* What a provider GET shows.                                              *)

Open(o)     == venue[o].filled > 0 /\ venue[o].exit = "none"
Resting(o)  == venue[o].order = "live"
OpenSymbols == {SymbolOf[o] : o \in {p \in Oids : Open(p)}}
FlatSymbol(s)  == s \notin OpenSymbols
EmptySymbol(s) == \A o \in Oids : SymbolOf[o] = s => ~ Open(o) /\ ~ Resting(o)

(* classify_live_order: a partial execution survives the cancellation of   *)
(* its remainder.                                                          *)
VenueStatus(o) ==
    IF venue[o].filled >= Qty THEN "FILLED"
    ELSE IF venue[o].filled > 0 THEN "PARTIAL"
    ELSE IF venue[o].order = "done" THEN "REJECTED"
    ELSE "ACKNOWLEDGED"

(* reconcile_intent and reconcile_unknown_intent: an order the venue does  *)
(* not know is rejected when the symbol is flat with nothing pending.      *)
Readback(o, known) ==
    IF venue[o].order \in {"live", "done"}
    THEN [status |-> VenueStatus(o), qty |-> venue[o].filled, known |-> TRUE]
    ELSE [status |-> IF EmptySymbol(SymbolOf[o]) THEN "REJECTED" ELSE "UNKNOWN",
          qty |-> 0, known |-> known]

IntentState(status) ==
    IF status = "FILLED" THEN "filled"
    ELSE IF status = "PARTIAL" THEN "partially_filled"
    ELSE IF status = "ACKNOWLEDGED" THEN "acknowledged"
    ELSE IF status = "REJECTED" THEN "rejected"
    ELSE "unknown"

(* Fault: a partial fill is written under its order status.                *)
DispatchTargetUnmapped(status) == status

DispatchTarget(status) ==
    IF status = "PARTIAL" THEN "PARTIALLY_FILLED" ELSE status

-----------------------------------------------------------------------------
(* Durable rows.                                                           *)

(* transition: compare-and-set on the dispatch state.  A lease is read     *)
(* only while the row is QUEUED, so it is forgotten here.                  *)
CanMove(d, from) == dispatch[d].state = from

Move(d, to, reason) ==
    dispatch' = [dispatch EXCEPT ![d] = [state |-> to, reason |-> reason, leased |-> FALSE]]

(* PostgresLiveIntentStore.update: a row that knows its provider order id  *)
(* takes no write from a record that does not.                             *)
UpdateAllowed(o, known) == intent[o].known => known

RecordReadback(o, r) ==
    intent' = [intent EXCEPT ![o].state = IntentState(r.status),
                             ![o].filled = r.qty,
                             ![o].known = @ \/ r.known]

(* A row is resolved when the ledger's unique indexes allow it.            *)
ResolveAllowed(o, outcome) ==
    \/ outcome = "ACKNOWLEDGED" /\ resvState[o] # "none"
    \/ CanResolve(o, outcome)

(* recovery_candidates: owned entries that may still matter.               *)
Candidate(d) ==
    LET i == intent[OidOf[d]] IN
    /\ holder[OidOf[d]] = d
    /\ i.state # "none"
    /\ i.filled > 0 \/ i.state \notin SettledStates
    /\ dispatch[d].state # "CLOSED"

(* unresolved_protection_issues. *)
ProtectionUnresolved ==
    \E d \in Dispatches : dispatch[d].reason \in {"unprotected", "flat-unproven"}

(* expire_source_dispatch refuses an entry that may have been sent.        *)
Expirable(d, ints) ==
    /\ dispatch[d].state \in {"QUEUED", "PREFLIGHT", "SUBMITTING"}
    /\ ExpiryAllowed(d)
    /\ \A o \in Oids : holder[o] = d =>
           /\ ints[o].filled = 0
           /\ ints[o].state \in SettledStates \cup {"none"}

Expired(ds) ==
    [d \in Dispatches |->
        IF d \in ds THEN [state |-> "EXPIRED", reason |-> "none", leased |-> FALSE]
        ELSE dispatch[d]]

(* entry_source_eligible: an active pause answers before the source is     *)
(* looked at; a stale signal is expired on the way, a manual one is not.   *)
Eligible(d) == ~ paused /\ d \in fresh /\ dispatch[d].state \in {"QUEUED", "SUBMITTING"}

ExpiredByCheck(d, ints) ==
    {x \in {d} : ~ paused /\ x \notin Manual /\ x \notin fresh /\ Expirable(x, ints)}

-----------------------------------------------------------------------------
(* Worker steps.  What a worker step leaves alone unless it says so.       *)
outsideVars == <<venue, monitor, fresh, killed, paused, posts, crashes>>

At(w, pc) == worker[w].pc = pc

(* An exception that leaves recovery or run_once: the dispatcher process   *)
(* exits and is restarted, a console job ends reconciliation_pending.      *)
Restart(w) == worker' = [worker EXCEPT ![w] = AtRest]

Abort(w) == Restart(w) /\ UNCHANGED <<ledgerVars, dispatch, intent, cover>>

(* recover_entry_lifecycles: the candidates and their states are listed    *)
(* once, at the start.                                                     *)
Listing == [d \in Dispatches |-> IF Candidate(d) THEN dispatch[d].state ELSE Unlisted]

Recovering(d) == [AtRest EXCEPT !.pc = "recover", !.d = d, !.listed = Listing]

(* The dispatcher starts every cycle with recovery; a console worker runs  *)
(* it for an intent.reconcile job, which names an existing intent.         *)
BeginRecovery(w) ==
    /\ At(w, "idle")
    /\ w \in Consoles => \E o \in Oids : intent[o].state # "none"
    /\ worker' = [worker EXCEPT ![w] = Recovering(NoDispatch)]
    /\ UNCHANGED <<ledgerVars, dispatch, intent, cover, outsideVars>>

(* A trade.open job: the manual dispatch is inserted QUEUED and leased.    *)
OpenManual(w, d) ==
    /\ At(w, "idle")
    /\ w \in Consoles /\ d \in Serves[w]
    /\ dispatch[d].state = "absent"
    /\ dispatch' = [dispatch EXCEPT ![d].state = "QUEUED", ![d].leased = TRUE]
    /\ worker' = [worker EXCEPT ![w] = Recovering(d)]
    /\ UNCHANGED <<ledgerVars, intent, cover, outsideVars>>

ToRecover(w) == {d \in Dispatches : worker[w].listed[d] # Unlisted}

(* One candidate: the durable intent is loaded and read back from the      *)
(* venue.  A quantity below the recorded fills stops recovery.             *)
RecoverRead(w, d) ==
    LET o == OidOf[d]
        r == Readback(o, intent[o].known) IN
    /\ At(w, "recover")
    /\ d \in ToRecover(w)
    /\ IF r.qty < intent[o].filled THEN Restart(w)
       ELSE worker' = [worker EXCEPT ![w].pc = "recover-store", ![w].cand = d, ![w].res = r]
    /\ UNCHANGED <<ledgerVars, dispatch, intent, cover, outsideVars>>

(* _persist_readback. An entry without fills goes straight to its verdict. *)
RecoverStore(w) ==
    LET o == OidOf[worker[w].cand]
        r == worker[w].res IN
    /\ At(w, "recover-store")
    /\ IF ~ UpdateAllowed(o, r.known) THEN Abort(w)
       ELSE /\ RecordReadback(o, r)
            /\ worker' = [worker EXCEPT
                   ![w].pc = IF r.qty > 0 THEN "recover-judge" ELSE "recover-verdict",
                   ![w].reason = "none",
                   ![w].issues = IF r.qty > 0 \/ r.status = "REJECTED" THEN @
                                 ELSE @ \cup {"entry-pending"}]
            /\ UNCHANGED <<ledgerVars, dispatch, cover>>
    /\ UNCHANGED outsideVars

(* Fault: a failed protection read passes for a verified one.              *)
ProtectionVerdictOptimistic(o, readable) ==
    IF ~ readable \/ (Open(o) /\ cover[o] = "venue") THEN "verified"
    ELSE IF cover[o] = "local" THEN "managed"
    ELSE IF ~ Open(o) THEN "flat-unproven"
    ELSE "unprotected"

(* What the protection readback of a filled entry concludes; an unreadable *)
(* venue proves nothing, and a local fallback row stands in for the venue. *)
ProtectionVerdict(o, readable) ==
    IF readable /\ Open(o) /\ cover[o] = "venue" THEN "verified"
    ELSE IF cover[o] = "local" THEN "managed"
    ELSE IF readable /\ ~ Open(o) THEN "flat-unproven"
    ELSE "unprotected"

(* A filled entry: the native close is bound if the venue proves one       *)
(* (bind), the lifecycle settles when the recorded closes cover the fill   *)
(* and the symbol is flat, and otherwise its protection is read.           *)
Judge(w, bind, readable) ==
    LET o       == OidOf[worker[w].cand]
        closed  == intent[o].closed \/ bind
        settled == closed /\ readable /\ FlatSymbol(SymbolOf[o])
        verdict == ProtectionVerdict(o, readable)
        covered == settled \/ verdict \in {"verified", "managed"} IN
    /\ bind => venue[o].exit = "owned"
    /\ ~ readable => Outages
    /\ intent' = [intent EXCEPT ![o].closed = closed,
                                ![o].state = IF settled THEN "reconciled" ELSE @]
    /\ worker' = [worker EXCEPT
           ![w].pc = IF settled THEN "recover-closing" ELSE "recover-verdict",
           ![w].reason = IF covered THEN "none" ELSE verdict,
           ![w].verified = IF verdict = "verified" THEN @ \cup {o} ELSE @,
           ![w].issues = IF covered THEN @ ELSE @ \cup {verdict}]

RecoverJudge(w) ==
    /\ At(w, "recover-judge")
    /\ \E bind, readable \in BOOLEAN : Judge(w, bind, readable)
    /\ UNCHANGED <<ledgerVars, dispatch, cover, outsideVars>>

(* A settled lifecycle passes through CLOSING to CLOSED.                   *)
RecoverClosing(w) ==
    LET d == worker[w].cand IN
    /\ At(w, "recover-closing")
    /\ IF ~ CanMove(d, worker[w].listed[d]) THEN Abort(w)
       ELSE /\ Move(d, "CLOSING", "none")
            /\ worker' = [worker EXCEPT ![w].pc = "recover-closed"]
            /\ UNCHANGED <<ledgerVars, intent, cover>>
    /\ UNCHANGED outsideVars

RecoverClosed(w) ==
    LET d == worker[w].cand IN
    /\ At(w, "recover-closed")
    /\ IF ~ CanMove(d, "CLOSING") THEN Abort(w)
       ELSE /\ Move(d, "CLOSED", "none")
            /\ worker' = [worker EXCEPT ![w].pc = "recover-settle",
                                        ![w].res = [@ EXCEPT !.status = "FILLED"]]
            /\ UNCHANGED <<ledgerVars, intent, cover>>
    /\ UNCHANGED outsideVars

(* Any other candidate moves from its listed state to what was read.       *)
RecoverVerdict(w) ==
    LET d == worker[w].cand IN
    /\ At(w, "recover-verdict")
    /\ IF ~ CanMove(d, worker[w].listed[d]) THEN Abort(w)
       ELSE /\ Move(d, DispatchTarget(worker[w].res.status), worker[w].reason)
            /\ worker' = [worker EXCEPT ![w].pc = "recover-settle"]
            /\ UNCHANGED <<ledgerVars, intent, cover>>
    /\ UNCHANGED outsideVars

(* The reservation follows in a transaction of its own.                    *)
RecoverSettle(w) ==
    LET d == worker[w].cand
        o == OidOf[d] IN
    /\ At(w, "recover-settle")
    /\ IF ~ ResolveAllowed(o, worker[w].res.status) THEN Abort(w)
       ELSE /\ Resolve(o, worker[w].res.status)
            /\ worker' = [worker EXCEPT ![w].pc = "recover", ![w].cand = NoDispatch,
                                        ![w].listed = [@ EXCEPT ![d] = Unlisted],
                                        ![w].res = NoReadback, ![w].reason = "none"]
            /\ UNCHANGED <<dispatch, intent, cover>>
    /\ UNCHANGED outsideVars

(* retire_proved_empty_orphans: list the active rows without an intent;    *)
(* for each, ask the venue, and release the row when its symbol shows      *)
(* nothing.                                                                *)
RetireList(w) ==
    /\ At(w, "recover")
    /\ ToRecover(w) = {}
    /\ worker' = [worker EXCEPT ![w].pc = "retire",
                   ![w].orphans = {o \in ActiveOids : intent[o].state = "none"}]
    /\ UNCHANGED <<ledgerVars, dispatch, intent, cover, outsideVars>>

Asked(w, o, proved) ==
    [worker[w] EXCEPT !.pc = IF proved THEN "retire-release" ELSE "retire",
                      !.orphans = @ \ {o}, !.moot = IF proved THEN o ELSE NoOid]

(* Fault: only orphans of dispatches that ended are retired.               *)
RetireProveEnded(w, o) ==
    /\ At(w, "retire")
    /\ o \in worker[w].orphans
    /\ worker' = [worker EXCEPT ![w] = Asked(w, o,
           EmptySymbol(SymbolOf[o]) /\ dispatch[holder[o]].state \notin EntryStates)]
    /\ UNCHANGED <<ledgerVars, dispatch, intent, cover, outsideVars>>

RetireProve(w, o) ==
    /\ At(w, "retire")
    /\ o \in worker[w].orphans
    /\ worker' = [worker EXCEPT ![w] = Asked(w, o, EmptySymbol(SymbolOf[o]))]
    /\ UNCHANGED <<ledgerVars, dispatch, intent, cover, outsideVars>>

RetireRelease(w) ==
    /\ At(w, "retire-release")
    /\ Resolve(worker[w].moot, "REJECTED")
    /\ worker' = [worker EXCEPT ![w].pc = "retire", ![w].moot = NoOid]
    /\ UNCHANGED <<dispatch, intent, cover, outsideVars>>

(* inventory and unresolved_protection_issues: every open position must be *)
(* verified this cycle or locally managed, no row may lack its intent, and *)
(* a pending order must be an owned limit entry.                           *)
InventoryIssues(w) ==
    {i \in {"reservation-without-entry-intent", "position-not-owned-and-protected",
            "owned-position-mismatch", "pending-order", "unresolved-protection"} :
        \/ /\ i = "reservation-without-entry-intent"
           /\ \E o \in ActiveOids : intent[o].state = "none"
        \/ /\ i = "position-not-owned-and-protected"
           /\ \E o \in Oids : Open(o) /\ o \notin worker[w].verified /\ cover[o] # "local"
        \/ i = "owned-position-mismatch" /\ \E o \in worker[w].verified : ~ Open(o)
        \/ i = "pending-order" /\ \E o \in Oids : Resting(o)
        \/ i = "unresolved-protection" /\ ProtectionUnresolved}

(* The dispatcher's loop: only flat-unproven is no reason to skip run_once.*)
Blocking(issues) == issues \ {"flat-unproven"}

AfterRecovery(w, issues) ==
    IF w \in Consoles THEN IF worker[w].d = NoDispatch THEN "idle" ELSE "gate"
    ELSE IF Blocking(issues) # {} THEN "idle" ELSE "claim"

FinishRecovery(w) ==
    LET issues == worker[w].issues \cup InventoryIssues(w)
        pc     == AfterRecovery(w, issues) IN
    /\ At(w, "retire")
    /\ worker[w].orphans = {}
    /\ worker' = [worker EXCEPT
           ![w] = IF pc = "idle" THEN AtRest
                  ELSE [AtRest EXCEPT !.pc = pc, !.d = worker[w].d,
                                      !.ready = (issues = {})]]
    /\ UNCHANGED <<ledgerVars, dispatch, intent, cover, outsideVars>>

-----------------------------------------------------------------------------
(* run_once up to the submission.                                          *)

(* claim: stale unleased rows are expired, then one fresh row is leased,   *)
(* in the same transaction.                                                *)
Claimable(d)  == dispatch[d].state = "QUEUED" /\ ~ dispatch[d].leased /\ d \notin Manual
StaleQueued   == {d \in Dispatches : Claimable(d) /\ d \notin fresh /\ Expirable(d, intent)}

Claim(w, d) ==
    /\ At(w, "claim")
    /\ d \in Serves[w] \cap fresh
    /\ Claimable(d)
    /\ dispatch' = [Expired(StaleQueued) EXCEPT ![d].leased = TRUE]
    /\ ExpireSources(StaleQueued)
    /\ worker' = [worker EXCEPT ![w].pc = "gate", ![w].d = d]
    /\ UNCHANGED <<intent, cover, outsideVars>>

ClaimNothing(w) ==
    /\ At(w, "claim")
    /\ ~ \E d \in Serves[w] \cap fresh : Claimable(d)
    /\ dispatch' = Expired(StaleQueued)
    /\ ExpireSources(StaleQueued)
    /\ Restart(w)
    /\ UNCHANGED <<intent, cover, outsideVars>>

(* A transition of the dispatch in hand; when the compare-and-set fails    *)
(* the exception ends the cycle.                                           *)
Step(w, from, to, reason, next) ==
    IF CanMove(worker[w].d, from)
    THEN Move(worker[w].d, to, reason) /\ worker' = [worker EXCEPT ![w] = next]
    ELSE Restart(w) /\ UNCHANGED dispatch

Going(w, pc) == [worker[w] EXCEPT !.pc = pc]

(* The gates before preflight: the kill switch here, and admission checks  *)
(* (cutover, canary symbol, protection capability, canonical form) that    *)
(* may refuse any dispatch.                                                *)
Gate(w) ==
    /\ At(w, "gate")
    /\ ~ killed
    /\ Step(w, "QUEUED", "PREFLIGHT", "none", Going(w, "positions"))
    /\ UNCHANGED <<ledgerVars, intent, cover, outsideVars>>

GateReject(w) ==
    /\ At(w, "gate")
    /\ Step(w, "QUEUED", "REJECTED", "none", AtRest)
    /\ UNCHANGED <<ledgerVars, intent, cover, outsideVars>>

(* preflight reads the open positions, then reserves.                      *)
PreflightRead(w) ==
    /\ At(w, "positions")
    /\ worker' = [worker EXCEPT ![w].pc = "reserve", ![w].seen = OpenSymbols]
    /\ UNCHANGED <<ledgerVars, dispatch, intent, cover, outsideVars>>

(* A failed preflight, or a refusal that writes no row: an owned symbol,   *)
(* no free slot, a stale snapshot, a second row for one order id.          *)
PreflightReject(w) ==
    /\ At(w, "positions") \/ At(w, "reserve") \/ At(w, "refused")
    /\ Step(w, "PREFLIGHT", "REJECTED", "none", AtRest)
    /\ UNCHANGED <<ledgerVars, intent, cover, outsideVars>>

SourceAdmissible(d) == d \in fresh /\ dispatch[d].state \in EntryStates

Admit(w) ==
    LET d == worker[w].d IN
    /\ At(w, "reserve")
    /\ SourceAdmissible(d)
    /\ \E limit \in Balances, lapsed \in SUBSET ReservedOids :
           Reserve(OidOf[d], d, worker[w].seen, limit, lapsed)
    /\ worker' = [worker EXCEPT ![w].pc = "advance", ![w].seen = {}]
    /\ UNCHANGED <<dispatch, intent, cover, outsideVars>>

AdmitRefused(w) ==
    LET d == worker[w].d IN
    /\ At(w, "reserve")
    /\ SourceAdmissible(d)
    /\ \E limit \in Balances, lapsed \in SUBSET ReservedOids :
           ReserveRefused(OidOf[d], worker[w].seen, limit, lapsed)
    /\ worker' = [worker EXCEPT ![w].pc = "refused", ![w].seen = {}]
    /\ UNCHANGED <<dispatch, intent, cover, outsideVars>>

AdmitStale(w) ==
    LET gone == {d \in {worker[w].d} : Expirable(d, intent)} IN
    /\ At(w, "reserve")
    /\ ~ SourceAdmissible(worker[w].d)
    /\ dispatch' = Expired(gone)
    /\ ExpireSources(gone)
    /\ Restart(w)
    /\ UNCHANGED <<intent, cover, outsideVars>>

NextState == [PREFLIGHT |-> "SIZED", SIZED |-> "VALIDATED", VALIDATED |-> "SUBMITTING"]

(* PREFLIGHT -> SIZED -> VALIDATED -> SUBMITTING, one commit each; the     *)
(* last one precedes everything that may POST.                             *)
Advance(w) ==
    LET from == dispatch[worker[w].d].state IN
    /\ At(w, "advance")
    /\ from \in DOMAIN NextState
    /\ Step(w, from, NextState[from], "none",
            Going(w, IF from = "VALIDATED" THEN "guard" ELSE "advance"))
    /\ UNCHANGED <<ledgerVars, intent, cover, outsideVars>>

(* The canary order cap: the admission is released, then the dispatch is   *)
(* rejected.                                                               *)
ReleaseAdmission(w) ==
    LET d == worker[w].d IN
    /\ At(w, "advance")
    /\ CanMove(d, "VALIDATED")
    /\ Resolve(OidOf[d], "REJECTED")
    /\ worker' = [worker EXCEPT ![w].pc = "capped"]
    /\ UNCHANGED <<dispatch, intent, cover, outsideVars>>

RejectValidated(w) ==
    /\ At(w, "capped")
    /\ Step(w, "VALIDATED", "REJECTED", "none", AtRest)
    /\ UNCHANGED <<ledgerVars, intent, cover, outsideVars>>

-----------------------------------------------------------------------------
(* submit_entry.                                                           *)

Oid(w) == OidOf[worker[w].d]

(* The account-wide entry veto: an unresolved protection verdict, or a     *)
(* recovery that found any issue.                                          *)
AccountVeto(w) == ProtectionUnresolved \/ ~ worker[w].ready

(* run_once records the status it was given; the worker then rests.        *)
Finishing(w, status, reason) ==
    [worker[w] EXCEPT !.pc = "finish", !.res = [NoReadback EXCEPT !.status = status],
                      !.reason = reason]

(* Before the claim a veto leaves the reservation as it is.                *)
GuardReject(w) ==
    /\ At(w, "guard")
    /\ intent[Oid(w)].state = "none"
    /\ AccountVeto(w)
    /\ worker' = [worker EXCEPT ![w] = Finishing(w, "REJECTED", "none")]
    /\ UNCHANGED <<ledgerVars, dispatch, intent, cover, outsideVars>>

GuardExpire(w) ==
    LET gone == ExpiredByCheck(worker[w].d, intent) IN
    /\ At(w, "guard")
    /\ intent[Oid(w)].state = "none"
    /\ ~ AccountVeto(w)
    /\ ~ Eligible(worker[w].d)
    /\ dispatch' = Expired(gone)
    /\ ExpireSources(gone)
    /\ Restart(w)
    /\ UNCHANGED <<intent, cover, outsideVars>>

(* claim: INSERT ... ON CONFLICT DO NOTHING.  Only the winner may POST;    *)
(* the loser reads the order back.                                         *)
ClaimEntry(w) ==
    LET o == Oid(w) IN
    /\ At(w, "guard")
    /\ IF intent[o].state # "none"
       THEN /\ worker' = [worker EXCEPT ![w].pc = "store", ![w].mine = FALSE,
                                        ![w].res = Readback(o, intent[o].known)]
            /\ UNCHANGED intent
       ELSE /\ ~ AccountVeto(w)
            /\ Eligible(worker[w].d)
            /\ intent' = [intent EXCEPT ![o].state = "requested"]
            /\ worker' = [worker EXCEPT ![w].pc = "veto", ![w].mine = TRUE]
    /\ UNCHANGED <<ledgerVars, dispatch, cover, outsideVars>>

(* _final_entry_veto runs after the claim and again after the awaited      *)
(* leverage setup, immediately before the POST.                            *)
Vetoing(w) == At(w, "veto") \/ At(w, "setup")

VetoPass(w) ==
    /\ Vetoing(w)
    /\ ~ AccountVeto(w)
    /\ Eligible(worker[w].d)
    /\ ~ killed
    /\ worker' = [worker EXCEPT ![w].pc = IF @ = "veto" THEN "setup" ELSE "armed"]
    /\ UNCHANGED <<ledgerVars, dispatch, intent, cover, outsideVars>>

(* A vetoed claim is known unsent: its intent is rejected, then its margin *)
(* released.                                                               *)
RejectClaim(w, pc) ==
    /\ intent' = [intent EXCEPT ![Oid(w)].state = "rejected"]
    /\ worker' = [worker EXCEPT ![w].pc = pc]
    /\ UNCHANGED <<ledgerVars, dispatch, cover, outsideVars>>

VetoReject(w) ==
    /\ Vetoing(w)
    /\ AccountVeto(w) \/ (Eligible(worker[w].d) /\ killed)
    /\ RejectClaim(w, "vetoed")

(* Fault: the vetoed claim's row is deleted instead of resolved.           *)
VetoReleaseDeletes(w) ==
    /\ At(w, "vetoed")
    /\ resvState' = [resvState EXCEPT ![Oid(w)] = "none"]
    /\ worker' = [worker EXCEPT ![w] = Finishing(w, "REJECTED", "none")]
    /\ UNCHANGED <<hasExposure, receipt, holder, dispatch, intent, cover, outsideVars>>

VetoRelease(w) ==
    /\ At(w, "vetoed")
    /\ Resolve(Oid(w), "REJECTED")
    /\ worker' = [worker EXCEPT ![w] = Finishing(w, "REJECTED", "none")]
    /\ UNCHANGED <<dispatch, intent, cover, outsideVars>>

(* A lost source: the unsent claim is rejected, and eligibility is asked   *)
(* once more so that the dispatch can be expired and its margin released.  *)
VetoExpire(w) ==
    /\ Vetoing(w)
    /\ ~ AccountVeto(w)
    /\ ~ Eligible(worker[w].d)
    /\ RejectClaim(w, "recheck")

Recheck(w) ==
    LET gone == ExpiredByCheck(worker[w].d, intent) IN
    /\ At(w, "recheck")
    /\ dispatch' = Expired(gone)
    /\ ExpireSources(gone)
    /\ Restart(w)
    /\ UNCHANGED <<intent, cover, outsideVars>>

(* The POST: accepted at once, refused or lost, or, with LatePosts, still  *)
(* on its way when the worker times out or dies.                           *)
Post(w) ==
    LET o == Oid(w) IN
    /\ At(w, "armed")
    /\ posts' = [posts EXCEPT ![o] = @ + 1]
    /\ \E fate \in IF LatePosts THEN {"flying"} ELSE {"live", "refused"} :
           venue' = [venue EXCEPT ![o].order = IF @ = "none" THEN fate ELSE @]
    /\ worker' = [worker EXCEPT ![w].pc = "sent"]
    /\ UNCHANGED <<ledgerVars, dispatch, intent, cover, monitor, fresh, killed,
                   paused, crashes>>

(* Fault: a POST that left no trace at the venue is sent again.            *)
RespondResends(w) ==
    LET r == Readback(Oid(w), FALSE) IN
    /\ At(w, "sent")
    /\ worker' = [worker EXCEPT ![w].pc = IF r.known THEN "store" ELSE "armed", ![w].res = r]
    /\ UNCHANGED <<ledgerVars, dispatch, intent, cover, outsideVars>>

(* The POST was answered or timed out, and the order is read back.         *)
Respond(w) ==
    /\ At(w, "sent")
    /\ worker' = [worker EXCEPT ![w].pc = "store", ![w].res = Readback(Oid(w), FALSE)]
    /\ UNCHANGED <<ledgerVars, dispatch, intent, cover, outsideVars>>

(* Leverage setup, the POST or a readback raised: the intent, then the     *)
(* margin become unknown.  The winner writes its own record, which knows   *)
(* no provider order and no fill; a replay writes the one it loaded.  A    *)
(* refused update skips both.                                              *)
Ambiguous(w) ==
    LET o == Oid(w)
        mine == worker[w].mine IN
    /\ At(w, "setup") \/ At(w, "sent") \/ (At(w, "store") /\ ~ mine)
    /\ IF UpdateAllowed(o, ~ mine)
       THEN /\ intent' = [intent EXCEPT ![o].state = "unknown",
                                       ![o].filled = IF mine THEN 0 ELSE @]
            /\ worker' = [worker EXCEPT ![w].pc = "doubt"]
       ELSE /\ worker' = [worker EXCEPT ![w] = Finishing(w, "UNKNOWN", "none")]
            /\ UNCHANGED intent
    /\ UNCHANGED <<ledgerVars, dispatch, cover, outsideVars>>

(* Fault: an ambiguous order is resolved as rejected.                      *)
ReleaseOnDoubt(w) ==
    /\ At(w, "doubt")
    /\ Resolve(Oid(w), "REJECTED")
    /\ worker' = [worker EXCEPT ![w] = Finishing(w, "UNKNOWN", "none")]
    /\ UNCHANGED <<dispatch, intent, cover, outsideVars>>

RetainMargin(w) ==
    /\ At(w, "doubt")
    /\ Resolve(Oid(w), "UNKNOWN")
    /\ worker' = [worker EXCEPT ![w] = Finishing(w, "UNKNOWN", "none")]
    /\ UNCHANGED <<dispatch, intent, cover, outsideVars>>

StoreEntry(w) ==
    LET o == Oid(w)
        r == worker[w].res IN
    /\ At(w, "store")
    /\ IF UpdateAllowed(o, r.known)
       THEN RecordReadback(o, r) /\ worker' = [worker EXCEPT ![w].pc = "settle"]
       ELSE UNCHANGED intent /\ worker' = [worker EXCEPT ![w] = Finishing(w, "UNKNOWN", "none")]
    /\ UNCHANGED <<ledgerVars, dispatch, cover, outsideVars>>

SettleEntry(w) ==
    LET o == Oid(w)
        s == worker[w].res.status IN
    /\ At(w, "settle")
    /\ IF ~ ResolveAllowed(o, s)
       THEN /\ UNCHANGED ledgerVars
            /\ worker' = [worker EXCEPT ![w] = Finishing(w, "UNKNOWN", "none")]
       ELSE /\ Resolve(o, s)
            /\ worker' = [worker EXCEPT
                   ![w] = IF ReportsFill(s) THEN Going(w, "protect")
                          ELSE Finishing(w, s, "none")]
    /\ UNCHANGED <<dispatch, intent, cover, outsideVars>>

(* The winner places protection: a confirmed venue plan, a local fallback  *)
(* row, or neither.  A replay only reads what is there.                    *)
Protect(w) ==
    LET o == Oid(w)
        s == worker[w].res.status IN
    /\ At(w, "protect")
    /\ \E k \in IF worker[w].mine THEN Covers ELSE {cover[o]} :
        /\ cover' = [cover EXCEPT ![o] = k]
        /\ worker' = [worker EXCEPT
               ![w] = Finishing(w, s, IF k = "none" THEN "unprotected" ELSE "none")]
    /\ UNCHANGED <<ledgerVars, dispatch, intent, outsideVars>>

Finish(w) ==
    /\ At(w, "finish")
    /\ Step(w, "SUBMITTING", DispatchTarget(worker[w].res.status), worker[w].reason, AtRest)
    /\ UNCHANGED <<ledgerVars, intent, cover, outsideVars>>

Crash(w) ==
    /\ ~ At(w, "idle")
    /\ crashes < MaxCrashes
    /\ crashes' = crashes + 1
    /\ Abort(w)
    /\ UNCHANGED <<venue, monitor, fresh, killed, paused, posts>>

-----------------------------------------------------------------------------
(* The reconciliation monitor: every unresolved intent is read back, and   *)
(* the row is overwritten after the awaited reads.                         *)
Unresolved(o) == intent[o].state \notin SettledStates \cup {"none", "filled"}

MonitorRead(o) ==
    /\ MonitorPace = "slow"
    /\ monitor = MonitorIdle
    /\ Unresolved(o)
    /\ monitor' = [oid |-> o, res |-> Readback(o, intent[o].known)]
    /\ UNCHANGED <<ledgerVars, dispatch, intent, cover, venue, worker, fresh,
                   killed, paused, posts, crashes>>

MonitorWrite ==
    /\ monitor # MonitorIdle
    /\ RecordReadback(monitor.oid, monitor.res)
    /\ monitor' = MonitorIdle
    /\ UNCHANGED <<ledgerVars, dispatch, cover, venue, worker, fresh, killed,
                   paused, posts, crashes>>

(* The same pass when nothing comes between its read and its write.        *)
MonitorAtOnce(o) ==
    /\ MonitorPace = "atomic"
    /\ Unresolved(o)
    /\ RecordReadback(o, Readback(o, intent[o].known))
    /\ UNCHANGED <<ledgerVars, dispatch, cover, worker, outsideVars>>

(* _reconcile_provider_exits: the close of an owned position is recorded   *)
(* under its entry.                                                        *)
BindExit(o) ==
    /\ venue[o].exit = "owned"
    /\ intent[o].filled > 0 /\ ~ intent[o].closed
    /\ intent' = [intent EXCEPT ![o].closed = TRUE]
    /\ UNCHANGED <<ledgerVars, dispatch, cover, worker, outsideVars>>

(* verified_closes.reconcile: the recorded close covers the fill and the   *)
(* venue is flat, so the margin is released.                               *)
VerifiedRelease(o) ==
    /\ intent[o].closed
    /\ intent[o].state \in {"filled", "reconciled"}
    /\ FlatSymbol(SymbolOf[o])
    /\ ReleaseVerifiedClose(o)
    /\ UNCHANGED <<dispatch, intent, cover, worker, outsideVars>>

-----------------------------------------------------------------------------
(* The venue, modelled from how the code reads it.                         *)
SetVenue(o, v) ==
    /\ venue' = [venue EXCEPT ![o] = v]
    /\ UNCHANGED <<ledgerVars, dispatch, intent, cover, worker, monitor, fresh,
                   killed, paused, posts, crashes>>

(* The POST arrives, or is refused or lost.                                *)
VenueAccept(o) == venue[o].order = "flying" /\ SetVenue(o, [venue[o] EXCEPT !.order = "live"])
VenueRefuse(o) == venue[o].order = "flying" /\ SetVenue(o, [venue[o] EXCEPT !.order = "refused"])

VenueFill(o) ==
    /\ Resting(o)
    /\ SetVenue(o, [venue[o] EXCEPT !.filled = @ + 1,
                       !.order = IF venue[o].filled + 1 = Qty THEN "done" ELSE @])

VenueCancel(o) == Resting(o) /\ SetVenue(o, [venue[o] EXCEPT !.order = "done"])

(* The position is closed: by an order or plan of this system, or by a     *)
(* hand the system cannot account for.                                     *)
VenueExit(o, how) ==
    /\ Open(o) /\ ~ Resting(o)
    /\ SetVenue(o, [venue[o] EXCEPT !.exit = how])

(* Clocks and operators: a source message grows stale, a lease lapses, the *)
(* kill switch and the admission pause are set and cleared.  Freshness is  *)
(* read only before the POST, a lease only while QUEUED: the steps are     *)
(* limited to where they matter.                                           *)
Control(f, k, p) ==
    /\ fresh' = f /\ killed' = k /\ paused' = p
    /\ UNCHANGED <<ledgerVars, dispatch, intent, cover, venue, worker, monitor,
                   posts, crashes>>

Stale(d) ==
    /\ d \in fresh
    /\ dispatch[d].state \in EntryStates /\ posts[OidOf[d]] = 0
    /\ \A w \in Workers : worker[w].d = d => ~ At(w, "armed")
    /\ Control(fresh \ {d}, killed, paused)

FlipKill  == KillEnforced /\ Control(fresh, ~ killed, paused)
FlipPause == Pauses /\ Control(fresh, killed, ~ paused)

LeaseLapse(d) ==
    /\ dispatch[d].leased
    /\ dispatch[d].state = "QUEUED"
    /\ dispatch' = [dispatch EXCEPT ![d].leased = FALSE]
    /\ UNCHANGED <<ledgerVars, intent, cover, worker, outsideVars>>

-----------------------------------------------------------------------------
Recovery(w) ==
    \/ BeginRecovery(w)
    \/ \E d \in Dispatches : OpenManual(w, d) \/ RecoverRead(w, d)
    \/ RecoverStore(w) \/ RecoverJudge(w) \/ RecoverClosing(w) \/ RecoverClosed(w)
    \/ RecoverVerdict(w) \/ RecoverSettle(w)
    \/ RetireList(w) \/ (\E o \in Oids : RetireProve(w, o)) \/ RetireRelease(w)
    \/ FinishRecovery(w)

Admission(w) ==
    \/ \E d \in Dispatches : Claim(w, d)
    \/ ClaimNothing(w) \/ Gate(w) \/ GateReject(w)
    \/ PreflightRead(w) \/ PreflightReject(w)
    \/ Admit(w) \/ AdmitRefused(w) \/ AdmitStale(w)
    \/ Advance(w) \/ ReleaseAdmission(w) \/ RejectValidated(w)

Submission(w) ==
    \/ GuardReject(w) \/ GuardExpire(w) \/ ClaimEntry(w)
    \/ VetoPass(w) \/ VetoReject(w) \/ VetoRelease(w) \/ VetoExpire(w) \/ Recheck(w)
    \/ Post(w) \/ Respond(w) \/ Ambiguous(w) \/ RetainMargin(w)
    \/ StoreEntry(w) \/ SettleEntry(w) \/ Protect(w) \/ Finish(w)

WorkerStep(w) == Recovery(w) \/ Admission(w) \/ Submission(w)

MonitorStep ==
    \/ MonitorWrite
    \/ \E o \in Oids : MonitorRead(o) \/ MonitorAtOnce(o) \/ BindExit(o) \/ VerifiedRelease(o)

VenueStep ==
    \E o \in Oids :
        \/ VenueAccept(o) \/ VenueRefuse(o) \/ VenueFill(o) \/ VenueCancel(o)
        \/ \E how \in Exits : VenueExit(o, how)

ControlStep == FlipKill \/ FlipPause \/ (\E d \in Dispatches : Stale(d) \/ LeaseLapse(d))

EntryNext ==
    \/ \E w \in Workers : WorkerStep(w) \/ Crash(w)
    \/ MonitorStep
    \/ VenueStep
    \/ ControlStep

EntrySpec == EntryInit /\ [][EntryNext]_entryVars

-----------------------------------------------------------------------------
Readbacks == [status : Outcomes, qty : 0 .. Qty, known : BOOLEAN]

WorkerPcs ==
    {"idle", "recover", "recover-store", "recover-judge", "recover-closing",
     "recover-closed", "recover-verdict", "recover-settle", "retire",
     "retire-release", "claim", "gate", "positions", "reserve", "refused",
     "advance", "capped", "guard", "veto", "setup", "vetoed", "recheck",
     "armed", "sent", "doubt", "store", "settle", "protect", "finish"}

Issues == {"entry-pending", "flat-unproven", "unprotected",
           "reservation-without-entry-intent", "position-not-owned-and-protected",
           "owned-position-mismatch", "pending-order", "unresolved-protection"}

WorkerRecords ==
    [pc : WorkerPcs, d : Dispatches \cup {NoDispatch}, cand : Dispatches \cup {NoDispatch},
     listed : [Dispatches -> DispatchStates \cup {Unlisted}], res : Readbacks,
     reason : DispatchReasons, mine : BOOLEAN, seen : SUBSET Symbols, ready : BOOLEAN,
     issues : SUBSET Issues, orphans : SUBSET Oids, moot : Oids \cup {NoOid},
     verified : SUBSET Oids]

DispatchRows == [state : DispatchStates, reason : DispatchReasons, leased : BOOLEAN]
IntentRows   == [state : IntentStates, filled : 0 .. Qty, known : BOOLEAN, closed : BOOLEAN]
VenueOrders  == [order : {"none", "flying", "live", "refused", "done"}, filled : 0 .. Qty,
                 exit : {"none", "owned", "alien"}]

(* Every row and every local record is in its range.                       *)
EntryTypeOK ==
    /\ LedgerTypeOK
    /\ dispatch \in [Dispatches -> DispatchRows]
    /\ intent \in [Oids -> IntentRows]
    /\ cover \in [Oids -> {"none", "venue", "local"}]
    /\ venue \in [Oids -> VenueOrders]
    /\ worker \in [Workers -> WorkerRecords]
    /\ monitor = MonitorIdle \/ monitor \in [oid : Oids, res : Readbacks]
    /\ fresh \subseteq Dispatches
    /\ killed \in BOOLEAN /\ paused \in BOOLEAN
    /\ posts \in [Oids -> Nat]
    /\ crashes \in Nat

(* An entry order that may be at the venue, or its position.               *)
Exposed(o) == venue[o].order \in {"flying", "live"} \/ Open(o)

(* A client order id is POSTed at most once, ever: across crashes, lapsed  *)
(* leases, ambiguous answers and several workers ("submit exactly once").  *)
AtMostOnePost == \A o \in DOMAIN posts : posts[o] <= 1

(* Margin stays committed while an order may be live or a position open.   *)
ExposureHasMargin == \A o \in Oids : Exposed(o) => Active(o)

(* The position cap holds at the venue, not only in the ledger: symbols    *)
(* with a live order or a position never exceed max_positions.             *)
ExposedSymbols == {SymbolOf[o] : o \in {p \in Oids : Exposed(p)}}

PositionCap == Cardinality(ExposedSymbols) <= MaxPositions

BookIsCovered == \A o \in Oids : Open(o) => cover[o] # "none"

(* A new entry is sent only when every open position is protected at the   *)
(* venue or managed locally.                                               *)
EntryNeedsCoveredBook == [][posts' # posts => BookIsCovered]_entryVars

-----------------------------------------------------------------------------
(* Processes keep running: a worker that can take a step takes one (the    *)
(* dispatcher loops forever and is restarted when it exits), and so do the *)
(* monitor's passes.  Nothing is assumed of the venue or of operators.     *)
EntryFairness ==
    /\ \A w \in Workers : WF_entryVars(WorkerStep(w))
    /\ WF_entryVars(MonitorWrite)
    /\ \A o \in Oids : WF_entryVars(BindExit(o)) /\ WF_entryVars(VerifiedRelease(o))

FairEntrySpec == EntrySpec /\ EntryFairness

(* An admission whose worker died before the order was claimed frees its   *)
(* margin (retire_proved_empty_orphans).                                   *)
Orphan(o) == Active(o) /\ intent[o].state = "none"

OrphanMarginIsFreed == \A o \in Oids : Orphan(o) ~> ~ Orphan(o)

=============================================================================
