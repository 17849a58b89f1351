-------------------------- MODULE NativeProtection --------------------------
(***************************************************************************)
(* The stop and the target a filled entry is given at the venue            *)
(* (async_execution.py, protect_filled_position), how they are confirmed   *)
(* (reconciliation_live.py), the capability row each verdict is recorded   *)
(* in (protection_capabilities.py) and the console's repair of a missing   *)
(* plan (console/trading.py, _protect).                                    *)
(*                                                                         *)
(* One entry, whose position is epoch 1 of its symbol.  The venue keeps    *)
(* one position plan per leg: a placement replaces it under a new id, and  *)
(* it goes when the position is flat.  A plan becomes readable some time   *)
(* after it was placed.  Each read, POST and transaction is a step of its  *)
(* own.  Only one of the callers won the entry's claim in the dispatcher;  *)
(* the others read, but protect_filled_position fences itself as well.     *)
(***************************************************************************)
EXTENDS Integers, FiniteSets

CONSTANTS
    Callers,       \* calls of protect_filled_position and of recovery's reader
    Setups,        \* the fills, plans and settings a call may meet
    MaxPosts,      \* attempts of _place_protection_with_retry
    MaxGrace,      \* bound: re-reads within protection_grace_seconds
    RepairOn,      \* does the console run a protection job?
    Stale,         \* BITGET_PROTECTION_STALE_SECONDS
    MaxClock,      \* bound: the clock of the stream's events; 0 without a stream
    MaxDeaths      \* bound: calls that die with their process

ASSUME NativeAssumption ==
    /\ Setups \subseteq [filled: Nat, plan: Nat, fallback: BOOLEAN, contain: BOOLEAN]
    /\ MaxPosts \in Nat \ {0}
    /\ {MaxGrace, Stale, MaxClock, MaxDeaths} \subseteq Nat
    /\ RepairOn \in BOOLEAN

VARIABLES
    setup,      \* the entry and the settings of this behaviour
    market,     \* the venue: position, plans, the ids issued
    legs,       \* the -sl and -tp rows of live_order_intents
    call,       \* where each call stands
    capability, \* the symbol's row of bitget_protection_capabilities
    registered, \* epoch of the fallback row of this entry, 0 when there is none
    emergency,  \* the -emergency row, and the closes POSTed under it
    activeStop, \* active_stop_loss_price of the entry intent
    repair,     \* the console's job
    clock,      \* time, and the latest stream event
    watch,      \* the judgement the watchdog has not written yet
    deaths

nativeVars == <<setup, market, legs, call, capability, registered, emergency, activeStop, repair,
                clock, watch, deaths>>

Filled == setup.filled          \* filled_qty of the entry intent
PlanQuantity == setup.plan      \* quantity of the protection plan
FallbackOn == setup.fallback    \* are the fallback monitor's closes enabled?
Containment == setup.contain    \* emergency containment, off by default

Sides == {"SL", "TP"}
NoId == [s \in Sides |-> 0]
NoCapability == [native |-> "UNKNOWN", allowed |-> FALSE, stream |-> "DISABLED", at |-> 0]
Unseen == [qty |-> 0, ids |-> NoId]
NoJudgement == [state |-> "none", at |-> 0]

\* A call at a place where it holds nothing but what it has POSTed and its report.
At(pc, posts, report) ==
    [pc |-> pc, posts |-> posts, report |-> report, rounds |-> 0, seen |-> Unseen, want |-> NoId,
     stop |-> "planned", held |-> NoCapability, holding |-> FALSE]

NativeInit ==
    /\ setup \in Setups
    /\ market = [qty |-> Filled, epoch |-> 1, plan |-> NoId, shown |-> {}, stop |-> "planned", lastId |-> 0]
    /\ legs = [claimed |-> FALSE, id |-> NoId]
    /\ call = [c \in Callers |-> At("begin", 0, "none")]
    /\ capability = NoCapability
    /\ registered = 0
    /\ emergency = [claimed |-> FALSE, closes |-> 0]
    /\ activeStop = "planned"
    /\ repair = [pc |-> "idle", want |-> NoId, missing |-> {}, seen |-> Unseen, stop |-> "planned",
                 qty |-> 0]
    /\ clock = [now |-> 1, event |-> 0]
    /\ watch = NoJudgement
    /\ deaths = 0

----------------------------------------------------------------------------
(* The venue and the stream.                                               *)

FlatMarket == [market EXCEPT !.qty = 0, !.plan = NoId, !.shown = {}]

\* What a placement of these legs leaves at the venue, under a fresh id.
Placed(which, stop) ==
    [market EXCEPT !.plan = [s \in Sides |-> IF s \in which THEN market.lastId + 1 ELSE @[s]],
                   !.shown = @ \ which,
                   !.stop = IF "SL" \in which THEN stop ELSE @,
                   !.lastId = @ + 1]

ShowPlan ==
    /\ \E s \in Sides:
         /\ market.plan[s] # 0 /\ s \notin market.shown
         /\ market' = [market EXCEPT !.shown = @ \cup {s}]
    /\ UNCHANGED <<legs, call, capability, registered, emergency, activeStop, repair, clock, watch, deaths>>

\* A plan triggers, or the owner closes by hand: in part, or all of it.
PositionEnds ==
    /\ market.qty > 0
    /\ market' = IF market.qty = 1 THEN FlatMarket
                 ELSE [market EXCEPT !.qty = @ - 1]
    /\ UNCHANGED <<legs, call, capability, registered, emergency, activeStop, repair, clock, watch, deaths>>

\* Somebody opens a position of the same size on the same side.
AnotherOpens ==
    /\ market.qty = 0 /\ market.epoch = 1
    /\ market' = [market EXCEPT !.qty = Filled, !.epoch = 2]
    /\ UNCHANGED <<legs, call, capability, registered, emergency, activeStop, repair, clock, watch, deaths>>

\* _record_event: a mark of this symbol arrives.
RecordEvent ==
    /\ MaxClock > 0
    /\ capability' = [capability EXCEPT !.stream = "HEALTHY", !.at = clock.now]
    /\ clock' = [clock EXCEPT !.event = clock.now]
    /\ UNCHANGED <<market, legs, call, registered, emergency, activeStop, repair, watch, deaths>>

FreshAt(t) == t > 0 /\ clock.now - t <= Stale

\* The watchdog judges the stream and reads the row, and writes its judgement later, with
\* the event time it read.  A verified symbol whose position it could read is left alone.
WatchdogRead ==
    /\ MaxClock > 0
    /\ watch.state = "none"
    /\ \E s \in {"HEALTHY", "STALE", "FAILED"}:
         /\ s = "HEALTHY" => FreshAt(clock.event) /\ capability.native # "VERIFIED"
         /\ watch' = [state |-> s, at |-> capability.at]
    /\ UNCHANGED <<market, legs, call, capability, registered, emergency, activeStop, repair, clock, deaths>>

WatchdogWrite ==
    /\ watch.state # "none"
    /\ capability' = [capability EXCEPT !.stream = watch.state, !.at = watch.at]
    /\ watch' = NoJudgement
    /\ UNCHANGED <<market, legs, call, registered, emergency, activeStop, repair, clock, deaths>>

Tick ==
    /\ clock.now < MaxClock
    /\ clock' = [clock EXCEPT !.now = @ + 1]
    /\ UNCHANGED <<market, legs, call, capability, registered, emergency, activeStop, repair, watch, deaths>>

----------------------------------------------------------------------------
(* Confirming a plan (confirm_native_protection): the position first, the  *)
(* plans afterwards.  An id that is expected must be the one that rests.   *)

ShownIds == [s \in Sides |-> IF s \in market.shown THEN market.plan[s] ELSE 0]

\* The position row may or may not carry the ids of its plans.
PositionRows == [qty: {market.qty}, ids: {NoId, ShownIds}]

\* What the position row alone rules out.
RowVerdict(seen, qty, want) ==
    CASE seen.qty = 0 -> "not-open"
      [] seen.qty # qty -> "degraded"
      [] \E s \in Sides: want[s] # 0 /\ seen.ids[s] # 0 /\ seen.ids[s] # want[s] -> "degraded"
      [] OTHER -> "open"

\* Bug: a leg the position row names is not looked up among the plans.
PlanVerdictByRow(seen, want, stop) ==
    IF \A s \in Sides: s \in market.shown \/ seen.ids[s] # 0 THEN "venue" ELSE "degraded"

\* _find_exact_plan and _verify_exact_leg for both legs.
PlanVerdict(seen, want, stop) ==
    LET Expected(s) == IF want[s] # 0 THEN want[s] ELSE seen.ids[s]
        Exact(s) == /\ s \in market.shown
                    /\ Expected(s) \in {0, market.plan[s]}
    IN  IF (\A s \in Sides: Exact(s)) /\ market.stop = stop THEN "venue" ELSE "degraded"

----------------------------------------------------------------------------
(* protect_filled_position.                                                *)

CallAt(c, pc) == [call EXCEPT ![c] = At(pc, @.posts, @.report)]
Verdict(c, v) == [call EXCEPT ![c] = At("done", @.posts, v)]

\* Bug: the legs are claimed, but nobody asks whether they already were.
RoleUnfenced == "post"

\* claim_protection: who inserts the two rows places the plans, anybody else reads.
Role == IF legs.claimed THEN "reader" ELSE "post"

Begin(c) ==
    /\ call[c].pc = "begin"
    /\ \/ /\ Filled = 0
          /\ call' = Verdict(c, "failed") /\ UNCHANGED legs
       \/ /\ Filled > 0 /\ PlanQuantity # Filled
          /\ call' = CallAt(c, "manage") /\ UNCHANGED legs
       \/ /\ Filled > 0 /\ PlanQuantity = Filled
          /\ legs' = [legs EXCEPT !.claimed = TRUE]
          /\ call' = [call EXCEPT ![c].pc = Role, ![c].stop = activeStop]
    /\ UNCHANGED <<market, capability, registered, emergency, activeStop, repair, clock, watch, deaths>>

\* Recovery, and whoever lost the entry's claim, only reads (_read_recovery_protection).
Recover(c) ==
    /\ call[c].pc = "begin" /\ Filled > 0
    /\ call' = [call EXCEPT ![c].pc = "reader", ![c].stop = activeStop]
    /\ UNCHANGED <<market, legs, capability, registered, emergency, activeStop, repair, clock, watch, deaths>>

MayRetry(c) == call[c].posts + 1 < MaxPosts

\* One attempt of _place_protection_with_retry.  The venue refuses a symbol it does not
\* support, or the parameters, or answers late, in part or not at all.
Post(c) ==
    /\ call[c].pc = "post"
    /\ \E effect \in {"placed", "nothing"}, answer \in {"ids", "partial", "lost", "param", "unsupported"}:
         /\ effect = "placed" => market.qty > 0 /\ answer \in {"ids", "partial", "lost"}
         /\ effect = "nothing" => answer \in {"lost", "param", "unsupported"}
         /\ market' = IF effect = "placed" THEN Placed(Sides, call[c].stop) ELSE market
         /\ call' = [call EXCEPT
              ![c].posts = @ + 1,
              ![c].want = IF answer = "ids" THEN market'.plan ELSE NoId,
              ![c].pc = CASE answer = "ids" -> "ack"
                          [] answer = "partial" -> "grace"
                          [] answer = "lost" -> IF MayRetry(c) THEN "post" ELSE "grace"
                          [] answer = "param" -> "rejected"
                          [] answer = "unsupported" -> "unsupported"]
    /\ UNCHANGED <<legs, capability, registered, emergency, activeStop, repair, clock, watch, deaths>>

\* The ids the venue returned become durable, one leg after the other.
StoreIds(c) ==
    /\ call[c].pc = "ack"
    /\ \E s \in Sides:
         /\ s = "TP" => legs.id["SL"] = call[c].want["SL"]
         /\ legs.id[s] # call[c].want[s]
         /\ legs' = [legs EXCEPT !.id[s] = call[c].want[s]]
         /\ call' = IF s = "TP" THEN [call EXCEPT ![c].pc = "confirm"] ELSE call
    /\ UNCHANGED <<market, capability, registered, emergency, activeStop, repair, clock, watch, deaths>>

\* A confirmation's first read.  The grace loop has read the position before, and stops
\* when it was flat already.
ConfirmPosition(c) ==
    /\ call[c].pc \in {"reader", "confirm", "grace"}
    /\ call[c].pc = "grace" => call[c].rounds < MaxGrace
    /\ \E seen \in PositionRows, flat \in BOOLEAN:
         LET pc == call[c].pc
             want == CASE pc = "grace" -> legs.id [] pc = "confirm" -> call[c].want [] OTHER -> NoId
             row == RowVerdict(seen, Filled, want)
             plans == [reader |-> "rplans", confirm |-> "cplans", grace |-> "gplans"]
             read == [call[c] EXCEPT !.rounds = IF pc = "grace" THEN @ + 1 ELSE @]
         IN  /\ flat => pc = "grace" /\ row = "not-open"
             /\ call' = CASE flat -> CallAt(c, "failed")
                          [] row = "open" ->
                               [call EXCEPT ![c] = [read EXCEPT !.pc = plans[pc], !.seen = seen, !.want = want]]
                          [] row # "open" /\ pc = "reader" -> Verdict(c, row)
                          [] OTHER -> [call EXCEPT ![c] = [read EXCEPT !.pc = "grace", !.report = row, !.want = NoId]]
    /\ UNCHANGED <<market, legs, capability, registered, emergency, activeStop, repair, clock, watch, deaths>>

\* A read that fails counts as a failed report; the loop goes on.
ReadFails(c) ==
    /\ call[c].pc \in {"reader", "confirm", "grace", "rplans", "cplans", "gplans"}
    /\ call[c].pc = "grace" => call[c].rounds < MaxGrace
    /\ call' = IF call[c].pc \in {"reader", "rplans"} THEN Verdict(c, "failed")
               ELSE [call EXCEPT ![c] = [call[c] EXCEPT
                       !.pc = "grace", !.report = "failed", !.seen = Unseen, !.want = NoId,
                       !.rounds = IF call[c].pc = "grace" THEN @ + 1 ELSE @]]
    /\ UNCHANGED <<market, legs, capability, registered, emergency, activeStop, repair, clock, watch, deaths>>

ConfirmPlans(c) ==
    /\ call[c].pc \in {"rplans", "cplans", "gplans"}
    /\ LET report == PlanVerdict(call[c].seen, call[c].want, call[c].stop)
       IN  call' = IF call[c].pc = "rplans" THEN Verdict(c, report)
                   ELSE IF report = "venue" THEN [call EXCEPT ![c] = At("verified", @.posts, report)]
                   ELSE [call EXCEPT ![c].report = report, ![c].pc = "grace", ![c].seen = Unseen,
                                      ![c].want = NoId]
    /\ UNCHANGED <<market, legs, capability, registered, emergency, activeStop, repair, clock, watch, deaths>>

\* _await_native_protection runs out of time.
GraceEnds(c) ==
    /\ call[c].pc = "grace"
    /\ call' = CallAt(c, "failed")
    /\ UNCHANGED <<market, legs, capability, registered, emergency, activeStop, repair, clock, watch, deaths>>

----------------------------------------------------------------------------
(* _persist_capability reads the row in one transaction and writes it back *)
(* in another, what it does not decide included.                           *)

Noted == [verified |-> [native |-> "VERIFIED", allowed |-> "kept"],
          failed |-> [native |-> "FAILED", allowed |-> "kept"],
          unmanaged |-> [native |-> "FAILED", allowed |-> "kept"],
          rejected |-> [native |-> "FAILED", allowed |-> "no"],
          unsupported |-> [native |-> "UNSUPPORTED", allowed |-> "yes"],
          laneoff |-> [native |-> "UNSUPPORTED", allowed |-> "no"]]

CapabilityRead(c) ==
    /\ call[c].pc \in DOMAIN Noted /\ ~call[c].holding
    /\ call' = [call EXCEPT ![c].held = capability, ![c].holding = TRUE]
    /\ UNCHANGED <<market, legs, capability, registered, emergency, activeStop, repair, clock, watch, deaths>>

\* Bug: writing the row stamps the stream as well.
UpsertedAsSeen(held, note) ==
    [native |-> note.native, allowed |-> note.allowed = "yes" \/ held.allowed,
     stream |-> held.stream, at |-> clock.now]

Upserted(held, note) ==
    [native |-> note.native,
     allowed |-> CASE note.allowed = "kept" -> held.allowed
                   [] note.allowed = "yes" -> TRUE
                   [] note.allowed = "no" -> FALSE,
     stream |-> held.stream,
     at |-> held.at]

CapabilityWrite(c) ==
    /\ call[c].holding
    /\ capability' = Upserted(call[c].held, Noted[call[c].pc])
    /\ LET pc == call[c].pc
           next == CASE pc = "failed" -> "manage"
                     [] pc = "unsupported" -> IF FallbackOn THEN "lane" ELSE "laneoff"
                     [] OTHER -> "done"
       IN  call' = IF next = "done" /\ pc # "verified" THEN Verdict(c, "open") ELSE CallAt(c, next)
    /\ UNCHANGED <<market, legs, registered, emergency, activeStop, repair, clock, watch, deaths>>

----------------------------------------------------------------------------
(* _contain_or_local_management.                                           *)

Manage(c) ==
    /\ call[c].pc = "manage"
    /\ call' = CASE Containment /\ call[c].report = "not-open" -> CallAt(c, "done")
                 [] Containment -> CallAt(c, "contain")
                 [] ~Containment /\ ~FallbackOn -> CallAt(c, "unmanaged")
                 [] OTHER -> CallAt(c, "local")
    /\ UNCHANGED <<market, legs, capability, registered, emergency, activeStop, repair, clock, watch, deaths>>

\* Where a registration that cannot be proven leads.
Unproven(c) == IF call[c].pc \in {"local", "localfills"} THEN CallAt(c, "unmanaged") ELSE Verdict(c, "open")

\* _fallback_identity: the position first.  An entry price that is unknown, or a read that
\* fails, proves nothing.
IdentifyPosition(c) ==
    /\ call[c].pc \in {"local", "lane"}
    /\ \/ call' = Unproven(c)
       \/ /\ market.qty = Filled
          /\ call' = [call EXCEPT ![c].pc = IF @ = "local" THEN "localfills" ELSE "lanefills",
                                  ![c].seen = [qty |-> market.epoch, ids |-> NoId]]
    /\ UNCHANGED <<market, legs, capability, registered, emergency, activeStop, repair, clock, watch, deaths>>

\* Bug: size and side are taken as proof enough.
FillsIgnored(c) == TRUE

\* The opening fill's time must be the position's.
FillsProve(c) == call[c].seen.qty = 1

\* Then the entry's own fills, and register_fallback.  The marker is for a durable row.
Register(c) ==
    /\ call[c].pc \in {"localfills", "lanefills"}
    /\ \/ call' = Unproven(c) /\ UNCHANGED registered
       \/ /\ FillsProve(c)
          /\ registered' = IF registered = 0 THEN call[c].seen.qty ELSE registered
          /\ call' = Verdict(c, IF call[c].pc = "localfills" THEN "managed" ELSE "open")
    /\ UNCHANGED <<market, legs, capability, emergency, activeStop, repair, clock, watch, deaths>>

\* _contain: one emergency close under its own claim, never for a flat account.
Contain(c) ==
    /\ call[c].pc = "contain"
    /\ \/ call' = CallAt(c, "done") /\ UNCHANGED emergency
       \/ /\ market.qty > 0
          /\ emergency' = [emergency EXCEPT !.claimed = TRUE]
          /\ call' = CallAt(c, IF emergency.claimed THEN "done" ELSE "close")
    /\ UNCHANGED <<market, legs, capability, registered, activeStop, repair, clock, watch, deaths>>

EmergencyClose(c) ==
    /\ call[c].pc = "close"
    /\ market' \in {market, FlatMarket}
    /\ emergency' = [emergency EXCEPT !.closes = @ + 1]
    /\ call' = CallAt(c, "done")
    /\ UNCHANGED <<legs, capability, registered, activeStop, repair, clock, watch, deaths>>

Die(c) ==
    /\ deaths < MaxDeaths
    /\ call[c].pc \notin {"begin", "done"}
    /\ deaths' = deaths + 1
    /\ call' = Verdict(c, "none")
    /\ UNCHANGED <<market, legs, capability, registered, emergency, activeStop, repair, clock, watch>>

----------------------------------------------------------------------------
(* The console's protection job (_protect and _protection_readback).       *)

\* It takes the ids of the plans it finds; repair places what is missing, a change of the
\* stop needs both.
RepairRead ==
    /\ RepairOn /\ repair.pc = "idle" /\ market.qty > 0
    /\ \E action \in {"repair", "set_sl"}:
         LET found == ShownIds
             missing == {s \in Sides: found[s] = 0}
         IN  /\ action = "set_sl" => missing = {}
             /\ repair' = [repair EXCEPT
                  !.pc = CASE action = "set_sl" -> "modify"
                           [] action = "repair" /\ missing = {} -> "position"
                           [] OTHER -> "place",
                  !.want = found, !.missing = missing, !.qty = market.qty,
                  !.stop = IF action = "set_sl" THEN "moved" ELSE activeStop]
    /\ UNCHANGED <<market, legs, call, capability, registered, emergency, activeStop, clock, watch, deaths>>

\* The mutation; a lost answer leaves the job to its readback.
RepairMutate ==
    /\ repair.pc \in {"place", "modify"}
    /\ \/ UNCHANGED market
       \/ /\ repair.pc = "place" /\ market.qty > 0
          /\ market' = Placed(repair.missing, repair.stop)
       \/ /\ repair.pc = "modify" /\ market.plan["SL"] = repair.want["SL"]
          /\ market.plan["SL"] # 0
          /\ market' = [market EXCEPT !.stop = "moved"]
    /\ repair' = [repair EXCEPT !.pc = "position"]
    /\ UNCHANGED <<legs, call, capability, registered, emergency, activeStop, clock, watch, deaths>>

RepairPosition ==
    /\ repair.pc \in {"position", "unproven"}
    /\ \E seen \in PositionRows:
         repair' = [repair EXCEPT !.seen = seen,
              !.pc = IF RowVerdict(seen, repair.qty, repair.want) = "open" THEN "plans" ELSE "unproven"]
    /\ UNCHANGED <<market, legs, call, capability, registered, emergency, activeStop, clock, watch, deaths>>

\* Only a proven readback moves the entry's active stop.
RepairPlans ==
    /\ repair.pc = "plans"
    /\ LET proven == PlanVerdict(repair.seen, repair.want, repair.stop) = "venue"
       IN  /\ activeStop' = IF proven THEN repair.stop ELSE activeStop
           /\ repair' = [repair EXCEPT !.pc = IF proven THEN "confirmed" ELSE "unproven"]
    /\ UNCHANGED <<market, legs, call, capability, registered, emergency, clock, watch, deaths>>

----------------------------------------------------------------------------
CallStep(c) ==
    \/ Begin(c) \/ Recover(c) \/ Post(c) \/ StoreIds(c)
    \/ ConfirmPosition(c) \/ ReadFails(c) \/ ConfirmPlans(c) \/ GraceEnds(c)
    \/ CapabilityRead(c) \/ CapabilityWrite(c)
    \/ Manage(c) \/ IdentifyPosition(c) \/ Register(c) \/ Contain(c) \/ EmergencyClose(c)

NativeNext ==
    /\ UNCHANGED setup
    /\ \/ \E c \in Callers: CallStep(c) \/ Die(c)
       \/ RepairRead \/ RepairMutate \/ RepairPosition \/ RepairPlans
       \/ ShowPlan \/ PositionEnds \/ AnotherOpens
       \/ RecordEvent \/ WatchdogRead \/ WatchdogWrite \/ Tick

NativeSpec == NativeInit /\ [][NativeNext]_nativeVars

----------------------------------------------------------------------------
Pcs == {"begin", "post", "ack", "reader", "confirm", "grace", "rplans", "cplans", "gplans",
        "manage", "local", "localfills", "lane", "lanefills", "contain", "close", "done"}
         \cup DOMAIN Noted

NativeTypeOK ==
    /\ market.qty \in 0..Filled /\ market.epoch \in {1, 2}
    /\ market.plan \in [Sides -> 0..market.lastId] /\ market.shown \subseteq Sides
    /\ \A s \in market.shown: market.plan[s] # 0
    /\ legs.claimed \in BOOLEAN /\ legs.id \in [Sides -> 0..market.lastId]
    /\ \A c \in Callers: call[c].pc \in Pcs /\ call[c].posts \in 0..MaxPosts
    /\ capability.at \in 0..clock.now /\ registered \in 0..2

\* A position is called protected at the venue only while both its plans rest there, with
\* the stop that was asked for: not because a placement was accepted, not because the
\* position row still names a plan (reconciliation_live.py), and the console moves the
\* entry's active stop only on such a report (_protection_readback).
ReportIsTrue ==
    [][LET Rest(stop) == market.qty > 0 /\ (\A s \in Sides: market.plan[s] # 0) /\ market.stop = stop
       IN  /\ \A c \in Callers:
                call'[c].report = "venue" /\ call[c].report # "venue" => Rest(call[c].stop)
           /\ activeStop' # activeStop => Rest(repair.stop)]_nativeVars

\* A position is handed to the local lane only as the one this entry opened, although a
\* position of the same size and side may have taken its place between two reads
\* (_fallback_identity), and the verdict that says so has its durable row behind it.
LocalIsOurs ==
    /\ registered # 2
    /\ \A c \in Callers: call[c].report = "managed" => registered = 1

\* Whatever calls run, die and are repeated, the entry's plans are POSTed by one of them,
\* MaxPosts times at most, and its emergency close once, and only where that is enabled
\* (claim_protection; _contain, "at most one emergency close").
OneHolderMutates ==
    /\ Cardinality({c \in Callers: call[c].posts > 0}) <= 1
    /\ \A c \in Callers: call[c].posts <= MaxPosts
    /\ emergency.closes <= IF Containment THEN 1 ELSE 0

\* can_admit_symbol for a symbol without verified native plans.
AdmittedByStream ==
    /\ capability.native # "VERIFIED" /\ capability.allowed
    /\ capability.stream = "HEALTHY" /\ FreshAt(capability.at)

\* Three writers put the row back from what they read earlier, so a stream that was marked
\* failed may read healthy again; still no entry is admitted on the stream unless an event
\* really arrived within the stale time (protection_capability.py; "REST reconciliation
\* must not make an old WS event look fresh", bitget_protection_watchdog.py).
AdmissionIsFresh == AdmittedByStream => FreshAt(clock.event)

=============================================================================
