----------------------------- MODULE StreamLatch -----------------------------
(***************************************************************************)
(* The protection-stream latch (its own row of venue_kill_switches): the   *)
(* watchdog sets it when the socket is dead or positions cannot be read    *)
(* for long enough (bitget_protection_watchdog.py), and the healer         *)
(* releases it after sustained health (latch_healer.py).  Both live in the *)
(* watchdog's loop and keep their counts in memory.                        *)
(*                                                                         *)
(* Time is counted in cycles.  What one cycle reads of its symbols is      *)
(* summed up in two answers: is one of them quiet, did a position read     *)
(* fail.  The watchdog's writes to the capability table are another        *)
(* component's.                                                            *)
(***************************************************************************)
EXTENDS Naturals, FiniteSets

CONSTANTS
    StaleCycles,     \* stale_cycles_before_latch
    MinOutage,       \* min_outage_seconds, in cycles
    SocketCycles,    \* HealerPolicy.socket_cycles
    ProviderCycles,  \* HealerPolicy.provider_cycles
    Cooldown,        \* cooldown_seconds, in cycles
    MaxPerHour,      \* heals per hour
    Hour,            \* an hour, in cycles
    MaxDeaths        \* bound: restarts of the watchdog's process

ASSUME StreamLatchAssumption ==
    /\ {StaleCycles, SocketCycles, ProviderCycles, MaxPerHour, Hour} \subseteq Nat \ {0}
    /\ {MinOutage, Cooldown, MaxDeaths} \subseteq Nat

VARIABLES
    stream,      \* the row
    watchdog,    \* the watchdog's cycle and its count of bad ones
    healer,      \* the healer's memory
    socket,      \* the state of the authenticated session
    readable,    \* can positions be read?
    deaths,
    calm         \* history: HEALTHY reports in a row since the row was latched

streamVars == <<stream, watchdog, healer, socket, readable, deaths, calm>>

StreamReasons == {"provider", "socket-not-connected"}
StreamUnlatched == [active |-> FALSE, reason |-> "none"]
WatchdogAtRest == [pc |-> "idle", dead |-> FALSE, ready |-> FALSE, report |-> "none",
                   reason |-> "none", bad |-> 0, age |-> 0]
HealerAtStart == [healthy |-> 0, cool |-> 0, recent |-> {}]

AtMost(n, bound) == IF n < bound THEN n ELSE bound
MaxHealthy == IF SocketCycles < ProviderCycles THEN ProviderCycles ELSE SocketCycles

-----------------------------------------------------------------------------
(* The watchdog *)

\* A cycle of the cooldown has passed.
Cooled(cool) == IF cool = 0 THEN 0 ELSE cool - 1

\* run_once looks at the socket; a cycle is the unit of time.
WatchdogBegin ==
    /\ watchdog.pc = "idle"
    /\ watchdog' = [watchdog EXCEPT !.pc = "reads", !.dead = (socket = "dead"),
                                    !.ready = (socket = "connected"),
                                    !.age = IF watchdog.bad = 0 THEN 0 ELSE AtMost(@ + 1, MinOutage)]
    /\ healer' = [healer EXCEPT !.cool = Cooled(@),
                                !.recent = {a + 1: a \in {b \in @: b < Hour}}]
    /\ UNCHANGED <<stream, socket, readable, deaths, calm>>

\* _track_consecutive_failures up to its question to the database.
Track(report, latchable, reason) ==
    LET bad == AtMost(watchdog.bad + 1, StaleCycles)
        long == bad >= StaleCycles /\ watchdog.age >= MinOutage
    IN  watchdog' = CASE report = "HEALTHY" ->
                            [watchdog EXCEPT !.pc = "observe", !.report = report,
                                             !.bad = 0, !.age = 0]
                      [] report # "HEALTHY" /\ ~latchable ->
                            [watchdog EXCEPT !.pc = "observe", !.report = report]
                      [] OTHER ->
                            [watchdog EXCEPT !.pc = IF long THEN "latched?" ELSE "observe",
                                             !.report = report, !.reason = reason, !.bad = bad]

\* The position reads of all symbols, then the verdict.  A symbol may be quiet at any time.
WatchdogReads ==
    LET failed == ~readable
    IN  /\ watchdog.pc = "reads"
        /\ \E quiet \in BOOLEAN:
              Track(IF ~watchdog.ready \/ failed THEN "FAILED"
                    ELSE IF quiet THEN "STALE" ELSE "HEALTHY",
                    watchdog.dead \/ failed,
                    IF failed THEN "provider" ELSE "socket-not-connected")
        /\ UNCHANGED <<stream, healer, socket, readable, deaths, calm>>

\* Fault: a failed query counts as "yes".
IsLatchedAssumed ==
    /\ watchdog.pc = "latched?"
    /\ \/ watchdog' = [watchdog EXCEPT !.pc = "observe"]
       \/ /\ ~stream.active
          /\ watchdog' = [watchdog EXCEPT !.pc = "latch"]
    /\ UNCHANGED <<stream, healer, socket, readable, deaths, calm>>

\* _is_latched: a failed query counts as "no".
WatchdogIsLatched ==
    /\ watchdog.pc = "latched?"
    /\ \/ /\ stream.active
          /\ watchdog' = [watchdog EXCEPT !.pc = "observe"]
       \/ watchdog' = [watchdog EXCEPT !.pc = "latch"]
    /\ UNCHANGED <<stream, healer, socket, readable, deaths, calm>>

WatchdogLatch ==
    /\ watchdog.pc = "latch"
    /\ stream' = [active |-> TRUE, reason |-> watchdog.reason]
    /\ calm' = 0
    /\ watchdog' = [watchdog EXCEPT !.pc = "observe"]
    /\ UNCHANGED <<healer, socket, readable, deaths>>

\* _latch swallows the error; the counter stays and the next bad cycle tries again.
LatchFails ==
    /\ watchdog.pc = "latch"
    /\ watchdog' = [watchdog EXCEPT !.pc = "observe"]
    /\ UNCHANGED <<stream, healer, socket, readable, deaths, calm>>

-----------------------------------------------------------------------------
(* The healer *)

\* _required_cycles
RequiredCycles(reason) == IF reason = "provider" THEN ProviderCycles ELSE SocketCycles

\* Fault: only a FAILED report disarms the healer.
DisarmedOnFailure == watchdog.report = "FAILED"

\* _status_is_healthy
Disarmed == watchdog.report # "HEALTHY"

\* May the healer release now?  The cooldown, and the breaker.
MayHeal == healer.cool = 0 /\ Cardinality(healer.recent) < MaxPerHour

CalmNow == IF watchdog.report = "HEALTHY" THEN AtMost(calm + 1, MaxHealthy) ELSE 0

\* observe runs without an await.  Its transactions are one step: the operator's release,
\* the only write that could come between them, does what they do.
HealerObserve ==
    LET healthy == AtMost(healer.healthy + 1, MaxHealthy)
        due == stream.active /\ healthy >= RequiredCycles(stream.reason)
    IN  /\ watchdog.pc = "observe"
        /\ ~Disarmed
        /\ IF due /\ MayHeal
           THEN /\ stream' = [active |-> FALSE, reason |-> "auto:healthy"]
                /\ healer' = [healthy |-> 0, cool |-> Cooldown, recent |-> healer.recent \cup {0}]
           ELSE /\ UNCHANGED stream
                /\ healer' = [healer EXCEPT !.healthy = healthy]
        /\ calm' = CalmNow
        /\ watchdog' = [watchdog EXCEPT !.pc = "idle"]
        /\ UNCHANGED <<socket, readable, deaths>>

HealerDisarmed ==
    /\ watchdog.pc = "observe"
    /\ Disarmed
    /\ healer' = [healer EXCEPT !.healthy = 0]
    /\ calm' = CalmNow
    /\ watchdog' = [watchdog EXCEPT !.pc = "idle"]
    /\ UNCHANGED <<stream, socket, readable, deaths>>

\* The database fails under observe, after it has counted the report.
HealerError ==
    /\ watchdog.pc = "observe"
    /\ ~Disarmed
    /\ healer' = [healer EXCEPT !.healthy = AtMost(@ + 1, MaxHealthy)]
    /\ calm' = CalmNow
    /\ watchdog' = [watchdog EXCEPT !.pc = "idle"]
    /\ UNCHANGED <<stream, socket, readable, deaths>>

-----------------------------------------------------------------------------
(* Everybody else *)

\* The process dies: a cycle's budget, a background task, an uncaught error.
WatchdogRestart ==
    /\ deaths < MaxDeaths
    /\ deaths' = deaths + 1
    /\ watchdog' = WatchdogAtRest
    /\ healer' = HealerAtStart
    /\ UNCHANGED <<stream, socket, readable, calm>>

\* The operator's recovery releases the row for a dead socket after its own proof.
OperatorRelease ==
    /\ stream.active /\ stream.reason = "socket-not-connected"
    /\ stream' = [active |-> FALSE, reason |-> "approved"]
    /\ UNCHANGED <<watchdog, healer, socket, readable, deaths, calm>>

\* The session and the provider come and go.
SocketChange ==
    /\ socket' \in {"connected", "limbo", "dead"} \ {socket}
    /\ UNCHANGED <<stream, watchdog, healer, readable, deaths, calm>>

ProviderChange ==
    /\ readable' = ~readable
    /\ UNCHANGED <<stream, watchdog, healer, socket, deaths, calm>>

-----------------------------------------------------------------------------
StreamInit ==
    /\ stream = StreamUnlatched
    /\ watchdog = WatchdogAtRest /\ healer = HealerAtStart
    /\ socket = "connected" /\ readable = TRUE
    /\ deaths = 0
    /\ calm = 0

WatchdogStep == WatchdogBegin \/ WatchdogReads \/ WatchdogIsLatched \/ WatchdogLatch
                \/ LatchFails \/ HealerObserve \/ HealerDisarmed \/ HealerError

StreamNext ==
    \/ WatchdogStep \/ WatchdogRestart
    \/ OperatorRelease \/ SocketChange \/ ProviderChange

\* The loop runs on a timer and the process is restarted when it ends; the database does
\* not refuse every latch and every release for ever.
StreamFairness ==
    /\ WF_streamVars(WatchdogStep)
    /\ SF_streamVars(WatchdogLatch)
    /\ SF_streamVars(HealerObserve)

StreamSpec == StreamInit /\ [][StreamNext]_streamVars /\ StreamFairness

-----------------------------------------------------------------------------
(* Correctness *)

\* Type invariant of the row, the memory of the loop and the history.
StreamTypeOK ==
    /\ stream \in [active: BOOLEAN,
                   reason: StreamReasons \cup {"none", "auto:healthy", "approved"}]
    /\ stream.active => stream.reason \in StreamReasons
    /\ watchdog \in [pc: {"idle", "reads", "latched?", "latch", "observe"},
                     dead: BOOLEAN, ready: BOOLEAN,
                     report: {"none", "HEALTHY", "STALE", "FAILED"},
                     reason: StreamReasons \cup {"none"},
                     bad: 0..StaleCycles, age: 0..MinOutage]
    /\ watchdog.pc = "latch" => watchdog.reason \in StreamReasons
    /\ healer \in [healthy: 0..MaxHealthy, cool: 0..Cooldown, recent: SUBSET (0..Hour)]
    /\ Cardinality(healer.recent) <= MaxPerHour
    /\ socket \in {"connected", "limbo", "dead"} /\ readable \in BOOLEAN
    /\ deaths \in 0..MaxDeaths /\ calm \in 0..MaxHealthy

\* The healer releases the latch only after the run of HEALTHY reports its reason asks
\* for, all of them later than the latch (LatchHealer.observe).
HealNeedsHealth ==
    [][(stream.active /\ stream'.reason = "auto:healthy")
          => calm' >= RequiredCycles(stream.reason)]_streamVars

\* The latch follows the stream.  An outage that stays is latched in the end, although
\* single latches fail and the process restarts (_latch: a latch that could not be recorded
\* is retried); and with health restored for good it is healed in the end, through the
\* cooldown and the breaker (LatchHealer).
LatchFollowsStream ==
    /\ <>[](socket = "dead") => []<>stream.active
    /\ <>[](socket = "connected" /\ readable /\ watchdog.report # "STALE") => <>[]~stream.active

====
