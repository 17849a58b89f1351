------------------------------ MODULE VenueLatch ------------------------------
(***************************************************************************)
(* The venue's entry latch (the "bitget" row of venue_kill_switches).  The *)
(* reconciliation monitor sets it and, for clock faults only, releases it  *)
(* by itself (bitget_monitor.py); the dispatcher records the post-fill     *)
(* mismatches the monitor acts on; the console contains; an operator       *)
(* releases (bitget_live_latch_recovery.py, bitget_recovery.py).           *)
(*                                                                         *)
(* The row has a reason and no history: the last writer's reason is the    *)
(* only one.  One action is one transaction.  Timestamps are compared only *)
(* with the row's updated_at, so they are flags that each write resets.    *)
(***************************************************************************)
EXTENDS Naturals

CONSTANTS
    MaxMismatches,   \* bound: post-fill mismatches recorded
    MaxRestarts,     \* bound: restarts of the monitor process
    Operators        \* do operators contain and release?

ASSUME VenueLatchAssumption ==
    /\ {MaxMismatches, MaxRestarts} \subseteq Nat
    /\ Operators \in BOOLEAN

VARIABLES
    venue,       \* the row
    mismatch,    \* is there a mismatch row newer than the latch row's updated_at?
    mismatches,  \* how many were recorded
    reviewed,    \* does an operator hold a dry run's digest of the row as it is?
    monitor,     \* the monitor's cycle
    clock, faults,   \* what the monitor observes
    restarts,
    causes       \* history: what the row was latched for since its last release

table == <<venue, mismatch, causes, reviewed>>
venueVars == <<table, mismatches, monitor, clock, faults, restarts>>

Transient == {"clock-skew-unavailable", "clock-skew-exceeded"}
VenueReasons == Transient \cup {"provider", "mismatch", "contained"}
VenueUnlatched == [active |-> FALSE, reason |-> "none"]
MonitorAtRest == [pc |-> "idle", reasons |-> {}]

-----------------------------------------------------------------------------
(* The row.  Every write moves updated_at past the mismatches recorded so far, and past *)
(* any digest an operator holds.                                                        *)

Write(row, why) ==
    /\ venue' = row
    /\ causes' = why
    /\ mismatch' = FALSE
    /\ reviewed' = FALSE

\* latch_kill_switch
LatchVenue(reason) == Write([active |-> TRUE, reason |-> reason], causes \cup {reason})

\* release_kill_switch: whatever the row says by now.
ReleaseVenue(reference) == Write([active |-> FALSE, reason |-> reference], {})

-----------------------------------------------------------------------------
(* The reconciliation monitor *)

\* Fault: a mismatch that the monitor saw is not passed on.
MonitorCheckForgets ==
    /\ monitor.pc = "idle"
    /\ monitor' = [pc |-> "clock", reasons |-> faults]
    /\ UNCHANGED <<table, mismatches, clock, faults, restarts>>

\* The checks before the clock: provider reads, protection alerts, mismatches.
MonitorCheck ==
    /\ monitor.pc = "idle"
    /\ monitor' = [pc |-> "clock",
                   reasons |-> faults \cup (IF mismatch THEN {"mismatch"} ELSE {})]
    /\ UNCHANGED <<table, mismatches, clock, faults, restarts>>

\* _ALERT_ONLY_PROTECTION_REASONS and local stops that fired are reported, not latched.
Latchable(found) == found \ {"alert"}

\* The clock comes last; then the cycle latches, only reports, or looks at the row.
MonitorClock ==
    LET found == monitor.reasons \cup (IF clock = "ok" THEN {} ELSE {clock})
        latchable == Latchable(found)
    IN  /\ monitor.pc = "clock"
        /\ monitor' = CASE found = {} -> [pc |-> "active?", reasons |-> {}]
                        [] found # {} /\ latchable = {} -> MonitorAtRest
                        [] OTHER -> [pc |-> "latch", reasons |-> latchable]
        /\ UNCHANGED <<table, mismatches, clock, faults, restarts>>

\* Reasons are latched one by one in the order they were found.
FirstReason == IF "provider" \in monitor.reasons THEN "provider"
               ELSE IF "mismatch" \in monitor.reasons THEN "mismatch"
               ELSE CHOOSE r \in monitor.reasons: TRUE

MonitorLatch ==
    LET rest == monitor.reasons \ {FirstReason}
    IN  /\ monitor.pc = "latch"
        /\ LatchVenue(FirstReason)
        /\ monitor' = IF rest = {} THEN MonitorAtRest ELSE [monitor EXCEPT !.reasons = rest]
        /\ UNCHANGED <<mismatches, clock, faults, restarts>>

\* kill_switch_active
MonitorIsActive ==
    /\ monitor.pc = "active?"
    /\ monitor' = IF venue.active THEN [monitor EXCEPT !.pc = "reason?"]
                                             ELSE MonitorAtRest
    /\ UNCHANGED <<table, mismatches, clock, faults, restarts>>

\* _AUTO_RELEASABLE_KILL_SWITCH_REASONS
AutoReleasable(row) == row.active /\ row.reason \in Transient

\* kill_switch_reason
MonitorReason ==
    /\ monitor.pc = "reason?"
    /\ monitor' = IF AutoReleasable(venue) THEN [monitor EXCEPT !.pc = "release"]
                                                      ELSE MonitorAtRest
    /\ UNCHANGED <<table, mismatches, clock, faults, restarts>>

MonitorRelease ==
    /\ monitor.pc = "release"
    /\ ReleaseVenue("auto:clock")
    /\ monitor' = MonitorAtRest
    /\ UNCHANGED <<mismatches, clock, faults, restarts>>

-----------------------------------------------------------------------------
(* Everybody else *)

\* The monitor process dies in its cycle: its budget, a background task, an uncaught error.
MonitorRestart ==
    /\ restarts < MaxRestarts
    /\ monitor # MonitorAtRest
    /\ restarts' = restarts + 1
    /\ monitor' = MonitorAtRest
    /\ UNCHANGED <<table, mismatches, clock, faults>>

\* _reconcile_post_fill of the dispatcher records a mismatch; the monitor is to act on it.
RecordMismatch ==
    /\ mismatches < MaxMismatches
    /\ mismatches' = mismatches + 1
    /\ mismatch' = TRUE
    /\ UNCHANGED <<venue, causes, reviewed, monitor, clock, faults, restarts>>

\* safety.contain: an active incident keeps its reason.
Contain ==
    /\ Operators
    /\ Write([active |-> TRUE, reason |-> IF venue.active THEN venue.reason ELSE "contained"],
             causes \cup {"contained"})
    /\ UNCHANGED <<mismatches, monitor, clock, faults, restarts>>

\* validate_latches
Recoverable == venue.active /\ venue.reason \in Transient

\* A dry run: the operator reviews the digest of the row.
RecoveryReview ==
    /\ Operators
    /\ Recoverable
    /\ reviewed' = TRUE
    /\ UNCHANGED <<venue, mismatch, causes, mismatches, monitor, clock, faults, restarts>>

\* The apply run, under table locks: refused when the row was written since the review.
RecoveryApply ==
    /\ reviewed
    /\ Recoverable
    /\ venue.reason = "clock-skew-unavailable" => clock = "ok"
    /\ ReleaseVenue("approved")
    /\ UNCHANGED <<mismatches, monitor, clock, faults, restarts>>

\* release_after_clean_monitor, on a report that may have aged.
ReleaseAfterCleanMonitor ==
    /\ Operators
    /\ venue.active
    /\ ReleaseVenue("approved")
    /\ UNCHANGED <<mismatches, monitor, clock, faults, restarts>>

\* What the monitor observes changes.
Change ==
    /\ \/ clock' \in {"ok"} \cup Transient /\ UNCHANGED faults
       \/ faults' \in SUBSET {"provider", "alert"} /\ UNCHANGED clock
    /\ UNCHANGED <<table, mismatches, monitor, restarts>>

-----------------------------------------------------------------------------
VenueInit ==
    /\ venue = VenueUnlatched
    /\ mismatch = FALSE /\ mismatches = 0 /\ reviewed = FALSE
    /\ monitor = MonitorAtRest
    /\ clock = "ok" /\ faults = {}
    /\ restarts = 0
    /\ causes = {}

MonitorStep == MonitorCheck \/ MonitorClock \/ MonitorLatch \/ MonitorIsActive
               \/ MonitorReason \/ MonitorRelease

VenueNext ==
    \/ MonitorStep \/ MonitorRestart
    \/ RecordMismatch \/ Contain \/ RecoveryReview \/ RecoveryApply
    \/ ReleaseAfterCleanMonitor \/ Change

\* The monitor loops on a timer and is restarted when it ends.
VenueFairness == WF_venueVars(MonitorStep)

VenueSpec == VenueInit /\ [][VenueNext]_venueVars /\ VenueFairness

-----------------------------------------------------------------------------
(* Correctness *)

\* Type invariant of the row, the cycle and the history.
VenueTypeOK ==
    /\ venue \in [active: BOOLEAN, reason: VenueReasons \cup {"none", "auto:clock", "approved"}]
    /\ venue.active => venue.reason \in VenueReasons
    /\ {mismatch, reviewed} \subseteq BOOLEAN
    /\ mismatches \in 0..MaxMismatches /\ restarts \in 0..MaxRestarts
    /\ monitor \in [pc: {"idle", "clock", "latch", "active?", "reason?", "release"},
                    reasons: SUBSET (VenueReasons \cup {"alert"})]
    /\ monitor.pc = "latch" => monitor.reasons # {}
    /\ clock \in {"ok"} \cup Transient /\ faults \subseteq {"provider", "alert"}
    /\ causes \subseteq VenueReasons

\* The latch follows the trouble.  A clock fault is no absorbing state: once the clock can
\* be read and nothing else is wrong, its latch is gone (_AUTO_RELEASABLE_KILL_SWITCH_REASONS).
\* And a recorded mismatch closes the venue, although the process that recorded it is not
\* the one that latches, which may restart; while no clock fault interferes.
LatchFollowsTrouble ==
    /\ <>[](clock = "ok" /\ faults = {}) => []<>~(venue.active /\ venue.reason \in Transient)
    /\ [](clock = "ok") => (mismatch ~> (venue.active \/ venue.reason = "approved"))

\* What was latched for anything but the clock is released by an operator only
\* (bitget_monitor.py: it blocks new entries until an operator releases the switch).
SevereNeedsOperator ==
    [][(venue.active /\ venue'.reason = "auto:clock") => causes \subseteq Transient]_venueVars

====
