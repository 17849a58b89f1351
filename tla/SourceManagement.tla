-------------------------- MODULE SourceManagement --------------------------
(***************************************************************************)
(* A split entry and the message that manages it.                          *)
(*                                                                         *)
(* The dispatcher enters a quarter at the market and, once that quarter is *)
(* filled and protected at the venue, posts a limit order for the rest     *)
(* (_submit_split).  Both legs are rows of live_order_intents from the     *)
(* start.  Source management, a process of its own, executes what later    *)
(* messages of the channel say: close, a booked target, stop to entry      *)
(* (source_management.py through operator/bitget_gateway.py).  Before it   *)
(* sizes anything it proves the limit leg terminal.  Recovery, run by a    *)
(* restarted dispatcher or by a console worker, reads both legs back.      *)
(*                                                                         *)
(* One symbol, one split entry, one update.  Margin is EntryLifecycle's    *)
(* and the rows of the local lanes are FallbackProtection's.  Venue        *)
(* mutations are enabled; a provider read that fails stops the process,    *)
(* which compose restarts: the Stop of either.                             *)
(***************************************************************************)
EXTENDS Integers

CONSTANTS
    Actions,      \* what the update may say
    MaxAttempts,  \* SOURCE_MANAGEMENT_MAX_ATTEMPTS
    MaxCrashes,   \* bound: processes that stop in the middle of their work
    LegFills      \* bound: the quantities the limit leg may have filled, in thirds

ASSUME ManagementAssumption ==
    /\ Actions \subseteq {"CLOSE", "TP1_BOOKED", "TP_BOOKED", "SL_TO_ENTRY"}
    /\ MaxAttempts \in Nat \ {0} /\ MaxCrashes \in Nat
    /\ LegFills \subseteq {1, 2, 3}

VARIABLES
    root,      \* the market leg's row
    leg,       \* the limit leg's row
    mkt, lim,  \* what the venue knows of the two orders
    net,       \* what closes took off the position
    wire,      \* management's requests that have not arrived: "cancel", "close"
    entry,     \* the dispatcher in _submit_split, with its copy of the limit leg
    recovery,  \* recover_entry_lifecycles, with what it uses of its copy of the limit leg
    update,    \* the row of source_management_updates and its provider intents
    manager,   \* the source-management process in run_once
    current,   \* is the update's revision current and fresh?
    crashes,
    sent,      \* history: how often each mutation was posted
    overrun    \* history: has recovery withdrawn a leg that was staged when it was read, and
               \* that the dispatcher has claimed since?

manageVars == <<root, leg, mkt, lim, net, wire, entry, recovery, update, manager, current,
                crashes, sent, overrun>>

MarketQty == 1
LimitQty  == 3 * MarketQty    \* the exact 25/75 of _submit_split
Size      == mkt.filled + lim.filled - net
Mutations == {"market", "limit", "cancel", "close", "stop"}

NoLeg     == [state |-> "absent", filled |-> 0, terminal |-> FALSE,
              cancelBy |-> FALSE, cancelPost |-> FALSE]
NoEntryOrder == [at |-> "none", filled |-> 0]
Dead      == {"none", "gone"}  \* an order the venue does not have, or has settled

-----------------------------------------------------------------------------
(* Readback: what an order detail and the fills say of an order (reconcile_intent).        *)

\* While a posted order is not there yet the detail is missing, and whether the rest of the
\* symbol is empty decides between a rejection and not knowing.
Reading(order, qty) ==
    IF order.at \in {"none", "sent"}
    THEN [state    |-> IF Size = 0 /\ mkt.at \in Dead THEN "rejected" ELSE "unknown",
          filled   |-> 0, terminal |-> FALSE]
    ELSE [state    |-> IF order.filled = qty THEN "filled"
                       ELSE IF order.filled > 0 THEN "partially_filled"
                       ELSE IF order.at = "open" THEN "acknowledged"
                       ELSE "rejected",
          filled   |-> order.filled,
          terminal |-> order.at = "gone"]

\* _persist_readback refuses a quantity below the one in memory.
Regresses(mem, r) == r.filled < mem.filled

\* Fault: a leg the venue does not show is taken for settled.
UpdateTrusting(row, r) ==
    [row EXCEPT !.state = r.state, !.filled = r.filled,
                !.terminal = @ \/ r.terminal \/ r.state \in {"rejected", "unknown"}]

\* update: the statement keeps the cancel fence and never takes terminal back.
Update(row, r) ==
    [row EXCEPT !.state = r.state, !.filled = r.filled, !.terminal = @ \/ r.terminal]

Withdrawn(mem) == [state |-> "cancelled", filled |-> mem.filled, terminal |-> TRUE]
Refused(mem)   == [state |-> "rejected", filled |-> mem.filled, terminal |-> TRUE]

\* claim_entry_post: only a staged leg nobody asked to cancel.
MayPostLeg == leg.state = "staged" /\ ~leg.cancelBy

\* claim_cancel: a staged leg is cancelled on the spot.
CancelClaimed(row) ==
    IF row.cancelBy \/ row.terminal \/ row.state = "absent" THEN row
    ELSE [row EXCEPT !.cancelBy = TRUE, !.terminal = (row.state = "staged"),
                     !.state = IF @ = "staged" THEN "cancelled" ELSE @]

\* Fault: the claim of the cancel POST can be made again.
MayPostCancelAgain == leg.cancelBy /\ ~leg.terminal

\* claim_cancel_post
MayPostCancel == leg.cancelBy /\ ~leg.cancelPost /\ ~leg.terminal

\* pending_entries of this update
PendingEntries == leg.state # "absent" /\ (~leg.terminal \/ leg.cancelBy)

Sent(what) == sent' = [sent EXCEPT ![what] = @ + 1]

-----------------------------------------------------------------------------
(* The dispatcher: _submit_split *)

EntryAt(pc) == entry.pc = pc
ToEntry(pc) == entry' = [pc |-> pc, mem |-> IF pc = "over" THEN NoLeg ELSE entry.mem]

entryRest == <<net, wire, recovery, update, manager, current, crashes, overrun>>

\* claim_split: both legs become durable together.
ClaimSplit ==
    /\ EntryAt("idle")
    /\ root.state = "absent"
    /\ root' = [state |-> "requested", filled |-> 0]
    /\ leg' = [NoLeg EXCEPT !.state = "staged"]
    /\ entry' = [pc |-> "market", mem |-> [NoLeg EXCEPT !.state = "staged"]]
    /\ UNCHANGED <<mkt, lim, sent, entryRest>>

\* A veto before the claim leaves nothing behind; the dispatch is over.
VetoSplit ==
    /\ EntryAt("idle")
    /\ root.state = "absent"
    /\ ToEntry("over")
    /\ UNCHANGED <<root, leg, mkt, lim, sent, entryRest>>

\* The market leg passes _final_entry_veto and is posted.
PostMarket ==
    /\ EntryAt("market")
    /\ mkt' = [mkt EXCEPT !.at = "sent"]
    /\ Sent("market")
    /\ ToEntry("marketsent")
    /\ UNCHANGED <<root, leg, lim, entryRest>>

\* It is vetoed: the claim is retired, and the leg if it still is staged.
VetoMarket ==
    /\ EntryAt("market")
    /\ root' = [root EXCEPT !.state = "rejected"]
    /\ leg' = IF leg.state = "staged" THEN Update(leg, Withdrawn(leg)) ELSE leg
    /\ ToEntry("over")
    /\ UNCHANGED <<mkt, lim, sent, entryRest>>

\* Its answer, or a readback after a timeout.  Without a fill the leg is withdrawn; a
\* fill goes on to protection; a readback that fails ends the call with the leg staged.
MarketRead ==
    /\ EntryAt("marketsent")
    /\ LET r == Reading(mkt, MarketQty)
       IN  \/ /\ root' = [state |-> r.state, filled |-> r.filled]
              /\ IF r.filled = 0
                 THEN leg' = Update(leg, Withdrawn(entry.mem)) /\ ToEntry("over")
                 ELSE UNCHANGED leg /\ ToEntry("protect")
           \/ ToEntry("over") /\ UNCHANGED <<root, leg>>
    /\ UNCHANGED <<mkt, lim, sent, entryRest>>

\* protect_filled_position: only venue protection of the whole quarter lets the leg go on.
ProtectMarket ==
    /\ EntryAt("protect")
    /\ \/ ToEntry("claimleg") /\ UNCHANGED leg
       \/ leg' = Update(leg, Withdrawn(entry.mem)) /\ ToEntry("over")
    /\ UNCHANGED <<root, mkt, lim, sent, entryRest>>

ClaimEntryPost ==
    /\ EntryAt("claimleg")
    /\ IF MayPostLeg
       THEN /\ leg' = [leg EXCEPT !.state = "requested"]
            /\ entry' = [pc |-> "check", mem |-> leg']
       ELSE UNCHANGED leg /\ ToEntry("over")
    /\ UNCHANGED <<root, mkt, lim, sent, entryRest>>

\* _final_entry_veto for the limit leg: the row as it is now.
MayStillPost == ~leg.cancelBy /\ ~leg.terminal

CheckLeg ==
    /\ EntryAt("check")
    /\ IF MayStillPost
       THEN \/ ToEntry("post") /\ UNCHANGED leg
            \/ leg' = Update(leg, Refused(entry.mem)) /\ ToEntry("over")
       ELSE leg' = Update(leg, Withdrawn(entry.mem)) /\ ToEntry("over")
    /\ UNCHANGED <<root, mkt, lim, sent, entryRest>>

PostLeg ==
    /\ EntryAt("post")
    /\ lim' = [lim EXCEPT !.at = "sent"]
    /\ Sent("limit")
    /\ ToEntry("legsent")
    /\ UNCHANGED <<root, leg, mkt, entryRest>>

\* The readback of the leg and its write, or an exception in between.
LegRead ==
    /\ EntryAt("legsent")
    /\ \/ leg' = Update(leg, Reading(lim, LimitQty))
       \/ UNCHANGED leg
    /\ ToEntry("over")
    /\ UNCHANGED <<root, mkt, lim, sent, entryRest>>

EntryStep ==
    \/ ClaimSplit \/ VetoSplit \/ PostMarket \/ VetoMarket \/ MarketRead \/ ProtectMarket
    \/ ClaimEntryPost \/ CheckLeg \/ PostLeg \/ LegRead

-----------------------------------------------------------------------------
(* Recovery of both legs: recover_entry_lifecycles with _reconcile_waiting_leg *)

recoverRest == <<mkt, lim, net, wire, entry, update, manager, current, crashes, sent>>

\* Its candidates: entries that are not known to be over.
LegsRecoverable == root.filled > 0 \/ root.state \notin {"absent", "rejected"}

AtEase == [busy |-> FALSE, staged |-> FALSE, filled |-> 0]

\* What it writes, by the copy it read: a staged leg is withdrawn, another one read back.
RecoveredLeg(mem) ==
    LET r == Reading(lim, LimitQty)
    IN  IF mem.staged THEN Update(leg, Withdrawn(mem))
        ELSE IF Regresses(mem, r) THEN leg
        ELSE Update(leg, r)

RecoveredRoot ==
    LET r == Reading(mkt, MarketQty)
    IN  IF r.filled < root.filled THEN root ELSE [state |-> r.state, filled |-> r.filled]

\* A terminal leg is left as it is.
RecoverRoot ==
    /\ LegsRecoverable /\ leg.terminal
    /\ root' = RecoveredRoot
    /\ UNCHANGED <<leg, recovery, overrun, recoverRest>>

\* The row is read, and written in a later transaction.
RecoverLegRead ==
    /\ LegsRecoverable
    /\ ~recovery.busy /\ ~leg.terminal
    /\ recovery' = [busy |-> TRUE, staged |-> leg.state = "staged", filled |-> leg.filled]
    /\ UNCHANGED <<root, leg, overrun, recoverRest>>

RecoverLegWrite ==
    /\ recovery.busy
    /\ leg' = RecoveredLeg(recovery)
    /\ root' = RecoveredRoot
    /\ recovery' = AtEase
    /\ overrun' = (overrun \/ (recovery.staged /\ leg.state # "staged" /\ ~leg.terminal))
    /\ UNCHANGED recoverRest

-----------------------------------------------------------------------------
(* Source management: run_once *)

ManagerAt(pc) == manager.pc = pc
Idle == [pc |-> "idle", mem |-> NoLeg, seen |-> 0, qty |-> 0]
ToManager(pc) == manager' = [manager EXCEPT !.pc = pc]
Cancels == update.action \in {"CLOSE", "TP1_BOOKED", "TP_BOOKED"}
Settled == {"reconciled", "failed", "cancelled-flat", "entries-cancelled"}

managerRest == <<mkt, lim, net, entry, recovery, current, crashes, overrun>>

Conclude(state) == update' = [update EXCEPT !.state = state] /\ manager' = Idle

\* Fault: the attempt is not counted.
ParkUncounted == update' = [update EXCEPT !.state = "reconciliation-pending"] /\ manager' = Idle

\* park: one attempt of the budget, and failed when it is spent.
Park ==
    /\ update' = [update EXCEPT !.attempts = @ + 1,
                                !.state = IF update.attempts + 1 >= MaxAttempts
                                          THEN "failed" ELSE "reconciliation-pending"]
    /\ manager' = Idle

\* persist_provider_intent, and what follows it.
Persist(what, next) ==
    /\ update' = [update EXCEPT !.intents = @ \cup {what}]
    /\ manager' = next

\* The sweeps of claim: an update that is too old and has touched nothing.
Sweepable ==
    /\ update.intents = {} /\ ~leg.cancelBy
    /\ ~current \/ (update.state = "claimed" /\ update.attempts > 0)

ClaimUpdate ==
    /\ ManagerAt("idle")
    /\ update.state \notin Settled
    /\ IF Sweepable THEN Conclude("failed")
       ELSE update' = [update EXCEPT !.state = "claimed"] /\ ToManager("look")
    /\ UNCHANGED <<root, leg, wire, sent, managerRest>>

\* cancel_pending_entries(reconciliation_only): this update's claim is read back.
RereadLeg ==
    LET r == Reading(lim, LimitQty)
    IN  IF leg.terminal \/ ~leg.cancelBy \/ Regresses(leg, r) THEN leg ELSE Update(leg, r)
RereadProven == ~leg.cancelBy \/ RereadLeg.terminal

\* _retire_unreconcilable_close_claim: no position, no order, no open claim.
NothingLeft == Size = 0 /\ lim.at # "open" /\ RereadProven

\* A stop that was claimed before is only read back; a stale update only settles claims.
Look ==
    /\ ManagerAt("look")
    /\ IF update.action \in {"TP1_BOOKED", "SL_TO_ENTRY"} /\ "stop" \in update.intents
       THEN (Conclude("reconciled") \/ Park) /\ UNCHANGED leg
       ELSE IF current
       THEN ToManager(IF Cancels THEN "cancel" ELSE "positions") /\ UNCHANGED <<update, leg>>
       ELSE IF "close" \in update.intents
       THEN /\ leg' = IF Size = 0 THEN RereadLeg ELSE leg
            /\ IF NothingLeft THEN Conclude("reconciled") ELSE Park
       ELSE /\ leg' = RereadLeg
            /\ IF RereadProven THEN Conclude("failed") ELSE Park
    /\ UNCHANGED <<root, wire, sent, managerRest>>

\* claim_cancel on the pending leg, or nothing to cancel; the account binding may fail.
ClaimCancel ==
    /\ ManagerAt("cancel")
    /\ \/ Park /\ UNCHANGED leg
       \/ /\ ~PendingEntries
          /\ ToManager("positions") /\ UNCHANGED <<leg, update>>
       \/ /\ PendingEntries
          /\ leg' = CancelClaimed(leg)
          /\ manager' = [manager EXCEPT !.pc = IF leg'.terminal THEN "root" ELSE "before",
                                        !.mem = leg']
          /\ UNCHANGED update
    /\ UNCHANGED <<root, wire, sent, managerRest>>

\* cancel_pending_entry: read, and claim the POST only for an order that is known and open.
ReadBeforeCancel ==
    /\ ManagerAt("before")
    /\ LET r == Reading(lim, LimitQty)
       IN  IF Regresses(manager.mem, r) THEN Park /\ UNCHANGED leg
           ELSE IF ~r.terminal /\ r.state # "unknown" /\ MayPostCancel
           THEN /\ leg' = [leg EXCEPT !.cancelPost = TRUE]
                /\ ToManager("cancelpost") /\ UNCHANGED update
           ELSE /\ leg' = Update(leg, r)
                /\ IF r.terminal THEN ToManager("root") /\ UNCHANGED update ELSE Park
    /\ UNCHANGED <<root, wire, sent, managerRest>>

PostCancel ==
    /\ ManagerAt("cancelpost")
    /\ wire' = [wire EXCEPT !.cancel = TRUE]
    /\ Sent("cancel")
    /\ ToManager("after")
    /\ UNCHANGED <<root, leg, update, managerRest>>

\* Whatever became of the POST, only a terminal readback counts.
ReadAfterCancel ==
    /\ ManagerAt("after")
    /\ LET r == Reading(lim, LimitQty)
       IN  IF Regresses(manager.mem, r) THEN Park /\ UNCHANGED leg
           ELSE /\ leg' = Update(leg, r)
                /\ IF r.terminal THEN ToManager("root") /\ UNCHANGED update ELSE Park
    /\ UNCHANGED <<root, wire, sent, managerRest>>

\* The market leg is read back too, and no pending leg may be left.
ReadRoot ==
    /\ ManagerAt("root")
    /\ root' = RecoveredRoot
    /\ IF leg.terminal
       THEN manager' = [Idle EXCEPT !.pc = "positions"] /\ UNCHANGED update ELSE Park
    /\ UNCHANGED <<leg, wire, sent, managerRest>>

\* The position is read after the cancellation, and decides what the action does.
ReadPositions ==
    /\ ManagerAt("positions")
    /\ CASE Size = 0 ->
              /\ leg' = IF "close" \in update.intents THEN RereadLeg ELSE leg
              /\ IF ~Cancels THEN Conclude("failed")
                 ELSE IF "close" \notin update.intents THEN Conclude("cancelled-flat")
                 ELSE IF NothingLeft THEN Conclude("reconciled") ELSE Park
         [] Size > 0 ->
              /\ UNCHANGED leg
              /\ CASE update.action = "TP_BOOKED" -> Conclude("entries-cancelled")
                   [] update.action = "TP1_BOOKED" /\ "close" \in update.intents -> Park
                   [] OTHER -> IF current THEN ToManager("claim") /\ UNCHANGED update
                                          ELSE Conclude("failed")
    /\ UNCHANGED <<root, wire, sent, managerRest>>

\* normalize_tp1_close_quantity: half, floored to the lot; nothing to close is refused.
Half == Size \div 2

ClaimMutation ==
    /\ ManagerAt("claim")
    /\ CASE update.action = "CLOSE" ->
              IF "close" \in update.intents
              THEN Conclude("reconciliation-pending")    \* no attempt is counted here
              ELSE Persist("close", [Idle EXCEPT !.pc = "close", !.seen = Size, !.qty = Size])
         [] update.action = "TP1_BOOKED" ->
              IF Half = 0 THEN Conclude("failed")
              ELSE Persist("close", [Idle EXCEPT !.pc = "close", !.seen = Size, !.qty = Half])
         [] OTHER -> Persist("stop", [Idle EXCEPT !.pc = "stop"])
    /\ UNCHANGED <<root, leg, wire, sent, managerRest>>

\* close_reduce_only: the close is bound to its owner before it is posted.
PostClose ==
    /\ ManagerAt("close")
    /\ \/ Park /\ UNCHANGED <<wire, sent>>
       \/ /\ wire' = [wire EXCEPT !.close = manager.qty]
          /\ Sent("close")
          /\ ToManager("closed") /\ UNCHANGED update
    /\ UNCHANGED <<root, leg, managerRest>>

\* The close is judged by the position alone.
ReadClose ==
    /\ ManagerAt("closed")
    /\ \/ Park   \* the answer is unknown
       \/ IF update.action = "CLOSE" \/ Size = 0
          THEN Conclude(IF update.action = "CLOSE" /\ Size = 0 THEN "reconciled" ELSE "failed")
          ELSE IF Size # manager.seen - manager.qty THEN Park
          ELSE IF current THEN Persist("stop", [Idle EXCEPT !.pc = "stop"])
          ELSE Conclude("failed")
    /\ UNCHANGED <<root, leg, wire, sent, managerRest>>

\* replace_stop_loss: the residual and the plan must be the owned ones; then one modify.
PostStop ==
    /\ ManagerAt("stop")
    /\ \/ Conclude("failed") /\ UNCHANGED sent
       \/ Size > 0 /\ Sent("stop") /\ ToManager("stopped") /\ UNCHANGED update
    /\ UNCHANGED <<root, leg, wire, managerRest>>

\* _reconcile_stop_intent: confirmed by readback, or parked.
ReadStop ==
    /\ ManagerAt("stopped")
    /\ Conclude("reconciled") \/ Park
    /\ UNCHANGED <<root, leg, wire, sent, managerRest>>

ManagerStep ==
    \/ ClaimUpdate \/ Look \/ ClaimCancel \/ ReadBeforeCancel \/ PostCancel \/ ReadAfterCancel
    \/ ReadRoot \/ ReadPositions \/ ClaimMutation \/ PostClose \/ ReadClose \/ PostStop \/ ReadStop

-----------------------------------------------------------------------------
(* The venue, time and restarts *)

outside == <<root, leg, entry, recovery, update, manager, current, crashes, sent, overrun>>

\* A market order is filled or refused on arrival.
MarketArrives ==
    /\ mkt.at = "sent"
    /\ mkt' \in {[at |-> "gone", filled |-> q]: q \in {0, MarketQty}}
    /\ UNCHANGED <<lim, net, wire, outside>>

LimitArrives ==
    /\ lim.at = "sent"
    /\ lim' \in {[lim EXCEPT !.at = a]: a \in {"open", "gone"}}
    /\ UNCHANGED <<mkt, net, wire, outside>>

LimitFills ==
    /\ lim.at = "open"
    /\ \E q \in LegFills:
         /\ q > lim.filled
         /\ lim' = [at |-> IF q = LimitQty THEN "gone" ELSE "open", filled |-> q]
    /\ UNCHANGED <<mkt, net, wire, outside>>

\* The cancel arrives, if ever; an order that is not there yet is not found.
CancelArrives ==
    /\ wire.cancel
    /\ wire' = [wire EXCEPT !.cancel = FALSE]
    /\ lim' \in {lim, IF lim.at = "open" THEN [lim EXCEPT !.at = "gone"] ELSE lim}
    /\ UNCHANGED <<mkt, net, outside>>

\* A reduce-only close takes at most what is there.
CloseArrives ==
    /\ wire.close > 0
    /\ wire' = [wire EXCEPT !.close = 0]
    /\ net' \in {net, net + (IF wire.close < Size THEN wire.close ELSE Size)}
    /\ UNCHANGED <<mkt, lim, outside>>

\* A stop or a target of the venue, or the user, closes the position.
PositionExits ==
    /\ Size > 0
    /\ net' = net + Size
    /\ UNCHANGED <<mkt, lim, wire, outside>>

\* The message is edited or leaves its window.
SourceAges ==
    /\ current
    /\ current' = FALSE
    /\ UNCHANGED <<root, leg, mkt, lim, net, wire, entry, recovery, update, manager,
                   crashes, sent, overrun>>

\* A process stops.  What it was doing is left to recovery, or to the next claim.
StopEntry ==
    /\ crashes < MaxCrashes /\ entry.pc \notin {"idle", "over"}
    /\ crashes' = crashes + 1
    /\ ToEntry("over")
    /\ UNCHANGED <<root, leg, mkt, lim, net, wire, recovery, update, manager, current, sent,
                   overrun>>

StopManager ==
    /\ crashes < MaxCrashes /\ manager.pc # "idle"
    /\ crashes' = crashes + 1
    /\ manager' = Idle
    /\ UNCHANGED <<root, leg, mkt, lim, net, wire, entry, recovery, update, current, sent,
                   overrun>>

-----------------------------------------------------------------------------

ManageInit ==
    /\ root = [state |-> "absent", filled |-> 0]
    /\ leg = NoLeg
    /\ mkt = NoEntryOrder /\ lim = NoEntryOrder /\ net = 0
    /\ wire = [cancel |-> FALSE, close |-> 0]
    /\ entry = [pc |-> "idle", mem |-> NoLeg]
    /\ recovery = AtEase
    /\ \E a \in Actions:
         update = [action |-> a, state |-> "queued", attempts |-> 0, intents |-> {}]
    /\ manager = Idle
    /\ current = TRUE /\ crashes = 0
    /\ sent = [m \in Mutations |-> 0]
    /\ overrun = FALSE

VenueStep ==
    \/ MarketArrives \/ LimitArrives \/ LimitFills \/ CancelArrives \/ CloseArrives
    \/ PositionExits

ManageNext ==
    \/ EntryStep \/ ManagerStep \/ VenueStep
    \/ RecoverRoot \/ RecoverLegRead \/ RecoverLegWrite
    \/ SourceAges \/ StopEntry \/ StopManager

ManageSpec == ManageInit /\ [][ManageNext]_manageVars

\* The source-management loop keeps running (run_source_management) and time passes.
FairManageSpec ==
    /\ ManageSpec
    /\ WF_manageVars(ManagerStep)
    /\ WF_manageVars(SourceAges)

LegRow == [state: {"absent", "staged", "requested", "acknowledged", "partially_filled",
                   "filled", "rejected", "cancelled", "unknown"},
           filled: 0..LimitQty, terminal: BOOLEAN, cancelBy: BOOLEAN, cancelPost: BOOLEAN]

\* Type invariant of the legs' rows (live_order_intents), the venue's orders and the update.
ManageTypeOK ==
    /\ leg \in LegRow
    /\ root.filled \in 0..MarketQty
    /\ entry.mem \in LegRow /\ recovery.filled \in 0..LimitQty /\ manager.mem \in LegRow
    /\ {mkt.at, lim.at} \subseteq {"none", "sent", "open", "gone"}
    /\ Size \in 0..(MarketQty + LimitQty)
    /\ update.attempts \in 0..MaxAttempts
    /\ update.state \in Settled \cup {"queued", "claimed", "reconciliation-pending"}

\* A limit leg the database calls terminal is dead at the venue: neither resting there nor
\* still on its way.  Source management sizes its close by this, and pending_entries never
\* lists the leg again.  Whatever dispatcher, recovery and management read before they write,
\* there is one way to break it: recovery withdraws a leg that it saw staged and that the
\* dispatcher has claimed since.
TerminalLegIsDead == leg.terminal /\ ~overrun => lim.at \in Dead

\* bitget_dispatch_execution.py:532: "This definitely-unsent child is retired, never
\* exposed."  The update of _reconcile_waiting_leg asks nothing of the row it writes.
RetiredIsUnsent == leg.terminal => lim.at \in Dead

\* Through crashes, retries and lost answers no mutation is posted twice: not a leg
\* (claim_split, claim_entry_post), not the cancel (claim_cancel_post), not the close and
\* not the stop (persist_provider_intent).
MutatesOnce == \A m \in Mutations: sent[m] <= 1

\* Every update is settled in the end: executed, retired or dead-lettered (park), also when
\* a claimed close was never posted and the position stays open.
UpdateSettles == []<>(update.state \in Settled)

=============================================================================
