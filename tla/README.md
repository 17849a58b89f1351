# TLA+ verification of the Fatty multi-exchange trader

The program turns Telegram signals into leveraged Bitget entries and keeps those
positions protected. Its core is a set of processes (dispatcher, reconciliation
monitor, console worker, protection watchdog, intake, analyzer, notifier) that share
one PostgreSQL database and one exchange account, without talking to one another.
What makes it hard is what lies between two transactions: a POST whose answer is
lost, a lease that lapses while its holder works, a row read before an `await` and
written after it, a process that dies between two commits.

Paths below are relative to `src/src/fatty_trader/` unless they start with `docs/`,
`scripts/` or `README.md`.

## 1. Inventory

| Component | State | Operations | Correct when |
|---|---|---|---|
| Margin ledger (`storage/balance_reservations.py`, `intake/freshness.py`) | `bitget_margin_reservations` | reserve, resolve, release_verified_close, expire, escalate | one active row per symbol; a fill keeps its margin until a verified close |
| Dispatcher (`execution/bitget_dispatcher.py`, `bitget_dispatch_repository.py`) | `dispatches` with leases | claim, gates, preflight, CAS transitions | a signal is executed at most once and only while fresh |
| Entry execution (`execution/bitget_dispatch_execution.py`, `exchanges/bitget/async_execution.py`) | `live_order_intents` | claim, vetoes, POST, readback, protection | one POST per client order id; margin held while an order may exist |
| Recovery (`bitget_dispatch_execution.py`, `bitget_protection_recovery.py`, loop in `service.py`) | readiness, issues | list, read back, settle, retire orphans, inventory | nothing ambiguous is forgotten, nothing settled blocks |
| Monitor (`execution/bitget_monitor.py`, `storage/reconciliation.py`, `storage/verified_closes.py`, `exchanges/bitget/native_close.py`, `provider_fill_reconciliation.py`) | the same rows, bindings, fills | intent pass, exit binding, verified release, health, latches | never contradicts the workers; frees closed margin, and only closed margin |
| Native protection (`execution/protection.py`, `async_execution.py`, `reconciliation_live.py`, `storage/protection_capabilities.py`) | plan intents, capability row | place, confirm, grace, repair, rotate, contain | a verdict is what the venue showed; admission follows the latest word of the stream |
| Local stops (`bitget_fallback_protection.py`, `bitget_protection_stream.py`) | fallback rows, the engine's copy | register, move, trigger, close | a position lifetime is closed once and never left unprotected |
| Latches (`storage/reconciliation.py`, `storage/bitget_live_latch_recovery.py`, `execution/latch_healer.py`, `bitget_protection_watchdog.py`) | kill switch rows, counters | latch, approve, release, heal | closed on trouble, opened on health alone |
| Stream link (`exchanges/bitget/websocket_v2.py`, `websocket.py`) | two sockets, timestamps | connect, login, subscribe, heartbeat, judge, reconnect | called fresh only when alive |
| Intake and analyzer (`intake/`, `analyzer/`) | messages, revisions, signals | persist, edit, catch up, heal, batch, publish | one trade per message; nothing said is lost or denied |
| Source management (`execution/source_management.py`, `operator/bitget_gateway.py`) | management updates, cancel fences | breakeven, partial close, cancel | a cancel and a POST of one leg exclude each other; a terminal leg is dead; nothing is done twice |
| Outbox and web push (`notifications.py`, `web_push.py`, `notification_service.py`) | outbox, push ledger, subscriptions | claim, deliver, retry, dead-letter | every card that can be rendered ends sent or failed, and "sent" is true |
| Console jobs (`console/store.py`, `worker.py`, `trading.py`, `operations.py`, `runner.py`) | jobs, locks, receipts | claim, begin, effect, read back, settle | an effect at most once, and a final verdict, true where it is not settled by sight |
| Console access (`console/auth.py`, `commands.py`, `api.py`) | sessions, previews, grants | login, refresh, preview, confirm, consent, authorize | no effect without the consent it was shown for; a session that is over has no pending authority |
| Console reads (`console/reads.py`) | snapshots, epochs | collect, stop, bind, show | a trade shown as protected was, when it was last read in full |
| Sizing (`risk/`, `execution/entry_routing.py`, preflight in `service.py`) | none | align, route, walk leverages, quantise, guard | caps, steps and cushions respected |
| Paper lane (`kaka/`) | paper trades, journal | batch, classify, apply | the ledger is what its journal says |
| Approved baseline, operator bot, worker health, REST client, migrations, front end | own tables or none | | not modelled, or only through their effect (`PROJECT.json`) |

Processes interact only through rows and through the exchange. Writers of one row:
the dispatcher and every console worker write reservations, intents and dispatches;
the monitor writes intents and releases reservations; operators write latches and
pauses; lanes, console and source management write the rows of the local stops.
`PROJECT.json` lists every hazard at its line.

## 2. Plan

Done: the ledger and its proofs; the life of an entry, which refines the ledger; the
split entry with source management; local stops and native plans; the accounts of a
close; the two latches, and the stream link whose verdict one of them follows; intake
and analyzer; outbox; console jobs, which refine `Errand`, access and reads; sizing;
the paper lane. Theorems: section 5.

Left, in this order:

1. A proof of the entry's margin and of the position cap that says which process the
   margin may be lost to. With a second process or a POST that its readback overtakes
   they do not hold, so a theorem about one process alone would say little of a
   deployment.
2. The partly succeeded outcome of a management job, rounding of a partial close, and
   the classic socket of the demo account.
3. Operator receipts, heartbeat supervision, the baseline.

## 3. Modules

Every module stands for the component of its head comment; `PROJECT.json` maps each
definition to its lines. Operators commented "Fault:" are plausible bugs used to show
that each property can fail; no specification uses them.

### MarginLedger

A row is `resvState[o]` (`"none"` before its INSERT), `hasExposure[o]`,
`receipt[o]` (the resolution reason names a verified close) and `holder[o]`, its
dispatch. The table is unique in the client order id, so the rows are functions on
`Oids`. An action is one committed transaction: `Reserve` and `ReserveRefused`
(a refusal for headroom still commits the expiry sweep), `Resolve` with the CASE of
the UPDATE in its order, `ReleaseVerifiedClose`, `ExpireSources`, `EscalateExpired`.
A transaction that a unique index refuses rolls back: `RowFree` and `IndexAllows`
guard it. Which rows have expired is the database clock's choice. Left out: rows
without a symbol from before the migration, and the baseline.

### EntryLifecycle

`dispatch`, `intent` and the ledger are the tables; `worker[w]` is what a process
has read and not yet written; `monitor` likewise; `venue` is the exchange; `cover`
is what protects a filled position. One action is one transaction or one provider
call, so that a crash or another process can come between any two of them.

* A worker starts with `BeginRecovery` (or `OpenManual`, a console trade), handles
  the listed candidates one at a time (`RecoverRead`, `RecoverStore`,
  `RecoverJudge`, then `RecoverClosing`/`RecoverClosed` or `RecoverVerdict`, then
  `RecoverSettle`), retires orphans (`RetireList`, `RetireProve`, `RetireRelease`)
  and takes stock (`FinishRecovery`). The dispatcher's loop skips `run_once` when an
  issue blocks; a console worker goes on and is vetoed later.
* `Claim` leases a fresh dispatch and expires stale ones; `Gate`, `PreflightRead`,
  `Admit`, three `Advance` steps lead to SUBMITTING.
* `ClaimEntry` inserts the intent: the one worker that inserts it may POST. The
  veto runs twice, before and after the awaited leverage call. `Post`, `Respond`,
  `StoreEntry`, `SettleEntry`, `Protect`, `Finish` follow; `Ambiguous` and
  `RetainMargin` are the exception path.
* The monitor overwrites unresolved intents (`MonitorRead`/`MonitorWrite`, or
  `MonitorAtOnce`), binds exits and releases verified closes.

Abstractions: all kill-switch scopes are one flag. The canary cap, the cutover gate
and the other admission checks are one free refusal. A venue read never shows fewer
fills than an earlier one. A close is `owned` when one of this system's orders or
plans made it and its fills can be bound, `alien` otherwise; the several close
intents of a symbol are the one flag `closed`. Left out: post-fill margin
verification, the baseline, alerts and audit evidence; split entries are
`SourceManagement`'s, how a close is proved is `ExitLedger`'s.

### SourceManagement

One split entry (a quarter at the market, then a limit order for the rest) and one
update of the channel's author. The dispatcher's two POST claims, the cancel fence
that excludes them, the manager's claim with parking and deadlines and its provider
calls, and recovery of both legs. Recovery reads the limit leg and writes it in a later
transaction (`RecoverLegRead`, `RecoverLegWrite`), at any point of the dispatcher's and
the manager's work. `overrun` is a history: whether recovery withdrew a leg that it had
read as staged and that somebody has claimed since. `update` is `bitget_source_management`, the legs are
rows of `live_order_intents`. Margin and local stops are other modules'; quantities
are in thirds of the limit leg, because only "none, a part, all" matters.

### FallbackProtection

`fallback` and `closeIntent` are the tables, `position` and `order` the venue,
`lane[l]` what the REST monitor or the stream engine holds across an `await`,
`cache` and `fence` the engine's copy of the rows and its pending set, `sighting`
what a registering process has read. Both lanes run in one event loop, so all a lane
does between two awaits is one action; registration, console and source management
are processes of their own and come between at any point. The engine's copy is at
most two seconds old in the code and arbitrarily old in the model. One symbol; a
position lifetime is an epoch, and its entry's client order id is that epoch. Rows
without a proven epoch cannot close and are left out.

### NativeProtection

One entry, whose position is epoch 1 of its symbol; the venue keeps one plan per leg,
readable some time after it was placed. A call of `protect_filled_position` goes
through placement claims, POSTs whose answer may be lost, the exact confirmation
with its grace, rotation, and the fall back to a local stop with its ownership proof.
The capability row and its admission gate are written whole by the caller
(`Upserted`) and its stream state by the watchdog. The console's repair is a job of
its own. Left out: margin arithmetic of a repair.

### ExitLedger

How the close of one filled entry is accounted for: CLOSE rows and their bindings,
the fills table, the release of the margin, the settlement of the dispatch. A
position is closed by a plan that the venue executes, whole or in parts
(`WholePlans`), by a requested close, or by hand. The monitor walks the fills while recovery resolves the same close in the
dispatcher's process; each read and each transaction is a step.

### VenueLatch and StreamLatch

`VenueLatch`: the row of the venue scope, the monitor's cycle (health checks,
latching, the release of clock latches), mismatches recorded by the other passes,
containment, and the operator's review and application of a recovery. The row keeps
no history, so `causes` does: which severe causes no operator has looked at.
`StreamLatch`: the watchdog's counters, its latch, and the healer with its cooldown
and its hourly breaker, in units of watchdog cycles; `calm` counts the healthy reports
since the latch. Left out: the watchdog's writes to capability rows (NativeProtection
has their effect), and the evidence of the operator's recovery, a free refusal.

### StreamSession

The public and the private socket of the v2 link as one run: connect, login,
subscription while the link is up or coming up, readers, heartbeat, the verdict
(`Fresh`) and the reconnect it drives. A socket can go silent without an error. Ages
are counted in ticks and stop just beyond their limit (`Older`). Left out: decoding of
frames, backoff delays, the classic socket of the demo account.

### Signals

The channel's messages and edits, the intake with redelivery, media and catch-up
(cursor and coverage are rows of their own), and analyzer batches under row locks with
one result per message and its fan-out. A text is what the code distinguishes: long,
short, management, or a caption that stands down. Parsing and the model call are a
free choice made by what the message says. The catch-up pass stores the next message and
moves the watermark in two steps, and may fail between them.

### Outbox

One row is a notification in the outbox together with its rows of the push
ledger. Each claim raises `attempts`, so the number of the claim stands for the lease
token. What a payload is (no object, filtered, a card, or one that its formatter
cannot render, with the error it is prepared for or with another) is chosen when it is
enqueued; what a card looks like is left out. Rendering comes before the call: in the
Telegram lane an error of the formatter ends the process and leaves the row claimed
(`RenderFails`), in the push lane it fails the row or drops the batch
(`PushRenderFails`). The call of a provider is a step of its own
between the claim and the mark, and answers that it took the message, that it refused,
that it timed out, or nothing at all because the answer was lost. `Stop` is the death
of the process and the exception of the push lane, which both leave rows claimed.
Two senders, because the fencing by token exists for the takeover of a lapsed lease.
Beyond `MaxClaims`, where no limit is left to reach, numbers that nobody holds are given
again, so that a row that is claimed for ever stays finite. `got` and `doubt` are
histories: what the recipient has seen, and which deliveries no
answer ever confirmed.

### Errand and ConsoleJobs

`Errand` is the promise to whoever asks for an effect on the outside world: at most
once, only between the asking and the verdict, and a verdict that is final and true. An
errand that is judged by what is seen of the world may be good before, or without, its
own effect.
`ConsoleJobs` implements it; the refinement mapping (`JobIsErrand`) reads the verdict
off the job's status and the effect off the adapters' ledgers and what is in flight.

`job` is `console_jobs`, `lock` the resource locks, `older` the order of `updated_at`,
`ledger` the adapter's own record (live intent, host journal or receipt), `air` the
trade requests still on their way, `rests` the entry orders that a cancellation is about.
Adapters differ by what their readback believes (`Proofs`). Records and host operations
have a receipt or a journal. A `close` (`position.*`) is proved by the fills of its own
order; the cancelling of entries that comes before it is left out. A `cancel`
(`entry.cancel_owned`) skips the entries that the job has not claimed
(`bitget_dispatch_execution.py:679`) and so takes a claim that was never made for
success. Everything else is `seen`: `trade.open`, `order.cancel_exact`,
`management.apply`, `protection.*` and `intent.reconcile` are settled by rows, orders and
plans, whoever wrote them; `stop` by the state of the service. The edits of a local stop
write in the transaction that asks for the authority, which the model takes apart into a
claim and an act. A worker has one job at a time and every claim draws
a new token, so its name stands for the token. `ClaimJob` is `claim_job` with the first
decision of `process_job` (`Resumed`): a fresh job is begun, one that was claimed before
is only read back, one that was lost before its effect is cancelled. Every check from
there to the effect (`Gates`) opens (`Passes`), refuses (`Refuse`), or finds the lease
lost. Sessions, consent, expiry and previewed resources can only refuse, and a refusal
is final, so a refusal is possible at every check and their state is `ConsoleAccess`'s.
Left out: `approve` (only tier 3 waits for it, and `enqueue` refuses tier 3), repeated
requests (they find their receipt), the several effects of a management job, and the
row by which a readback recognises a finished backup.

### ConsoleAccess and ConsoleReads

`ConsoleAccess`: password sessions with rotation and epochs, previews, typed consent,
grants, the job made of them and the authority it needs. A web request is three
transactions: `FindSession` looks for a valid session, `AdmitRequest` sets
`last_seen_at` and looks at the revocation only, so it brings an idle session back, and
the handler comes last. An effect has two steps: `ClearEffect` is the last check, in the
transaction that records the intent, `TakeEffect` the POST or command after its commit.
Time is a step that ends a session or a preview; a session idles out (`IdleOut`) only
where a request may still bring it back, and has otherwise ended. Left out: rate limits, the CSRF token, HTTP.
`ConsoleReads`: the collector that observes position, plans and ledger one after
another and may be stopped between any two of them (`StopCollection`: the worker's
minute, or its death), last-known snapshots when a read fails, the creation time that is bound to an
entry for good, and what the trade view concludes. All entries have one size and side,
so that size and side tell no two apart.

### Sizing

One preflight over integers: prices in small units, quantities in steps, quotients
floored or compared crosswise where the code floors or compares a Decimal. `Plan`
walks the leverages, quantises, splits, and judges; `PlanIsLegal` says what the
venue and the account ask of the orders, in their units and with operators of its own:
each order on its step and between its limits, the notional paid by margin, the stop
reached before the margin is lost. `StopCushion` and `SplitIsKept` are what the
documentation promises beyond that; they do not hold (section 6).

### PaperLane

A batch of stored rows handled in one transaction under row locks, the advisory lock
taken at the first message that means anything, classification, every change of a
trade, the journal, rollback. A text is a record of what the parser looks for. Left
out: profit and loss, the digest, how a number is found in a text.

### Compositions

`MCOneOrder`, `MCCrowd`, `MCGates`, `MCLives`, `MCSettles`, `MCErrands` and `MCConsole`
each explore several components, or several instances of one, in a single run. The
parts share no state, so a behaviour is about one of them (the variable `part`) and
their state spaces add; the fairness of each part is that of its module, applied to its
steps. The other MC modules only give values to constants.

## 4. Runs

Passing (`-workers 2`, one to four minutes each; every property is described at its
definition):

| Run | Checks | Instance |
|---|---|---|
| `one_order` | EntryTypeOK, ExposureHasMargin, LedgerSpec, OrphanMarginIsFreed; PlanIsLegal | 1 entry of 2 units, 1 crash, outages, pause, kill switch, slow monitor; 17 contracts, 60 asks, 4 prices, 3 accounts |
| `crowd` | PositionCap, EntryNeedsCoveredBook, AtMostOnePost; PaperMatchesJournal | a console worker opens 3 trades on 3 symbols into 2 slots, outages, two balances; 2 overlapping dispatchers, 2 dispatches with one order id, late POSTs; 4 paper rows, 2 workers, 1 rollback |
| `gates` | OneOwnerPerSymbol, ExposureNeedsVerifiedClose; LatchFollowsTrouble; HealNeedsHealth, LatchFollowsStream; FreshIsLive, StaleLinkIsReplaced | 3 order ids, two on one symbol, 2 dispatches; 1 mismatch, 1 restart, operators; outages, 2 heals in 8 cycles, 1 death; 1 ticker |
| `lives` | OneClosePerLifetime, ProtectedUntilFlat; LocalIsOurs, OneHolderMutates, AdmissionIsFresh, ReportIsTrue; OwnedNeverUnderstates, EndIsProven | 1 lifetime of 2 units or 2 of 1, 2 rows; 2 calls, a call and a job, a call and the stream; a plan that fills in parts, a requested close |
| `settles` | InstructionSurvives, VetoStands, MissedIsCaught; DeliveryIsHonest, RenderedRowsSettle; OwnCloseFreesMargin | 2 messages, 1 edit, 2 analyzers, 1 death; 1 notification of any kind, 1 subscription, 2 senders, 1 stop, 1 outlived lease; a requested close of 2 units in one fill or two, recovery, failing details, 1 death |
| `errands` | TerminalLegIsDead, MutatesOnce, EveryUpdateSettles; JobIsErrand, EffectsAreSerial, JobsMoveOn | 1 split entry, 1 update of 4 kinds, 2 attempts, 1 crash, recovery as slow as it likes; 2 jobs of 5 kinds on one account, 2 workers, 1 stop or outlived lease |
| `console` | CutOffStays, CutOffJobRests, EffectIsWanted; ShownProtectionIsTrue | 3 sessions, 2 previews of tiers 1 and 2, 2 keys, 2 passwords, 1 request at work beside the bot and the workers; 2 entries, 2 positions |

Violations, each a disagreement between the code and what it says of itself:

| Run | Property | What TLC shows |
|---|---|---|
| `console_race` | ExposureHasMargin | recovery of another process retires an admission that is about to be sent |
| `residual` | ResidualIsServed | after a booked target the row follows the rest of the position, and the ownership check refuses it from then on |
| `severe_latch` | SevereNeedsOperator | a mismatch and a clock fault in one cycle leave the clock's reason on the row, and the next clean cycle releases it |
| `second_enter` | OneTradePerMessage | an edit whose chart failed to download becomes a second entry when it is delivered again |
| `settled_short` | SettledIsAccounted | the closes of an earlier trade on the symbol settle a later one that was closed by hand |

Bounds. Two units are the least quantity with a partial fill. Two dispatches are the
least that compete for an order id, two workers for a lease, three trades for two
slots with one of them taken. A second crash adds nothing new to a recovery that
starts from rows alone. `Balances` holds the two limits that make headroom bind and
not bind. `crowd` permutes whole trades (dispatch, order id and symbol together) and the
two twins with their processes, which is sound because constants and properties treat
them alike. Two fallback rows are the least in which one position can be registered
twice, two epochs the least in which a position is replaced. In `gates` the breaker
(two heals in eight cycles) and the cooldown (three) both bind, and one restart
forgets either. The jobs of `errands` are a close, a cancellation or a stop against a record or a host
operation; what is `seen`, which promises less, is in the proofs. Two jobs are the least
that compete for a resource, two workers the
least in which a lost job has a successor while its first worker goes on. Sizing stays
within one decade of price scale, with one target and with gaps, ticks and allowance as
preflight leaves them; its prices lie on both sides of the entry. The actions of a part that is never alone in a run
(late answers of the venue, a console trade, the monitor between two calls) occur in
`crowd`. The close of
`settles` is this system's own request, whole or in parts, beside no plan and no hand,
since with those it may never free its margin (section 6); `lives` has plans and hands.
Deadlock is checked in `gates`; elsewhere a part may stop for good reasons
(all jobs settled, nothing left to protect, a sized order).

Fairness. The dispatcher loops forever and is restarted by Docker
when it exits, so a worker that can step does (`EntryFairness`); the monitor's write,
exit binding and verified release run on a timer. Nothing is assumed of the venue, of
operators or of clocks: an order may rest and a position stay open forever. In the
latches the monitor's and the watchdog's loops run on timers and are restarted (weak
fairness), and the database does not refuse every latch and every release for ever
(strong fairness of the two writes). The link's run task and its clock go on, and
nothing is assumed of the venue's frames. In `settles` the catch-up pass, the analyzers and the
senders run or are restarted, leases lapse and retries fall due; stops and outlived
leases are bounded, because a sender that dies in every call settles nothing, and RenderedRowsSettle
supposes that every payload can be rendered, because one that cannot ends the sender each
time; the
provider's order detail does not fail for ever (strong fairness of `VerifyFills`).
`errands` assumes that workers and the manager run and that leases and sources age, and
nothing of the owner, the venue or a readback, which may never find proof.

## 5. Proofs

Checked by TLAPS for every value of the constants that the named ASSUME of each module
allows (`LedgerAssumption`, `EntryAssumption`, `FallbackAssumption`, `JobsAssumption`
and so on: finite or arbitrary sets, `Nobody` outside them, bounds in Nat). They are
what a deployment gives: identifiers, limits and times, none of them a property of the
behaviour; TLC evaluates them in the runs. `PROJECT.json`, `theorems`, lists the
results.

**EntryLifecycleProofs, the ledger.** `LedgerInv`: types, one active row per symbol (what the partial
unique index enforces row by row), and that a row still reserved has no fill behind it,
without which a release would not be known to be free of exposure. From it
`SymbolHasOneOwner`, `FillsKeepMargin` (an action property: exposure goes only by a
verified close) and `RowsStay`.

**EntryLifecycleProofs, the entry.** The program's entry path over any number of workers, dispatches,
order ids, revisions that share an id, crashes, lapsed leases and late POSTs.
`EntryInv` adds to `LedgerInv` what the place a process has reached in the code says of
the record it holds (`WorkersFit`), the types of the rows and of what lies outside, that
an order the venue has not finished can still take a fill (`VenueInv`), and who holds the
licence to send (`SendInv`). The last one makes the theorem inductive: that no order was sent twice says nothing of a worker that stands
before its POST, so the invariant says that whoever stands there inserted the row, that
it is alone, and that the order was not sent. `OrderIsSentOnce` follows.
`EntryRefinesLedger` shows that every step of dispatcher, recovery and monitor is, on
the reservation table, one transaction of `MarginLedger` or none; hence
`EntryKeepsOneOwner` and `EntryKeepsFillMargin` for the program, not only for the ledger.

**EntryLifecycleProofs, sizing.** `PlansAreLegal` needs little of the state (`SizingInv`:
what the first checks let through is a request, a contract and prices) and much of
arithmetic: quotients and roundings never exceed what they are taken of
(`DownToIsBelow`), rounding a rounded price changes nothing (`NearestIsStable`), so the
quantity bought is paid by the margin (`AffordableIsPaid`), the search's ratios and
quanta say what PlanIsLegal says of money and orders (`RatioIsMoney`,
`LegalStopsOut`, `LegalIsTaken`), the maintenance tier it picks is the venue's
(`TiersAgree`), an attempt at a leverage is
legal when it is usable (`UsableAttempt`), the walk over the leverages takes one that is
(`SelectedIsUsable`, by the greatest element of a bounded set), and a plan that is legal
as a split passes the second check of its children in preflight (`LegalIsRouted`).

**ChannelProofs, intake and analyzer.** `SignalsInv` says that a batch holds rows that are
still RECEIVED and no other analyzer's, so a commit writes over no one; that where two
stored revisions of a message differ, some revision of the message is marked as edited,
whichever came first (`OneVoice`); and that a dispatch is of a stored revision. `InstructionsSurvive` is
one of its parts. `VetoHolds`, an action property, follows from `OneVoice`: what is taken up
has no sibling marked as edited.

**ChannelProofs, source management.** `ManageInv` ties each mutation to the one place of the
code that may post it and to what was persisted before: a cancel to its fence on the
leg's row (`CancelPosted`), a close and a stop to their intents (`Intended`), the two
entry orders to the dispatcher's place (`Posted`); before the split is claimed there is
nothing to read back or cancel (`Unsplit`). `NoMutationTwice` follows. That a leg which is
terminal in the database is dead needs that a staged leg was never posted (`Staged`), and
that a copy which recovery read as staged is written over a leg that is still staged, is
terminal already, or was claimed in between. The last is `overrun`, which the code names
in a comment and does not exclude (section 6); the theorem is about all other ways to
read one state and write in another.

**FallbackProofs.** `FallbackInv` says how rows, close intents, orders and lanes fit
together, and what a read made long ago still bounds. A lane's copy of a row may be of
any age, but the row is still of the lifetime the copy names and a close it shows as sent
stays sent (`IsCopy`); of the position a lane `Saw`, there can only be less now. A
lifetime is `Gone` once it is over or something of its position was closed; a row given
up after its close went out is of a lifetime that is `Gone`. Ownership asks for the whole
quantity of the position, so a lane that may still claim does not own it when another row
of the lifetime has sent its close (`TooLate`): there is no second close
(`CloseIsSentOnce`). `StopStaysUntilFlat` uses the same bound: a lane that cancels or
closes a row has seen its position flat.

**ConsoleJobsProofs.** `JobsInv` says, for every job, that nothing happened before its
claim, that a bad verdict is never given to a job somebody may still carry out, that a
trade on its way keeps its job open, and that a job that is held or open keeps its
resources; and for every worker, that the licence to carry out an effect is one
worker's, and that what a worker with a valid token is about to write is true, unless the job is settled by
sight. The
licence outlives the lease (a worker that lost it may still act), which is why it is
tied to the place in the code and not to the token. Every step then moves one job
(`OneJobMoves`); `JobKeepsPromise` maps it to a step of `Errand`, and `EffectsInTurn`
follows since two jobs with an open outcome cannot both hold a resource. A job settled by
sight is mapped to an errand that is: its worker, or its request, may still be on the way
when it is given out as succeeded, which is why `EffectsAreSerial` exempts it then.

**NativeProtectionProofs.** A call is a chain of steps between which anything may happen,
so the invariant is of two kinds. `NativeInv` says what the place of a call says of its
record, that the legs of an entry are posted by one call and the emergency row has one
holder, and that no copy of the capability row, however old, is ahead of the stream's
latest event. What a single step may do is the relation `GoodMove`; every action is one.
`LocalLaneIsOurs`, `OneCallMutates` and `StreamAdmitsOnEvents` follow from the invariant,
and `VerdictsAreTrue` from the step: a verdict of venue protection is written in the step
that reads the plans it is about.

**OutboxProofs.** A duplicate is counted key by key: what arrived, and every sender that
may still make the call for the key, are together at most one more than the occasions on
which a sender could not know (`Covered`). The one is spent by the claim, so it is there
again only while the row's claim has a holder that is sure of a delivery (`Sure`); a row
that can be claimed has none left. Claims are numbered by their row, and a number has one
holder. A row that is missing was never written, or belongs to a settled card nobody is
about to fan out (`Dead`), which is what `prune_finished` looks at before it deletes;
without that, a pruned push could be written and sent again. `DeliveryStaysHonest`
follows.

**StreamProofs.** A fresh verdict is given of live sockets only
(`FreshLinkIsLive`: the ages of the last frame bound the silence, through reconnects and
late subscriptions), and a stream latch heals only after the run of healthy reports that
its reason asks for, all later than the latch (`HealIsEarned`: the healer's own count
never exceeds the reports since).

**ConsoleProofs.** Access (`AccessInv`): sessions are numbered in the order of their
creation, so neither a login nor a consent gives a number that had an end a new life; a
preview and the job it became name each other, which no transaction undoes; and a spent
consent paid for a job of its own preview. `SessionsStayCutOff` needs one thing more,
that every login ends the sessions of another password: without it an old password that
comes back would revive them. What brings an idle session back is a request that was
found valid before, and nothing else is exempted. `EffectsAreWanted` follows the bindings
from the request to the effect, over the transactions between them, and
`CutOffJobsRest` that an ended session can answer no check. Reads (`ReadsInv`): a proof
that a reader may use is of the collector's round that came to its end last, because a
round without the positions marks the proofs as last known, one without the plans confirms
none, and one that is stopped puts none; and plans counted as whole are those that rested
when they were read. `ShownIsTrue` follows.

**ChannelProofs, paper lane.** The database does not keep a symbol from being open
twice; a lock taken in the middle of a transaction does. So the invariant (`PaperInv`) is
about transactions that have not committed: a worker that has not taken the lane has
written no trade and noted only quiet entries, which neither open, add nor close; at most
one worker has the lane; and what its holder sees, the tables with its own writes laid
over them, is one `Story`: a trade for every OPEN recorded, a leg for every addition, an
end for a closing entry and for nothing else, no symbol open twice. What other workers
commit in the meantime is quiet, so it leaves the story of the holder as it is, and it
cannot carry the key of a loud entry, so `ON CONFLICT DO NOTHING` drops nothing that
counts when the holder commits. `LedgerMatchesJournal` is the story of the committed
tables. Which pattern a text fits is not needed: the proof takes any event the parser may
give.

Only model-checked: liveness and everything that rests on fairness or ENABLED; the sums of
`ExitLedger`, on which OwnedNeverUnderstates and EndIsProven rest, since what a fold
computes for every input takes an induction theorem that no prover here can use; and what
relates the ledger to the venue (ExposureHasMargin, PositionCap, EntryNeedsCoveredBook),
which holds of some deployments and not of others: a second process that recovers, or a
POST that its readback overtakes, breaks it (`console_race`; section 6), so the runs show
it where it holds and no theorem claims it.

## 6. Observations

What modelling showed beyond the checked properties. None of these is claimed to be a
defect; each is a place where the strongest statement one might make is not true of
the code, most of them seen with TLC while a run's conditions were found.

Entries. ExposureHasMargin needs one process and no late POST: the readback of a
timed-out POST that reaches the venue later finds no order and releases the margin.
That the margin of an entry that is over comes back in the end holds of a
dispatcher alone only: the monitor rejects an unknown entry and recovery then skips it, a
console claim vetoed by a pause or its expiry is rejected and keeps its margin, and a
crash after CLOSED leaves the row unknown. OrphanMarginIsFreed, the margin with no order
behind it, holds beside the monitor. The stored reason of a flat, unproven close comes back as
`unresolved-protection` and blocks the dispatcher's loop, although no position is open.
A worker's older readback can erase a fill the monitor has committed since.

Split entries. Recovery may read a leg as staged, the dispatcher claim and post it, and
recovery then write it as cancelled: the row is terminal, the order rests
(`MCRetiredLeg.cfg`). `overrun` marks this one case in TerminalLegIsDead.

Local stops. The stream lane can close at a stop that was moved within its copy's age,
and a stale `active` copy with a flat read overwrites `closing` with `cancelled`.

Native plans. A stop moved by the console during the grace leads to a local row with
the old stop. A crash between the upsert of UNSUPPORTED with `fallback_allowed` TRUE
and the second with FALSE (`exchanges/bitget/async_execution.py:672`) leaves admission
allowed without an enforcer. The new plan ids of a repair are never stored on the plan
intents. The whole-row write of the capability record can undo a change of
`stream_state`; AdmissionIsFresh bounds what that may do.

Closes. The update of a native close never writes `requested_qty`, so a plan close that
was seen in two parts is never released (`MCPlanParts.cfg`). A race or a
crash between the claim and the update of a native close counts the fill twice, and its
binding then fails for ever. An order detail that cannot be read once, while the position
looks closed by somebody else, marks it as an external close. A close that recovery
cancelled as unknown may have executed. A requested close that fills in part while a plan takes
the rest is never verified. A transient failure of the order detail lets the provider
exit path book first. `settle_absent` cancels a close whose outcome is unknown and that
may have executed. Recovery's CLOSED leaves the reservation consumed.
`OwnedQuantityEvidenceError` is not caught by `recover()`.

Sizing. A split that cannot be placed is sized again at `normalized_entry`
(`service.py:899`) and sent at the market (`MCSplitKept.cfg`), so a LONG may use more than the cap and its
stop may fail the guard at the fill. The liquidation guard keeps a tenth of the span and
no distance from the stop (`MCCushion.cfg`). A SHORT split is valued at the higher of market and
entry, which is not the conservative side for its liquidation
(`risk/live_policy.py:31`). The comment at `risk/live_policy.py:478` ("larger margin
cannot help") does not hold when a lower leverage fails only the least notional. A manual
limit entry carries the route of a market entry (`service.py:924`) and skips the checks
of a limit child.

Stream link. The private login's answer is awaited without a timeout and the transport
sends no pings of its own (`exchanges/bitget/websocket.py:67`), so a socket that falls
silent during login holds up `connect`: the link stays not fresh and never heals by
itself. Frames that arrive while events are handled are dropped when the verdict is
stale. The death of the public socket goes unnoticed while no ticker is wanted. A
symbol added while the link comes up is served after the next reconnect. A private frame
before the first ticker makes a fresh link stale.

Notifications. A payload that its formatter cannot render ends the sender, keeps its
claim, and ends the sender again whenever its lease lapses; it is never failed
(`MCPoisonCard.cfg`). In the push lane an unexpected error drops the batch each time.

Intake and analyzer. A database error in the analyzer's re-enrolment rolls the batch
back. `scripts/requeue_late_signal.py` clears the rejection without looking again. Edits
of covered messages that happen while the session is down are never seen. A row that
goes stale before it is selected stays RECEIVED.

Console. A job that was claimed and then refused before its adapter recorded anything (a
cancellation, a closed session, a crash) stays `reconciliation_pending` for ever and
keeps its locks, so every later job on the account waits; JobsMoveOn has to allow for
it. A job lost before its effect ends `cancelled` (`console/worker.py:72`), where
`docs/BOT-CONSOLE-UI-API-SPEC.md:266` says that "worker lease loss is not cancellation".
A stop is settled by what is seen, so the worker that lost it may still run the command
beside the next job. Telegram's /confirm sends no approval reference, so a preview of
tier 2 is always refused there. Consent rotates the session and refuses jobs queued
under it earlier; approving a queued job from its own session ends it. A password change
without a login leaves jobs of the old epoch authorized and shuts the web's door only as
long as it is deployed. A session that ends between the last authority check and the POST
or command comes too late (`docs/BOT-CONSOLE-UI-API-SPEC.md:198`: "Logout/revocation
invalidates ... pending authority"). A request that found its session valid before it idled out brings it back. A
cancellation may succeed with its order at rest (`MCLostCancel.cfg`), a management job on
a flat symbol without an effect of its own. Event ids of the job stream
come from a sequence while transactions commit in another order
(`console/store.py:216`; `docs/BOT-CONSOLE-UI-API-SPEC.md:306`). A position that is
closed and replaced between two reads binds its creation time to the entry before
(`MCForeignEpoch.cfg`), and a collection that was stopped shows new plans beside an old
proof (`MCStaleProof.cfg`); ShownProtectionIsTrue speaks of the collection that came to
its end. The newest snapshot's identity row is chosen by the order of random ids.

Paper lane. STOP_HIT and OPEN look up the market price first, and a close event without
a market price is refused and counted as analyzed, so the trade stays open. SKIP LOCKED
lets a second worker handle a later message first. Any earlier event of a message,
noise included, silences its later revision.

### Further counterexamples

Each of these configurations makes TLC violate one property that a document or a comment
of the repository states. They are not among the runs of section 4; `tlc -config X.cfg M`
shows them.

| Configuration, module | Property | What is said | What the code does |
|---|---|---|---|
| `MCCushion`, MCSizing | StopCushion | `README.md:131` "Entry is rejected if estimated liquidation price is within 1.5% of the stop-loss price." | `minimum_liquidation_gap_pct` is zero by default (`domain/models.py:97`, `config/bitget.py:73`, `risk/live_policy.py:324`) and preflight sets only the buffer (`service.py:859`) |
| `MCSplitKept`, MCSizing | SplitIsKept | `docs/TRADING-RULES.md:9` "Do not silently convert the split into a full-market order"; `docs/OPERATIONS.md:200` "no approximate split or full-market fallback is invented" | preflight sizes the split again as one market order (`service.py:877`), as `README.md:65` says |
| `MCPoisonCard`, Outbox | EveryRowSettles | `notifications.py:59` "The claimed malformed payload was durably retired, not delivered." | only payloads that are no object are; the formatter's errors leave `run_once` (`notifications.py:303`, `:355`) |
| `MCPlanParts`, ExitLedger | FlatFreesMargin | `README.md:132` "When Bitget confirms a position is flat [...] frees margin" | `requested_qty` keeps the first part (`exchanges/bitget/native_close.py:317`) and `storage/verified_closes.py` then finds the fills unequal |
| `MCLostCancel`, MCErrands | CancelledIsTerminal | `docs/BOT-CONSOLE-UI-API-SPEC.md:278` "cancellation job can succeed only for its exact requested IDs" | the readback skips entries the job has not claimed and returns true (`execution/bitget_dispatch_execution.py:679`, `:744`) |
| `MCRetiredLeg`, SourceManagement | RetiredIsUnsent | `execution/bitget_dispatch_execution.py:532` "This definitely-unsent child is retired, never exposed." | the update asks nothing of the row it writes |
| `MCStaleProof`, MCConsole | ShownByItsPlans | `docs/BOT-CONSOLE-UI-API-SPEC.md:46` "Missing, malformed, stale, or failed reads must never prove ... protection" | a collection that is cancelled (`console/worker.py:274`) between `console/reads.py:2447` and `:2466` leaves the proof before it in use |
| `MCForeignEpoch`, MCConsole | BoundEpochIsOwn | `docs/TRADING-RULES.md:95` "Immutable provider epochs can be recorded only from initial owned entry readback or already-proved native/fallback ownership" | `console/trading.py:817` binds the position it reads, whoever opened it |

## 7. Not modelled

See `PROJECT.json`, `components`. Never: HTTP signing and pacing, parsing of texts,
formatting, the front end, migrations. Later: the plan's open items.
