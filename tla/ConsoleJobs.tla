---------------------------- MODULE ConsoleJobs ----------------------------
(***************************************************************************)
(* The durable jobs of the console: the job table with its leases and      *)
(* resource locks (store.py), the decisions of the owner (commands.py),    *)
(* the worker processes (worker.py) and what an adapter does with a job    *)
(* (trading.py, operations.py, runner.py).                                 *)
(*                                                                         *)
(* Each transaction is one step and a process may stop between any two.    *)
(* A worker has one job at a time and every claim draws a new token, so    *)
(* the worker's name stands for the token of its claim.  The checks of     *)
(* sessions, consent, expiry and previewed resources can only refuse a job *)
(* and a refusal is final, so a refusal is possible at every check.        *)
(***************************************************************************)
EXTENDS Naturals

CONSTANTS
    Jobs,
    Asks,          \* [Jobs -> SUBSET Action]: the actions a job may ask for
    Resources,
    Workers,
    Serves,        \* [Workers -> SUBSET Adapters]: the handlers of a worker process
    Nobody,        \* the null of lease_token and of a resource lock
    MaxFaults      \* bound: processes that stop in the middle of a job, and leases that
                   \* lapse while their holder is at work

\* Records of the console; three sorts of trades: the closes (position.*), proved by the
\* fills of their own order, entry.cancel_owned, and the others, which are settled by what
\* is seen of rows, orders and plans; and two sorts of host operations: service.stop, whose
\* result can be seen, and those that leave nothing to observe.
HostAdapters == {"host", "stop"}
Trades == {"close", "cancel", "seen"}
Adapters == {"record"} \cup Trades \cup HostAdapters
SightAdapters == {"cancel", "seen", "stop"}
Action == [adapter: Adapters, needs: SUBSET Resources]

ASSUME JobsAssumption ==
    /\ Asks \in [Jobs -> SUBSET Action]
    /\ Serves \in [Workers -> SUBSET Adapters]
    /\ Nobody \notin Jobs \cup Workers
    /\ MaxFaults \in Nat

VARIABLES
    job,       \* table console_jobs
    older,     \* the order of updated_at: <<j, k>> if j was updated before k
    lock,      \* table console_resource_locks: the job that holds a resource
    worker,    \* what each worker process holds
    ledger,    \* the adapter's own record of a job: intent, host journal, receipt
    air,       \* trades whose request is still on its way
    rests,     \* the venue: jobs whose entry order, which they are to cancel, rests
    lapses,
    done       \* history: how often the effect of a job took place

jobVars == <<job, older, lock, worker, ledger, air, rests, lapses, done>>
domain == <<ledger, air, rests, done>>

Terminal == {"succeeded", "failed", "rejected", "expired", "cancelled"}
Open == {"queued", "running", "reconciliation_pending"}
NoAction == [adapter |-> "record", needs |-> {}]
States == {"none"} \cup Open \cup Terminal
Job == [state: States, action: Action, cancel: BOOLEAN, claimed: BOOLEAN,
        token: Workers \cup {Nobody}, held: BOOLEAN]   \* held: lease_until>now()
NoJob == [state |-> "none", action |-> NoAction, cancel |-> FALSE, claimed |-> FALSE,
          token |-> Nobody, held |-> FALSE]
Entries == {"none", "claimed", "done"}   \* of an adapter's ledger
Gates == {"begin", "claim", "execute", "guard"}
Points == {"idle", "act", "report", "readback", "finish"} \cup Gates
Verdicts == Terminal \cup {"reconciliation_pending"}
Worker == [pc: Points, job: Jobs \cup {Nobody}, verdict: Verdicts]
AtRest == [pc |-> "idle", job |-> Nobody, verdict |-> "cancelled"]

Unsettled(j) == job[j].state \in Open
Kind(j) == job[j].action.adapter
BySight(j) == Kind(j) \in SightAdapters
Needs(j) == job[j].action.needs
Share(j, k) == j # k /\ Needs(j) \cap Needs(k) # {}

\* UPDATE ... SET updated_at=now(), and a settled job leaves the queue.
Touched(j, state) ==
    {p \in older: j \notin {p[1], p[2]}}
        \cup {p \in Jobs \X {j}: p[1] # j /\ Unsettled(p[1]) /\ state \notin Terminal}

-----------------------------------------------------------------------------
(* The owner *)

\* enqueue: preview_id is unique, and a repeated request only finds its receipt.
EnqueueJob(j) ==
    /\ job[j].state = "none"
    /\ \E a \in Asks[j]: job' = [job EXCEPT ![j].state = "queued", ![j].action = a]
    /\ older' = Touched(j, "queued")
    /\ UNCHANGED <<lock, worker, domain, lapses>>

\* reject.  approve would leave a queued job queued: only a job of tier 3 waits for it, and
\* enqueue refuses those.
Reject(j) ==
    /\ job[j].state = "queued"
    /\ ~job[j].claimed
    /\ job' = [job EXCEPT ![j].state = "rejected"]
    /\ older' = Touched(j, "rejected")
    /\ UNCHANGED <<lock, worker, domain, lapses>>

\* cancel: work no worker has begun ends here, the rest is asked to.  To ask again changes
\* nothing.
CancelledAs(j) ==
    IF job[j].state = "queued" /\ ~job[j].claimed THEN "cancelled" ELSE job[j].state

Cancel(j) ==
    /\ Unsettled(j)
    /\ ~job[j].cancel
    /\ job' = [job EXCEPT ![j].cancel = TRUE, ![j].state = CancelledAs(j)]
    /\ older' = Touched(j, CancelledAs(j))
    /\ UNCHANGED <<lock, worker, domain, lapses>>

\* reconcile: wakes a pending readback before its ten seconds are over.
Wake(j) ==
    /\ job[j].state = "reconciliation_pending"
    /\ job[j].held
    /\ job' = [job EXCEPT ![j].held = FALSE]
    /\ older' = Touched(j, job[j].state)
    /\ UNCHANGED <<lock, worker, domain, lapses>>

-----------------------------------------------------------------------------
(* Claim and settlement *)

\* owned_job: the fence of every write of a worker.
OwnedJob(w) ==
    LET r == job[worker[w].job]
    IN  r.token = w /\ r.held /\ r.state \in {"queued", "running"}

\* The WHERE of claim_job, by updated_at.
Due(w) == {j \in Jobs: Unsettled(j) /\ ~job[j].held /\ Kind(j) \in Serves[w]}

Recovering(j) ==
    job[j].state # "queued" \/ job[j].token # Nobody \/ job[j].claimed

\* _lock_resources raises ResourceBusy.
Busy(j) ==
    \E r \in Needs(j): lock[r] \notin {Nobody, j} /\ job[lock[r]].state \notin Terminal

\* Fault: the effect of a lost worker is carried out again.
ResumedAgain(j) == IF Recovering(j) THEN "execute" ELSE "begin"

\* process_job: where the holder of a new claim begins.  What was claimed before is only
\* read back, and what was lost before its effect is cancelled.
Resumed(j) ==
    CASE ~Recovering(j) -> "begin"
      [] Recovering(j) /\ job[j].claimed -> "readback"
      [] OTHER -> "finish"

\* Fault: a busy job keeps its place in the queue.
PutBackFirst(j) == older

\* A busy job goes to the end of the queue.
PutBack(j) == Touched(j, job[j].state)

\* claim_job and the first step of process_job.
ClaimJob(w) ==
    \E j \in Due(w):
        /\ worker[w].pc = "idle"
        /\ \A k \in Due(w): <<k, j>> \notin older
        /\ IF Busy(j)
           THEN /\ job' = [job EXCEPT ![j].token = Nobody, ![j].held = FALSE,
                      ![j].state = IF Recovering(j) THEN "reconciliation_pending" ELSE "queued"]
                /\ older' = PutBack(j)
                /\ UNCHANGED <<lock, worker>>
           ELSE /\ job' = [job EXCEPT ![j].token = w, ![j].held = TRUE,
                      ![j].state = IF Recovering(j) THEN "running" ELSE "queued"]
                /\ older' = Touched(j, "running")
                /\ lock' = [r \in Resources |-> IF r \in Needs(j) THEN j ELSE lock[r]]
                /\ worker' = [worker EXCEPT ![w] =
                      [pc |-> Resumed(j), job |-> j, verdict |-> "cancelled"]]
        /\ UNCHANGED <<domain, lapses>>

\* Fault: a job whose outcome is open gives its resources back.
FreesAll(state) == TRUE

\* finish_job deletes the locks of a settled job only.
Frees(state) == state \in Terminal

\* finish_job, and LostLease when the job is no longer this worker's.
Finish(w) ==
    LET j == worker[w].job
        state == worker[w].verdict
    IN  /\ worker[w].pc = "finish"
        /\ IF OwnedJob(w)
           THEN /\ job' = [job EXCEPT ![j].state = state, ![j].token = Nobody,
                      ![j].held = (state = "reconciliation_pending")]
                /\ lock' = [r \in Resources |->
                      IF lock[r] = j /\ Frees(state) THEN Nobody ELSE lock[r]]
                /\ older' = Touched(j, state)
           ELSE UNCHANGED <<job, lock, older>>
        /\ worker' = [worker EXCEPT ![w] = AtRest]
        /\ UNCHANGED <<domain, lapses>>

-----------------------------------------------------------------------------
(* The steps of a worker before the effect *)

\* process_job: what becomes of a job that a check refuses or that raises.
Refusals(r) ==
    CASE r.claimed -> {"reconciliation_pending"}
      [] ~r.claimed /\ r.state = "queued" -> {"rejected", "expired"}
      [] OTHER -> IF r.cancel THEN {"cancelled", "failed"} ELSE {"failed"}

Goes(w, pc) == worker' = [worker EXCEPT ![w].pc = pc]
Ends(w, state) == worker' = [worker EXCEPT ![w].pc = "finish", ![w].verdict = state]

\* A gate that does not open.
Refuse(w) ==
    /\ worker[w].pc \in Gates
    /\ IF OwnedJob(w)
       THEN \E v \in Refusals(job[worker[w].job]): Ends(w, v)
       ELSE worker' = [worker EXCEPT ![w] = AtRest]
    /\ UNCHANGED <<job, older, lock, domain, lapses>>

\* effect_authority
Passes(w, gate) ==
    /\ worker[w].pc = gate
    /\ OwnedJob(w)
    /\ ~job[worker[w].job].cancel

\* validate_worker_start with its fresh preview, and begin_running, which asks for the same
\* authority again before it writes.
BeginRunning(w) ==
    LET j == worker[w].job
    IN  /\ Passes(w, "begin")
        /\ job[j].state = "queued"
        /\ job' = [job EXCEPT ![j].state = "running"]
        /\ older' = Touched(j, "running")
        /\ Goes(w, "claim")
        /\ UNCHANGED <<lock, domain, lapses>>

ClaimEffect(w) ==
    LET j == worker[w].job
    IN  /\ Passes(w, "claim")
        /\ job' = [job EXCEPT ![j].claimed = TRUE]
        /\ older' = Touched(j, "running")
        /\ Goes(w, "execute")
        /\ UNCHANGED <<lock, domain, lapses>>

-----------------------------------------------------------------------------
(* The adapters *)

\* OperationsHandlers.execute: the effect and its receipt in one transaction.
ExecuteRecord(w) ==
    LET j == worker[w].job
    IN  /\ Passes(w, "execute") /\ Kind(j) = "record"
        /\ done' = [done EXCEPT ![j] = @ + 1]
        /\ ledger' = [ledger EXCEPT ![j] = "done"]
        /\ Ends(w, "succeeded")
        /\ UNCHANGED <<job, older, lock, air, rests, lapses>>

\* _run: closed gates end the job before anything was sent.
GatesClosed(w) ==
    /\ worker[w].pc = "execute" /\ Kind(worker[w].job) \in Trades
    /\ Ends(w, "failed")
    /\ UNCHANGED <<job, older, lock, domain, lapses>>

\* There is nothing to do: no entry is pending, the symbol is flat, the plans stand.
NothingToDo(w) ==
    LET j == worker[w].job
    IN  /\ worker[w].pc = "execute" /\ Kind(j) \in {"cancel", "seen"}
        /\ Kind(j) = "cancel" => j \notin rests
        /\ Ends(w, "succeeded")
        /\ UNCHANGED <<job, older, lock, domain, lapses>>

\* _claim_intent, claim_cancel and claim_entry: the authority and the claim in one
\* transaction.  claim_cancel_post asks for the authority again.
ClaimIntent(w) ==
    LET j == worker[w].job
    IN  /\ Passes(w, "execute") /\ Kind(j) \in Trades
        /\ ledger' = [ledger EXCEPT ![j] = "claimed"]
        /\ Goes(w, IF Kind(j) = "cancel" THEN "guard" ELSE "act")
        /\ UNCHANGED <<job, older, lock, air, rests, done, lapses>>

\* The workers between LOCK_EX and LOCK_UN of operations.lock.
HostLocked ==
    \E w \in Workers:
        /\ worker[w].pc \in {"guard", "act", "report"}
        /\ Kind(worker[w].job) \in HostAdapters

\* HostOperationsRunner.execute, and the journal that _claim writes before it asks the database.
WriteJournal(w) ==
    LET j == worker[w].job
    IN  /\ Passes(w, "execute") /\ Kind(j) \in HostAdapters
        /\ ~HostLocked
        /\ ledger' = [ledger EXCEPT ![j] = "claimed"]
        /\ Goes(w, "guard")
        /\ UNCHANGED <<job, older, lock, air, rests, done, lapses>>

\* The rest of _claim and _effect_guard: the same check up to the command itself; and
\* claim_cancel_post.
EffectGuard(w) ==
    /\ Passes(w, "guard")
    /\ Goes(w, "act")
    /\ UNCHANGED <<job, older, lock, domain, lapses>>

\* The request or the command: it takes effect and is heard of, takes effect unheard, is
\* lost, or is given up while it is still on its way.
Act(w) ==
    LET j == worker[w].job
    IN  /\ worker[w].pc = "act"
        /\ \/ /\ done' = [done EXCEPT ![j] = @ + 1]
              /\ rests' = rests \ {j}
              /\ Goes(w, "report") \/ Ends(w, "reconciliation_pending")
              /\ UNCHANGED air
           \/ /\ Ends(w, "reconciliation_pending")
              /\ air' = IF Kind(j) \in Trades THEN air \cup {j} ELSE air
              /\ UNCHANGED <<rests, done>>
           \/ /\ Ends(w, "reconciliation_pending")
              /\ UNCHANGED <<air, rests, done>>
        /\ UNCHANGED <<job, older, lock, ledger, lapses>>

Land(j) ==
    /\ j \in air
    /\ air' = air \ {j}
    /\ rests' = rests \ {j}
    /\ done' = [done EXCEPT ![j] = @ + 1]
    /\ UNCHANGED <<job, older, lock, worker, ledger, lapses>>

\* The entry order fills, or is cancelled by somebody else.
Leaves(j) ==
    /\ Kind(j) = "cancel" /\ j \in rests
    /\ rests' = rests \ {j}
    /\ UNCHANGED <<job, older, lock, worker, ledger, air, lapses, done>>

\* The confirmation of a trade, which may fail; _finish of a host operation.
Report(w) ==
    LET j == worker[w].job
    IN  /\ worker[w].pc = "report"
        /\ \E v \in {"succeeded", "reconciliation_pending"}:
              /\ Ends(w, v)
              /\ ledger' = [ledger EXCEPT ![j] =
                    IF Kind(j) \in HostAdapters /\ v = "succeeded" THEN "done" ELSE "claimed"]
        /\ UNCHANGED <<job, older, lock, air, rests, done, lapses>>

\* reconcile of the three adapters: what a readback may find.  A receipt is proof, and a
\* close is proved by the fills of its own order.  cancel_pending_entries looks only at the
\* entry that the job has claimed and takes it for the proof that the order is terminal; the
\* others are settled by what is seen, whoever did it.
Proofs(j) ==
    IF ledger[j] = "done" THEN {TRUE}
    ELSE CASE Kind(j) = "close" -> {FALSE, ledger[j] # "none" /\ done[j] > 0}
           [] Kind(j) = "cancel" -> {FALSE, ledger[j] = "none" \/ j \notin rests}
           [] Kind(j) \in {"seen", "stop"} -> BOOLEAN
           [] OTHER -> {FALSE}

\* checkpoint and reconcile; the host's reconcile writes what it found to the journal.
Readback(w) ==
    LET j == worker[w].job
    IN  /\ worker[w].pc = "readback"
        /\ IF OwnedJob(w)
           THEN \E proved \in Proofs(j):
                  /\ Ends(w, IF proved THEN "succeeded" ELSE "reconciliation_pending")
                  /\ ledger' = [ledger EXCEPT ![j] =
                        IF proved /\ Kind(j) \in HostAdapters THEN "done" ELSE @]
                  /\ older' = Touched(j, "running")
           ELSE /\ worker' = [worker EXCEPT ![w] = AtRest]
                /\ UNCHANGED <<ledger, older>>
        /\ UNCHANGED <<job, lock, air, rests, done, lapses>>

-----------------------------------------------------------------------------
(* Failure and time *)

StopWorker(w) ==
    /\ lapses < MaxFaults
    /\ worker[w].pc # "idle"
    /\ lapses' = lapses + 1
    /\ worker' = [worker EXCEPT ![w] = AtRest]
    /\ UNCHANGED <<job, older, lock, domain>>

AtWork(j) == job[j].token # Nobody /\ worker[job[j].token].job = j

\* The lease of a process that is gone, or the ten seconds before a readback.
LapseLease(j) ==
    /\ job[j].held
    /\ ~AtWork(j)
    /\ job' = [job EXCEPT ![j].held = FALSE]
    /\ UNCHANGED <<older, lock, worker, domain, lapses>>

\* _renew was too late, or could not reach the database.
Outlive(j) ==
    /\ lapses < MaxFaults
    /\ job[j].held
    /\ AtWork(j)
    /\ lapses' = lapses + 1
    /\ job' = [job EXCEPT ![j].held = FALSE]
    /\ UNCHANGED <<older, lock, worker, domain>>

-----------------------------------------------------------------------------
JobsInit ==
    /\ job = [j \in Jobs |-> NoJob]
    /\ older = {}
    /\ lock = [r \in Resources |-> Nobody]
    /\ worker = [w \in Workers |-> AtRest]
    /\ ledger = [j \in Jobs |-> "none"]
    /\ air = {}
    /\ rests = {j \in Jobs: \E a \in Asks[j]: a.adapter = "cancel"}
    /\ lapses = 0
    /\ done = [j \in Jobs |-> 0]

WorkerStep(w) ==
    \/ ClaimJob(w) \/ Finish(w) \/ Refuse(w) \/ BeginRunning(w) \/ ClaimEffect(w)
    \/ ExecuteRecord(w) \/ GatesClosed(w) \/ NothingToDo(w) \/ ClaimIntent(w) \/ WriteJournal(w)
    \/ EffectGuard(w) \/ Act(w) \/ Report(w) \/ Readback(w)

JobStep(j) ==
    \/ EnqueueJob(j) \/ Reject(j) \/ Cancel(j) \/ Wake(j)
    \/ Land(j) \/ Leaves(j) \/ LapseLease(j) \/ Outlive(j)

JobsNext ==
    \/ \E w \in Workers: WorkerStep(w) \/ StopWorker(w)
    \/ \E j \in Jobs: JobStep(j)

\* The loop of run_console_worker goes on, a process that stopped is started again, and
\* time passes.
JobsFairness ==
    /\ \A w \in Workers: WF_jobVars(WorkerStep(w))
    /\ \A j \in Jobs: WF_jobVars(LapseLease(j))

JobsSpec == JobsInit /\ [][JobsNext]_jobVars /\ JobsFairness

-----------------------------------------------------------------------------
(* Correctness *)

\* Type invariant.
JobTypeOK ==
    /\ job \in [Jobs -> Job]
    /\ older \subseteq Jobs \X Jobs
    /\ lock \in [Resources -> Jobs \cup {Nobody}]
    /\ worker \in [Workers -> Worker]
    /\ ledger \in [Jobs -> Entries]
    /\ air \cup rests \subseteq Jobs
    /\ done \in [Jobs -> Nat]

Effects(j) == done[j] + (IF j \in air THEN 1 ELSE 0)

\* The errand a job is, for the owner who reads its state.
VerdictOf(j) ==
    CASE job[j].state = "none" -> "none"
      [] job[j].state \in Open -> "open"
      [] job[j].state = "succeeded" -> "good"
      [] OTHER -> "bad"

EffectOf(j) ==
    CASE Effects(j) = 0 -> "no"
      [] Effects(j) = 1 -> IF j \in air THEN "sent" ELSE "yes"
      [] OTHER -> "again"

Promise == INSTANCE Errand WITH
    Errands <- Jobs,
    verdict <- [j \in Jobs |-> VerdictOf(j)],
    effect  <- [j \in Jobs |-> EffectOf(j)],
    bySight <- [j \in Jobs |-> BySight(j)]

\* Every job is an errand and keeps its promise, however often its lease is lost, its worker
\* dies or it is cancelled: the effect at most once, the verdict final, and of a record, a
\* close and a host operation the effect only while the job is open and the verdict true
\* (claim_effect, owned_job, finish_job, reconcile).  What was settled by sight may succeed
\* without its own effect, or before it.
JobIsErrand == Promise!ErrandSpec

\* No effect takes place while another job on the same resource is claimed and its outcome
\* open (_lock_resources keeps the locks of pending jobs).  A job that was settled by sight
\* before is the exception: its request, or the worker that lost it, may still be on the way.
EffectsAreSerial ==
    [][\A j, k \in Jobs:
          (done'[j] > done[j] /\ Share(j, k) /\ ~(BySight(j) /\ job[j].state = "succeeded"))
            => ~(Unsettled(k) /\ job[k].claimed)]_jobVars

Blocked(j) == \E k \in Jobs: Share(j, k) /\ Unsettled(k) /\ job[k].claimed

\* Jobs move on.  A queued job is taken up unless a job on its resources has an open
\* outcome, whatever other jobs are put back or pending (claim_job by updated_at); and one
\* whose receipt or journal says done ends succeeded, even if the worker that wrote it is
\* gone and others were in front of it.
JobsMoveOn ==
    /\ []<>(\A j \in Jobs: job[j].state = "queued" => Blocked(j))
    /\ []<>(\A j \in Jobs: ledger[j] = "done" /\ Kind(j) \in {"record", "host"}
                            => job[j].state = "succeeded")

\* docs/BOT-CONSOLE-UI-API-SPEC.md:278: "Proved terminal order outcome; cancellation job can
\* succeed only for its exact requested IDs".  A cancellation whose worker is lost after
\* claim_effect and before claim_cancel has claimed no entry, and its readback skips what it
\* has not claimed.
CancelledIsTerminal ==
    \A j \in Jobs: job[j].state = "succeeded" /\ Kind(j) = "cancel" => j \notin rests

====
