-------------------------- MODULE ConsoleJobsProofs --------------------------
(***************************************************************************)
(* Proofs about the console's durable jobs, for any jobs, workers,         *)
(* resources and actions: a job is an errand that keeps its promise        *)
(* (Errand), and effects on shared resources are serial.                   *)
(***************************************************************************)
EXTENDS ConsoleJobs, TLAPS

\* Verdicts that say the effect did not take place.
Bad == Terminal \ {"succeeded"}

\* The places from which the effect of a job can still be begun or carried out.
LicensePoints == {"execute", "guard", "act"}
Licensed(w, j) == worker[w].job = j /\ worker[w].pc \in LicensePoints

\* The effect did not take place and will not, unless a worker gets the licence.
Clean(j) == done[j] = 0 /\ j \notin air /\ \A w \in Workers : ~ Licensed(w, j)

\* The effect took place, or its result can be seen.
Shown(j) == done[j] = 1 \/ BySight(j)

\* The effect takes place at most once.  Before its claim nothing has happened; a bad verdict
\* is never given to a job that anybody may still carry out; a trade on its way keeps its job
\* open, unless it was settled by what was seen; and a job that is held by a worker, or whose
\* outcome is open, keeps its resources.
JobOK(j) ==
    /\ done[j] \in {0, 1}
    /\ j \in air => /\ done[j] = 0 /\ Kind(j) \in Trades
                    /\ Unsettled(j) \/ (job[j].state = "succeeded" /\ BySight(j))
    /\ job[j].state = "none" =>
           ~ job[j].claimed /\ ~ job[j].held /\ job[j].token = Nobody
    /\ ~ job[j].claimed => Clean(j) /\ ledger[j] = "none"
    /\ job[j].state \in Bad => Clean(j)
    /\ job[j].state = "succeeded" => Shown(j)
    /\ ledger[j] = "done" => Shown(j)
    /\ Unsettled(j) /\ (job[j].claimed \/ job[j].token # Nobody) =>
           \A r \in Needs(j) : lock[r] = j

\* A worker before the claim that still has its token knows that the job is not claimed.  The
\* licence is one worker's.  What a worker that has its token is about to write is true.
WorkerOK(w) ==
    LET j == worker[w].job
    IN  /\ worker[w].pc # "idle" => j \in Jobs /\ job[j].state # "none"
        /\ worker[w].pc \in {"begin", "claim"} /\ job[j].token = w => ~ job[j].claimed
        /\ worker[w].pc \in LicensePoints =>
               /\ done[j] = 0 /\ j \notin air
               /\ Unsettled(j) \/ (job[j].state = "succeeded" /\ BySight(j))
               /\ \A v \in Workers \ {w} : ~ Licensed(v, j)
        /\ worker[w].pc = "readback" => job[j].claimed
        /\ worker[w].pc = "report" => done[j] = 1
        /\ worker[w].pc = "finish" /\ job[j].token = w =>
               /\ worker[w].verdict = "succeeded" => Shown(j)
               /\ worker[w].verdict \in Bad => Clean(j)

JobsInv ==
    /\ JobTypeOK
    /\ \A j \in Jobs : JobOK(j)
    /\ \A w \in Workers : WorkerOK(w)

USE JobsAssumption

-----------------------------------------------------------------------------
\* The fields of the tables and of a worker.
LEMMA JobFields ==
    ASSUME JobTypeOK, NEW j \in Jobs
    PROVE  /\ job[j] \in Job /\ job[j].state \in States /\ job[j].action \in Action
           /\ job[j].cancel \in BOOLEAN /\ job[j].claimed \in BOOLEAN
           /\ job[j].held \in BOOLEAN /\ job[j].token \in Workers \cup {Nobody}
           /\ ledger[j] \in Entries /\ done[j] \in Nat
BY Zenon DEF JobTypeOK, Job

LEMMA NeedsFit ==
    ASSUME JobTypeOK, NEW j \in Jobs
    PROVE  Needs(j) \subseteq Resources /\ Kind(j) \in Adapters
BY JobFields, Zenon DEF Needs, Kind, Action

LEMMA WorkerFields ==
    ASSUME JobTypeOK, NEW w \in Workers
    PROVE  /\ worker[w] \in Worker /\ worker[w].pc \in Points
           /\ worker[w].job \in Jobs \cup {Nobody} /\ worker[w].verdict \in Verdicts
BY Zenon DEF JobTypeOK, Worker

\* A state is none of a fresh row, open, good or bad.
LEMMA StateIsOne ==
    ASSUME NEW s \in States
    PROVE  /\ s # "none" => s \in Open \/ s = "succeeded" \/ s \in Bad
           /\ s \in Open => s # "none" /\ s # "succeeded" /\ s \notin Bad /\ s \notin Terminal
           /\ s \in Terminal <=> s = "succeeded" \/ s \in Bad
BY DEF States, Open, Terminal, Bad

-----------------------------------------------------------------------------
\* Resources of the other jobs that are held or open stay theirs.
LocksKept(j) ==
    \A k \in Jobs \ {j} :
        Unsettled(k) /\ (job[k].claimed \/ job[k].token # Nobody) =>
            \A r \in Needs(k) : lock'[r] = lock[r]

\* The parts of other jobs.
Elsewhere(j) ==
    \A k \in Jobs \ {j} : /\ job'[k] = job[k] /\ ledger'[k] = ledger[k] /\ done'[k] = done[k]
                          /\ k \in air' <=> k \in air

\* A step about job j: what must be shown is what becomes of j, of the workers that move and of
\* those that have j.
LEMMA StepAboutFits ==
    ASSUME JobsInv, JobTypeOK', NEW j \in Jobs, Elsewhere(j), LocksKept(j),
           \A v \in Workers : \/ worker'[v] = worker[v] \/ worker'[v].pc = "idle"
                              \/ worker'[v].job = j,
           JobOK(j)',
           \A v \in Workers : worker'[v].job = j /\ worker'[v].pc # "idle" => WorkerOK(v)'
    PROVE  JobsInv'
<1>1. ASSUME NEW k \in Jobs \ {j}, NEW v \in Workers, Licensed(v, k)'
      PROVE  Licensed(v, k)
  BY <1>1 DEF Licensed, LicensePoints
<1>2. ASSUME NEW k \in Jobs \ {j}
      PROVE  JobOK(k)'
  <2>1. JobOK(k)
    BY DEF JobsInv
  <2>2. /\ job'[k] = job[k] /\ ledger'[k] = ledger[k] /\ done'[k] = done[k]
        /\ k \in air' <=> k \in air
    BY DEF Elsewhere
  <2>3. Clean(k) => Clean(k)'
    BY <1>1, <2>2 DEF Clean
  <2>4. Shown(k) <=> Shown(k)'
    BY <2>2 DEF Shown, Kind, BySight
  <2>5. Unsettled(k)' /\ (job'[k].claimed \/ job'[k].token # Nobody) =>
            \A r \in Needs(k)' : lock'[r] = k
    BY <2>1, <2>2 DEF JobOK, LocksKept, Unsettled, Needs
  <2> QED BY <2>1, <2>2, <2>3, <2>4, <2>5 DEF JobOK, Unsettled, Kind, BySight
<1>3. ASSUME NEW v \in Workers
      PROVE  WorkerOK(v)'
  <2>1. CASE worker'[v].pc = "idle"
    BY <2>1 DEF WorkerOK, LicensePoints
  <2>2. CASE worker'[v].job = j /\ worker'[v].pc # "idle"
    BY <2>2
  <2>3. CASE worker'[v].job # j /\ worker'[v].pc # "idle"
    <3>1. worker'[v] = worker[v] /\ WorkerOK(v)
      BY <2>3 DEF JobsInv
    <3>2. PICK k \in Jobs \ {j} : worker'[v].job = k /\ worker[v].job = k
      <4>1. worker[v].pc # "idle" /\ worker[v].job # j
        BY <2>3, <3>1
      <4>2. worker[v].job \in Jobs
        BY <3>1, <4>1 DEF WorkerOK
      <4> QED BY <3>1, <4>1, <4>2
    <3>3. /\ job'[k] = job[k] /\ done'[k] = done[k] /\ (k \in air' <=> k \in air)
      BY <3>2 DEF Elsewhere
    <3>4. /\ Clean(k) => Clean(k)'
          /\ \A u \in Workers : Licensed(u, k)' => Licensed(u, k)
      BY <1>1, <3>2, <3>3 DEF Clean
    <3>5. Shown(k) <=> Shown(k)'
      BY <3>3 DEF Shown, Kind, BySight
    <3>6. /\ WorkerOK(v) /\ worker'[v] = worker[v] /\ worker[v].job = k
          /\ job'[worker'[v].job] = job[worker[v].job]
          /\ done'[worker'[v].job] = done[worker[v].job]
      BY <3>1, <3>2, <3>3
    <3> QED BY <3>2, <3>3, <3>4, <3>5, <3>6 DEF WorkerOK, Unsettled, Kind, BySight
  <2> QED BY <2>1, <2>2, <2>3
<1> QED BY <1>2, <1>3 DEF JobsInv

\* A step about a registered job that neither begins nor carries out an effect: the job keeps
\* its action and its claim, and nobody gets the licence.
Harmless(j) ==
    /\ UNCHANGED <<done, air>>
    /\ \A k \in Jobs \ {j} : job'[k] = job[k] /\ ledger'[k] = ledger[k]
    /\ LocksKept(j)
    /\ \A v \in Workers : Licensed(v, j)' => Licensed(v, j)
    /\ job[j].state # "none" /\ job'[j].state # "none"
    /\ job'[j].action = job[j].action /\ job'[j].claimed = job[j].claimed

LEMMA HarmlessFits ==
    ASSUME JobsInv, JobTypeOK', NEW j \in Jobs, Harmless(j),
           \A v \in Workers : \/ worker'[v] = worker[v] \/ worker'[v].pc = "idle"
                              \/ worker'[v].job = j /\ WorkerOK(v)',
           \A v \in Workers : worker'[v] = worker[v] /\ job'[j].token = v => job[j].token = v,
           job'[j].state \in Bad => Clean(j),
           job'[j].state = "succeeded" => Shown(j),
           ledger'[j] = "done" => Shown(j),
           ~ job[j].claimed => ledger'[j] = "none",
           job'[j].state \in Open /\ (job[j].claimed \/ job'[j].token # Nobody) =>
               \A r \in Needs(j) : lock'[r] = j
    PROVE  JobsInv'
<1>1. JobOK(j) /\ JobTypeOK
  BY DEF JobsInv
<1>2. Elsewhere(j) /\ LocksKept(j)
  <2>1. done' = done /\ air' = air /\ LocksKept(j)
    BY DEF Harmless
  <2> QED BY <2>1 DEF Harmless, Elsewhere
<1>3. /\ Clean(j) => Clean(j)'
      /\ Shown(j) => Shown(j)'
      /\ Needs(j)' = Needs(j) /\ Kind(j)' = Kind(j)
  <2>1. /\ done' = done /\ air' = air /\ job'[j].action = job[j].action
        /\ \A v \in Workers : Licensed(v, j)' => Licensed(v, j)
    BY DEF Harmless
  <2>2. Needs(j)' = Needs(j) /\ Kind(j)' = Kind(j)
    BY <2>1 DEF Kind, BySight, Needs
  <2>3. Shown(j) => Shown(j)'
    BY <2>1, <2>2 DEF Shown, BySight
  <2>4. Clean(j) => Clean(j)'
    BY <2>1 DEF Clean
  <2> QED BY <2>2, <2>3, <2>4
<1>4. job'[j].state \in States
  BY Zenon DEF JobTypeOK, Job
<1>5. ~ Clean(j) /\ done[j] = 0 =>
          Unsettled(j)' \/ (job'[j].state = "succeeded" /\ BySight(j)')
  <2>1. SUFFICES ASSUME ~ Clean(j), done[j] = 0
                 PROVE  Unsettled(j)' \/ (job'[j].state = "succeeded" /\ BySight(j)')
    OBVIOUS
  <2>2. Shown(j) => BySight(j)
    BY <2>1 DEF Shown
  <2> QED BY <1>3, <1>4, <2>1, <2>2, StateIsOne DEF Harmless, Unsettled, BySight
<1>6. JobOK(j)'
  <2>1. j \in air => ~ Clean(j) /\ done[j] = 0
    BY <1>1 DEF JobOK, Clean
  <2> QED BY <1>1, <1>3, <1>5, <2>1 DEF JobOK, Harmless, Unsettled
<1>7. ASSUME NEW v \in Workers, worker'[v].job = j, worker'[v].pc # "idle",
             worker'[v] = worker[v]
      PROVE  WorkerOK(v)'
  <2>1. WorkerOK(v) /\ worker[v].job = j
    BY <1>7 DEF JobsInv
  <2>2. worker[v].pc \in LicensePoints =>
            Unsettled(j)' \/ (job'[j].state = "succeeded" /\ BySight(j)')
    BY <1>5, <2>1 DEF Licensed, Clean, WorkerOK
  <2>3. job'[worker'[v].job] = job'[j] /\ job[worker[v].job] = job[j] /\ done[j] = done'[j]
        /\ air' = air
    BY <1>7, <2>1 DEF Harmless
  <2> QED BY <1>3, <1>7, <2>1, <2>2, <2>3 DEF WorkerOK, Harmless
<1> QED BY <1>2, <1>6, <1>7, StepAboutFits

-----------------------------------------------------------------------------
\* Writes to the job table and to a worker.
LEMMA JobWritten ==
    ASSUME JobTypeOK, NEW j \in Jobs, NEW g \in Job, job' = [job EXCEPT ![j] = g]
    PROVE  job' \in [Jobs -> Job] /\ job'[j] = g /\ \A k \in Jobs \ {j} : job'[k] = job[k]
BY Zenon DEF JobTypeOK

LEMMA TouchedFits ==
    ASSUME JobTypeOK, NEW j \in Jobs, NEW s
    PROVE  Touched(j, s) \subseteq Jobs \X Jobs
BY DEF JobTypeOK, Touched

LEMMA WorkerWritten ==
    ASSUME JobTypeOK, NEW w \in Workers, NEW g \in Worker, worker' = [worker EXCEPT ![w] = g]
    PROVE  /\ worker' \in [Workers -> Worker] /\ worker'[w] = g
           /\ \A v \in Workers \ {w} : worker'[v] = worker[v]
BY Zenon DEF JobTypeOK

LEMMA RestFits ==
    ASSUME JobTypeOK, NEW w \in Workers, worker' = [worker EXCEPT ![w] = AtRest]
    PROVE  /\ worker' \in [Workers -> Worker] /\ worker'[w].pc = "idle"
           /\ \A v \in Workers \ {w} : worker'[v] = worker[v]
<1>1. "idle" \in Points /\ "cancelled" \in Verdicts /\ Nobody \in Jobs \cup {Nobody}
  BY DEF Points, Verdicts, Terminal
<1>2. AtRest \in Worker /\ AtRest.pc = "idle"
  BY <1>1, Zenon DEF AtRest, Worker
<1> QED BY <1>2, WorkerWritten

LEMMA GoesFits ==
    ASSUME JobTypeOK, NEW w \in Workers, NEW pc \in Points, Goes(w, pc)
    PROVE  /\ worker' \in [Workers -> Worker]
           /\ worker'[w].pc = pc /\ worker'[w].job = worker[w].job
           /\ \A v \in Workers \ {w} : worker'[v] = worker[v]
<1> DEFINE g == [worker[w] EXCEPT !.pc = pc]
<1>1. worker' = [worker EXCEPT ![w] = g]
  BY Zenon DEF Goes
<1>2. g \in Worker /\ g.pc = pc /\ g.job = worker[w].job
  BY WorkerFields, Zenon DEF Worker
<1> HIDE DEF g
<1> QED BY <1>1, <1>2, WorkerWritten

LEMMA EndsFits ==
    ASSUME JobTypeOK, NEW w \in Workers, NEW verdict \in Verdicts, Ends(w, verdict)
    PROVE  /\ worker' \in [Workers -> Worker]
           /\ worker'[w].pc = "finish" /\ worker'[w].job = worker[w].job
           /\ worker'[w].verdict = verdict
           /\ \A v \in Workers \ {w} : worker'[v] = worker[v]
<1> DEFINE g == [worker[w] EXCEPT !.pc = "finish", !.verdict = verdict]
<1>1. worker' = [worker EXCEPT ![w] = g]
  BY Zenon DEF Ends, JobTypeOK
<1>2. g \in Worker /\ g.pc = "finish" /\ g.job = worker[w].job /\ g.verdict = verdict
  <2>1. "finish" \in Points
    BY DEF Points
  <2> QED BY <2>1, WorkerFields, Zenon DEF Worker
<1> HIDE DEF g
<1> QED BY <1>1, <1>2, WorkerWritten

-----------------------------------------------------------------------------
\* A step that writes the row of a job: the job is asked for, or goes from an open state to
\* another.  No effect begins or takes place.
RowMoves(j) ==
    /\ UNCHANGED <<done, air>>
    /\ \A k \in Jobs \ {j} : job'[k] = job[k]
    /\ \/ job[j].state = "none" /\ job'[j].state \in Open
       \/ /\ job[j].state # "none" /\ job'[j].state # "none"
          /\ job'[j].action = job[j].action
          /\ job'[j].state = job[j].state \/ Unsettled(j)

\* A step in which an effect that was begun takes place, or is sent.
EffectMoves(j) ==
    /\ UNCHANGED job
    /\ \A k \in Jobs \ {j} : done'[k] = done[k] /\ (k \in air' <=> k \in air)
    /\ done[j] = 0 /\ ~ Clean(j)
    /\ \/ done'[j] = 1 /\ j \notin air'
       \/ done'[j] = 0 /\ j \notin air /\ j \in air'

OneJobMoves ==
    \/ UNCHANGED <<job, done, air>>
    \/ \E j \in Jobs : RowMoves(j) \/ EffectMoves(j)

\* A step that writes a registered job and no worker: it keeps the job's action and claim, and
\* gives nobody a token.
LEMMA RowStepFits ==
    ASSUME JobsInv, NEW j \in Jobs, job[j].state # "none", NEW g \in Job,
           job' = [job EXCEPT ![j] = g], older' \subseteq Jobs \X Jobs,
           UNCHANGED <<lock, worker, ledger, air, done, rests>>,
           g.action = job[j].action, g.claimed = job[j].claimed,
           g.token \in {job[j].token, Nobody}, g.state # "none",
           g.state \in Bad => Clean(j), g.state \in Open => Unsettled(j),
           g.state = "succeeded" => job[j].state = "succeeded",
           g.state = job[j].state \/ Unsettled(j)
    PROVE  JobsInv' /\ OneJobMoves
<1>1. JobTypeOK /\ JobOK(j)
  BY DEF JobsInv
<1>2. job' \in [Jobs -> Job] /\ job'[j] = g /\ \A k \in Jobs \ {j} : job'[k] = job[k]
  BY <1>1, JobWritten
<1>3. JobTypeOK'
  BY <1>1, <1>2 DEF JobTypeOK
<1>4. Harmless(j)
  <2>1. \A v \in Workers : Licensed(v, j)' => Licensed(v, j)
    BY DEF Licensed
  <2>2. LocksKept(j)
    BY DEF LocksKept
  <2> QED BY <1>2, <2>1, <2>2 DEF Harmless
<1>5. \A v \in Workers : worker'[v] = worker[v] /\ (job'[j].token = v => job[j].token = v)
  BY <1>2
<1>6. job'[j].state \in Open /\ (job[j].claimed \/ job'[j].token # Nobody) =>
          \A r \in Needs(j) : lock'[r] = j
  BY <1>1, <1>2 DEF JobOK
<1>7. job'[j].state = "succeeded" => Shown(j)
  BY <1>1, <1>2 DEF JobOK
<1>8. (ledger'[j] = "done" => Shown(j)) /\ (~ job[j].claimed => ledger'[j] = "none")
  BY <1>1 DEF JobOK
<1>9. RowMoves(j)
  BY <1>2 DEF RowMoves
<1> QED BY <1>2, <1>3, <1>4, <1>5, <1>6, <1>7, <1>8, <1>9, HarmlessFits DEF OneJobMoves

\* Reject, Cancel, Wake, LapseLease, Outlive.
LEMMA OwnerStepsFit ==
    ASSUME JobsInv, NEW j \in Jobs,
           Reject(j) \/ Cancel(j) \/ Wake(j) \/ LapseLease(j) \/ Outlive(j)
    PROVE  JobsInv' /\ OneJobMoves
<1>1. JobTypeOK /\ JobOK(j) /\ job[j] \in Job
  BY JobFields DEF JobsInv
<1>2. UNCHANGED <<lock, worker, ledger, air, done, rests>>
  BY Zenon DEF Reject, Cancel, Wake, LapseLease, Outlive, domain
<1>3. CASE Reject(j)
  <2> DEFINE g == [job[j] EXCEPT !.state = "rejected"]
  <2>1. /\ job' = [job EXCEPT ![j] = g] /\ older' = Touched(j, "rejected")
        /\ job[j].state = "queued" /\ ~ job[j].claimed
    BY <1>3, Zenon DEF Reject
  <2>2. /\ g \in Job /\ g.action = job[j].action /\ g.claimed = job[j].claimed
        /\ g.token = job[j].token /\ g.state = "rejected"
    <3>1. "rejected" \in States
      BY DEF States, Terminal
    <3> QED BY <1>1, <3>1, Zenon DEF Job
  <2> HIDE DEF g
  <2>3. /\ Clean(j) /\ Unsettled(j)
        /\ "rejected" \notin Open /\ "rejected" # "succeeded" /\ "rejected" # "none"
    BY <1>1, <2>1 DEF JobOK, Open, Unsettled
  <2> QED BY <1>1, <1>2, <2>1, <2>2, <2>3, TouchedFits, RowStepFits
<1>4. CASE Cancel(j)
  <2> DEFINE s == CancelledAs(j)
             g == [job[j] EXCEPT !.cancel = TRUE, !.state = s]
  <2>1. job' = [job EXCEPT ![j] = g] /\ older' = Touched(j, s) /\ Unsettled(j)
    BY <1>1, <1>4, Zenon DEF Cancel, JobTypeOK
  <2>2. s \in States /\ (s = "cancelled" \/ s = job[j].state)
        /\ (s # job[j].state => ~ job[j].claimed)
    BY <1>1, JobFields DEF CancelledAs, States, Terminal
  <2> HIDE DEF s
  <2>3. /\ g \in Job /\ g.action = job[j].action /\ g.claimed = job[j].claimed
        /\ g.token = job[j].token /\ g.state = s
    <3>1. TRUE \in BOOLEAN
      OBVIOUS
    <3> QED BY <1>1, <2>2, <3>1, Zenon DEF Job
  <2> HIDE DEF g
  <2>4. /\ s # "none" /\ s # "succeeded" /\ (s \in Bad => Clean(j))
    BY <1>1, <2>1, <2>2, StateIsOne DEF JobOK, Unsettled, Open, Bad, Terminal
  <2>5. job[j].state # "none"
    BY <2>1 DEF Unsettled, Open
  <2> QED BY <1>1, <1>2, <2>1, <2>3, <2>4, <2>5, TouchedFits, RowStepFits
<1>5. CASE Wake(j) \/ LapseLease(j) \/ Outlive(j)
  <2> DEFINE g == [job[j] EXCEPT !.held = FALSE]
  <2>1. /\ job' = [job EXCEPT ![j] = g]
        /\ older' = Touched(j, job[j].state) \/ older' = older
    BY <1>5, Zenon DEF Wake, LapseLease, Outlive
  <2>2. /\ g \in Job /\ g.action = job[j].action /\ g.claimed = job[j].claimed
        /\ g.token = job[j].token /\ g.state = job[j].state
    <3>1. FALSE \in BOOLEAN
      OBVIOUS
    <3> QED BY <1>1, <3>1, Zenon DEF Job
  <2>3. older' \subseteq Jobs \X Jobs
    BY <1>1, <2>1, TouchedFits DEF JobTypeOK
  <2>4. job[j].state # "none"
    BY <1>1, <1>5 DEF JobOK, Wake, LapseLease, Outlive
  <2> HIDE DEF g
  <2>5. (g.state \in Bad => Clean(j)) /\ (g.state \in Open => Unsettled(j))
    BY <1>1, <2>2 DEF JobOK, Unsettled
  <2> QED BY <1>2, <2>1, <2>2, <2>3, <2>4, <2>5, RowStepFits
<1> QED BY <1>3, <1>4, <1>5

-----------------------------------------------------------------------------
\* A step in which a worker moves with its job, or lets go of it, and no job row is written.
LEMMA WorkerMoves ==
    ASSUME JobsInv, NEW w \in Workers, NEW j \in Jobs, worker[w].job = j,
           worker[w].pc # "idle",
           UNCHANGED <<job, lock, done, air, rests>>, older' \subseteq Jobs \X Jobs,
           ledger' \in [Jobs -> Entries], \A k \in Jobs \ {j} : ledger'[k] = ledger[k],
           ledger'[j] = "done" => Shown(j), ~ job[j].claimed => ledger'[j] = "none",
           worker' \in [Workers -> Worker], \A v \in Workers \ {w} : worker'[v] = worker[v],
           worker'[w].pc = "idle" \/ (worker'[w].job = j /\ WorkerOK(w)'),
           Licensed(w, j)' => Licensed(w, j)
    PROVE  JobsInv' /\ OneJobMoves
<1>1. JobTypeOK /\ JobOK(j) /\ WorkerOK(w)
  BY DEF JobsInv
<1>2. JobTypeOK'
  BY <1>1 DEF JobTypeOK
<1>3. Harmless(j)
  <2>1. \A v \in Workers : Licensed(v, j)' => Licensed(v, j)
    BY DEF Licensed
  <2>2. LocksKept(j)
    BY DEF LocksKept
  <2>3. job[j].state # "none"
    BY <1>1 DEF WorkerOK
  <2> QED BY <2>1, <2>2, <2>3 DEF Harmless
<1>4. \A v \in Workers : \/ worker'[v] = worker[v] \/ worker'[v].pc = "idle"
                         \/ worker'[v].job = j /\ WorkerOK(v)'
  OBVIOUS
<1>5. job'[j].state \in Open /\ (job[j].claimed \/ job'[j].token # Nobody) =>
          \A r \in Needs(j) : lock'[r] = j
  BY <1>1 DEF JobOK, Unsettled
<1>6. (job'[j].state \in Bad => Clean(j)) /\ (job'[j].state = "succeeded" => Shown(j))
  BY <1>1 DEF JobOK
<1> QED BY <1>2, <1>3, <1>4, <1>5, <1>6, HarmlessFits DEF OneJobMoves

\* A worker that is about to write a verdict: a bad one only if the effect did not take place
\* and nobody else may carry it out, "succeeded" only if the effect shows.
LEMMA VerdictIsTrue ==
    ASSUME JobsInv, NEW w \in Workers, NEW j \in Jobs, worker'[w].job = j,
           worker'[w].pc = "finish", UNCHANGED <<job, done, air>>, job[j].state # "none",
           \A v \in Workers \ {w} : worker'[v] = worker[v],
           worker'[w].verdict = "succeeded" => Shown(j),
           worker'[w].verdict \in Bad =>
               done[j] = 0 /\ j \notin air /\ \A v \in Workers \ {w} : ~ Licensed(v, j)
    PROVE  WorkerOK(w)'
<1>1. Shown(j)' <=> Shown(j)
  BY DEF Shown, Kind, BySight
<1>2. worker'[w].verdict \in Bad => Clean(j)'
  <2>1. SUFFICES ASSUME worker'[w].verdict \in Bad, NEW v \in Workers
                 PROVE  done'[j] = 0 /\ j \notin air' /\ ~ Licensed(v, j)'
    BY DEF Clean
  <2>2. CASE v = w
    BY <2>1, <2>2 DEF Licensed, LicensePoints
  <2>3. CASE v # w
    BY <2>1, <2>3 DEF Licensed
  <2> QED BY <2>2, <2>3
<1> QED BY <1>1, <1>2 DEF WorkerOK, LicensePoints

\* Where a worker stands, it has a job that is registered.
LEMMA HasJob ==
    ASSUME JobsInv, NEW w \in Workers, worker[w].pc # "idle"
    PROVE  \E j \in Jobs : worker[w].job = j
BY DEF JobsInv, WorkerOK

LEMMA JobOfWorker ==
    ASSUME JobsInv, NEW w \in Workers, worker[w].pc # "idle", NEW j \in Jobs, worker[w].job = j
    PROVE  /\ JobTypeOK /\ JobOK(j) /\ WorkerOK(w)
           /\ job[j].state # "none" /\ job[j] \in Job /\ job[j].claimed \in BOOLEAN
           /\ job[j].state \in States /\ job[j].state \notin {"none"}
           /\ older \subseteq Jobs \X Jobs /\ ledger \in [Jobs -> Entries]
           /\ ledger[j] = "done" => Shown(j)
           /\ ~ job[j].claimed => ledger[j] = "none"
<1>1. JobTypeOK /\ JobOK(j) /\ WorkerOK(w)
  BY DEF JobsInv
<1>2. job[j].state # "none"
  BY <1>1 DEF WorkerOK
<1>3. job[j] \in Job /\ job[j].claimed \in BOOLEAN /\ job[j].state \in States
  BY <1>1, JobFields
<1>4. older \subseteq Jobs \X Jobs /\ ledger \in [Jobs -> Entries]
  BY <1>1 DEF JobTypeOK
<1>5. (ledger[j] = "done" => Shown(j)) /\ (~ job[j].claimed => ledger[j] = "none")
  BY <1>1 DEF JobOK
<1> QED BY <1>1, <1>2, <1>3, <1>4, <1>5

\* The licence is for a job that was claimed, whose effect did not take place.
LEMMA HasLicense ==
    ASSUME JobsInv, NEW w \in Workers, worker[w].pc \in LicensePoints,
           NEW j \in Jobs, worker[w].job = j
    PROVE  /\ Licensed(w, j) /\ done[j] = 0 /\ j \notin air /\ job[j].claimed
           /\ \A v \in Workers \ {w} : ~ Licensed(v, j)
           /\ worker[w].pc # "idle"
<1>1. Licensed(w, j) /\ worker[w].pc # "idle"
  BY DEF LicensePoints, Licensed
<1>2. JobOK(j) /\ WorkerOK(w)
  BY <1>1, JobOfWorker
<1> QED BY <1>1, <1>2 DEF JobOK, WorkerOK, Clean

\* A worker lets go of its job.
LEMMA LetsGo ==
    ASSUME JobsInv, NEW w \in Workers, worker[w].pc # "idle",
           worker' = [worker EXCEPT ![w] = AtRest],
           UNCHANGED <<job, lock, ledger, done, air, rests>>, older' = older
    PROVE  JobsInv' /\ OneJobMoves
<1>1. PICK j \in Jobs : worker[w].job = j
  BY HasJob
<1>2. /\ JobTypeOK /\ older \subseteq Jobs \X Jobs /\ ledger \in [Jobs -> Entries]
      /\ ledger[j] = "done" => Shown(j)
      /\ ~ job[j].claimed => ledger[j] = "none"
  BY <1>1, JobOfWorker
<1>3. /\ worker' \in [Workers -> Worker] /\ worker'[w].pc = "idle"
      /\ \A v \in Workers \ {w} : worker'[v] = worker[v]
  BY <1>2, RestFits
<1>4. ~ Licensed(w, j)'
  BY <1>3 DEF Licensed, LicensePoints
<1> QED BY <1>1, <1>2, <1>3, <1>4, WorkerMoves

\* A worker comes to a verdict about its job and writes what the adapter's ledger says.
LEMMA VerdictFits ==
    ASSUME JobsInv, NEW w \in Workers, worker[w].pc # "idle", NEW j \in Jobs,
           worker[w].job = j, NEW v \in Verdicts, Ends(w, v), UNCHANGED <<job, lock, done, air, rests>>,
           older' \subseteq Jobs \X Jobs,
           ledger' \in [Jobs -> Entries], \A k \in Jobs \ {j} : ledger'[k] = ledger[k],
           ledger'[j] = "done" => Shown(j), ~ job[j].claimed => ledger'[j] = "none",
           v = "succeeded" => Shown(j),
           v \in Bad => done[j] = 0 /\ j \notin air /\ \A u \in Workers \ {w} : ~ Licensed(u, j)
    PROVE  JobsInv' /\ OneJobMoves
<1>1. JobTypeOK /\ job[j].state # "none"
  BY JobOfWorker
<1>2. /\ worker' \in [Workers -> Worker]
      /\ worker'[w].pc = "finish" /\ worker'[w].job = j /\ worker'[w].verdict = v
      /\ \A u \in Workers \ {w} : worker'[u] = worker[u]
  BY <1>1, EndsFits
<1>3. WorkerOK(w)'
  BY <1>1, <1>2, VerdictIsTrue
<1>4. ~ Licensed(w, j)'
  BY <1>2 DEF Licensed, LicensePoints
<1> QED BY <1>2, <1>3, <1>4, WorkerMoves

\* Refuse: what was claimed stays open, the rest is refused for good.
LEMMA RefuseFits ==
    ASSUME JobsInv, NEW w \in Workers, Refuse(w)
    PROVE  JobsInv' /\ OneJobMoves
<1>1. /\ UNCHANGED <<job, older, lock, ledger, air, done, rests>> /\ worker[w].pc # "idle"
      /\ \/ worker' = [worker EXCEPT ![w] = AtRest]
         \/ \E v \in Refusals(job[worker[w].job]) : Ends(w, v)
  BY DEF Refuse, domain, Gates
<1>2. PICK j \in Jobs : worker[w].job = j
  BY <1>1, HasJob
<1>3. /\ JobOK(j) /\ job[j].claimed \in BOOLEAN /\ older \subseteq Jobs \X Jobs
      /\ ledger \in [Jobs -> Entries]
      /\ ledger[j] = "done" => Shown(j)
      /\ ~ job[j].claimed => ledger[j] = "none"
  BY <1>1, <1>2, JobOfWorker
<1>4. ASSUME NEW v \in Refusals(job[j]), Ends(w, v)
      PROVE  JobsInv' /\ OneJobMoves
  <2>1. v \in Verdicts /\ v # "succeeded" /\ (v \in Bad => ~ job[j].claimed)
    BY <1>3 DEF Refusals, Verdicts, Terminal, Bad
  <2>2. v \in Bad => done[j] = 0 /\ j \notin air /\ \A u \in Workers \ {w} : ~ Licensed(u, j)
    BY <1>3, <2>1 DEF JobOK, Clean
  <2> QED BY <1>1, <1>2, <1>3, <1>4, <2>1, <2>2, VerdictFits
<1> QED BY <1>1, <1>2, <1>4, LetsGo

\* GatesClosed and NothingToDo: the holder of the licence gives it up unused.
LEMMA UnusedFits ==
    ASSUME JobsInv, NEW w \in Workers, GatesClosed(w) \/ NothingToDo(w)
    PROVE  JobsInv' /\ OneJobMoves
<1>1. /\ worker[w].pc \in LicensePoints /\ worker[w].pc # "idle"
      /\ UNCHANGED <<job, older, lock, ledger, air, done, rests>>
  BY DEF GatesClosed, NothingToDo, LicensePoints, domain
<1>2. PICK j \in Jobs : worker[w].job = j
  BY <1>1, HasJob
<1>3. PICK v \in Verdicts : Ends(w, v) /\ (v = "succeeded" => Shown(j))
  <2>1. CASE GatesClosed(w)
    BY <2>1 DEF GatesClosed, Verdicts, Terminal
  <2>2. CASE NothingToDo(w)
    <3>1. BySight(j)
      BY <1>2, <2>2 DEF NothingToDo, BySight, SightAdapters
    <3> QED BY <2>2, <3>1 DEF NothingToDo, Verdicts, Terminal, Shown
  <2> QED BY <2>1, <2>2
<1>4. done[j] = 0 /\ j \notin air /\ \A x \in Workers \ {w} : ~ Licensed(x, j)
  BY <1>1, <1>2, HasLicense
<1>5. /\ older \subseteq Jobs \X Jobs /\ ledger \in [Jobs -> Entries]
      /\ ledger[j] = "done" => Shown(j)
      /\ ~ job[j].claimed => ledger[j] = "none"
  BY <1>1, <1>2, JobOfWorker
<1> QED BY <1>1, <1>2, <1>3, <1>4, <1>5, VerdictFits

\* A worker that has the licence goes on with it: ClaimIntent, WriteJournal and EffectGuard.
LEMMA LicenseFits ==
    ASSUME JobsInv, NEW w \in Workers,
           ClaimIntent(w) \/ WriteJournal(w) \/ EffectGuard(w)
    PROVE  JobsInv' /\ OneJobMoves
<1>1. /\ worker[w].pc \in LicensePoints /\ worker[w].pc # "idle"
      /\ UNCHANGED <<job, older, lock, air, done, rests>>
      /\ \E pc \in LicensePoints : Goes(w, pc)
      /\ ledger' = ledger \/ ledger' = [ledger EXCEPT ![worker[w].job] = "claimed"]
  BY Zenon DEF ClaimIntent, WriteJournal, EffectGuard, Passes, LicensePoints, domain
<1>2. PICK j \in Jobs : worker[w].job = j
  BY <1>1, HasJob
<1>3. PICK pc \in LicensePoints : Goes(w, pc)
  BY <1>1
<1>4. done[j] = 0 /\ j \notin air /\ job[j].claimed /\ Licensed(w, j)
      /\ \A v \in Workers \ {w} : ~ Licensed(v, j)
  BY <1>1, <1>2, HasLicense
<1>5. /\ JobTypeOK /\ WorkerOK(w) /\ older \subseteq Jobs \X Jobs
      /\ ledger \in [Jobs -> Entries]
      /\ ledger[j] = "done" => Shown(j)
      /\ job[j].state # "none"
  BY <1>1, <1>2, JobOfWorker
<1>6. /\ ledger' \in [Jobs -> Entries] /\ \A k \in Jobs \ {j} : ledger'[k] = ledger[k]
      /\ ledger'[j] = "done" => Shown(j)
  BY <1>1, <1>2, <1>5 DEF Entries
<1>7. pc \in Points /\ pc \notin {"idle", "begin", "claim", "report", "readback", "finish"}
  BY DEF LicensePoints, Points, Gates
<1>8. /\ worker' \in [Workers -> Worker]
      /\ worker'[w].pc = pc /\ worker'[w].job = j
      /\ \A v \in Workers \ {w} : worker'[v] = worker[v]
  BY <1>2, <1>3, <1>5, <1>7, GoesFits
<1>9. WorkerOK(w)'
  <2>1. \A v \in Workers \ {w} : ~ Licensed(v, j)'
    BY <1>4, <1>8 DEF Licensed
  <2>2. Unsettled(j) \/ (job[j].state = "succeeded" /\ BySight(j))
    BY <1>1, <1>2, <1>5 DEF WorkerOK
  <2> QED BY <1>1, <1>4, <1>5, <1>7, <1>8, <2>1, <2>2 DEF WorkerOK, Unsettled, Kind, BySight
<1> QED BY <1>1, <1>2, <1>4, <1>5, <1>6, <1>8, <1>9, WorkerMoves

\* Report: the worker saw its effect take place.
LEMMA ReportFits ==
    ASSUME JobsInv, NEW w \in Workers, Report(w)
    PROVE  JobsInv' /\ OneJobMoves
<1>1. worker[w].pc = "report" /\ worker[w].pc # "idle"
      /\ UNCHANGED <<job, older, lock, air, done, rests>>
  BY DEF Report
<1>2. PICK j \in Jobs : worker[w].job = j
  BY <1>1, HasJob
<1>3. PICK v \in {"succeeded", "reconciliation_pending"} :
          /\ Ends(w, v)
          /\ \E e \in {"claimed", "done"} : ledger' = [ledger EXCEPT ![j] = e]
  BY <1>2, Zenon DEF Report
<1>4. /\ JobOK(j) /\ WorkerOK(w) /\ older \subseteq Jobs \X Jobs /\ ledger \in [Jobs -> Entries]
  BY <1>1, <1>2, JobOfWorker
<1>5. done[j] = 1 /\ Shown(j)
  BY <1>1, <1>2, <1>4 DEF WorkerOK, Shown
<1>6. job[j].claimed
  BY <1>4, <1>5 DEF JobOK, Clean
<1>7. v \in Verdicts /\ v \notin Bad
  BY DEF Verdicts, Bad, Terminal
<1>8. /\ ledger' \in [Jobs -> Entries] /\ \A k \in Jobs \ {j} : ledger'[k] = ledger[k]
  BY <1>3, <1>4 DEF Entries
<1> QED BY <1>1, <1>2, <1>3, <1>4, <1>5, <1>6, <1>7, <1>8, VerdictFits

\* Readback: what it finds is proof.
LEMMA ReadbackFits ==
    ASSUME JobsInv, NEW w \in Workers, Readback(w)
    PROVE  JobsInv' /\ OneJobMoves
<1>1. worker[w].pc = "readback" /\ worker[w].pc # "idle"
      /\ UNCHANGED <<job, lock, air, done, rests>>
  BY DEF Readback
<1>2. PICK j \in Jobs : worker[w].job = j
  BY <1>1, HasJob
<1>3. /\ JobTypeOK /\ JobOK(j) /\ WorkerOK(w) /\ ledger \in [Jobs -> Entries]
      /\ ledger[j] = "done" => Shown(j)
      /\ job[j].claimed \in BOOLEAN
  BY <1>1, <1>2, JobOfWorker
<1>4. CASE OwnedJob(w)
  <2>1. PICK proved \in Proofs(j) :
            /\ Ends(w, IF proved THEN "succeeded" ELSE "reconciliation_pending")
            /\ ledger' = [ledger EXCEPT ![j] =
                   IF proved /\ Kind(j) \in HostAdapters THEN "done" ELSE @]
            /\ older' = Touched(j, "running")
    BY <1>2, <1>4, Zenon DEF Readback
  <2> DEFINE v == IF proved THEN "succeeded" ELSE "reconciliation_pending"
             e == IF proved /\ Kind(j) \in HostAdapters THEN "done" ELSE ledger[j]
  <2>2. Ends(w, v) /\ ledger' = [ledger EXCEPT ![j] = e]
    BY <1>3, <2>1, Zenon
  <2>3. proved => Shown(j)
    <3>1. CASE ledger[j] = "done"
      BY <1>3, <3>1
    <3>2. CASE ledger[j] # "done" /\ BySight(j)
      BY <3>2 DEF Shown
    <3>3. CASE ledger[j] # "done" /\ ~ BySight(j)
      <4>1. proved = FALSE \/ proved = (ledger[j] # "none" /\ done[j] > 0)
        <5>1. Kind(j) \notin {"cancel", "seen", "stop"}
          BY <3>3 DEF BySight, SightAdapters
        <5> QED BY <3>3, <5>1, Zenon DEF Proofs
      <4>2. proved => done[j] > 0
        BY <4>1, Zenon
      <4>3. done[j] \in {0, 1}
        BY <1>3 DEF JobOK
      <4> QED BY <4>2, <4>3 DEF Shown
    <3> QED BY <3>1, <3>2, <3>3
  <2>4. job[j].claimed
    BY <1>1, <1>2, <1>3 DEF WorkerOK
  <2>5. /\ v \in Verdicts /\ v \notin Bad /\ (v = "succeeded" => Shown(j))
        /\ e \in Entries /\ (e = "done" => Shown(j))
    BY <1>3, <2>3 DEF Verdicts, Bad, Terminal, Entries
  <2> HIDE DEF v, e
  <2>6. /\ ledger' \in [Jobs -> Entries] /\ \A k \in Jobs \ {j} : ledger'[k] = ledger[k]
        /\ ledger'[j] = e
    BY <1>3, <2>2, <2>5
  <2>7. older' \subseteq Jobs \X Jobs
    BY <1>3, <2>1, TouchedFits
  <2> QED BY <1>1, <1>2, <1>3, <2>2, <2>4, <2>5, <2>6, <2>7, VerdictFits
<1>5. CASE ~ OwnedJob(w)
  <2>1. worker' = [worker EXCEPT ![w] = AtRest] /\ UNCHANGED <<ledger, older>>
    BY <1>5 DEF Readback
  <2> QED BY <1>1, <2>1, LetsGo
<1> QED BY <1>4, <1>5

-----------------------------------------------------------------------------
\* A step that writes a registered job and the worker that has it, and begins no effect.
LEMMA RowAndWorkerFit ==
    ASSUME JobsInv, NEW w \in Workers, NEW j \in Jobs, job[j].state # "none", NEW g \in Job,
           job' = [job EXCEPT ![j] = g], older' \subseteq Jobs \X Jobs,
           UNCHANGED <<ledger, done, air, rests>>,
           lock' \in [Resources -> Jobs \cup {Nobody}], LocksKept(j),
           worker' \in [Workers -> Worker], \A v \in Workers \ {w} : worker'[v] = worker[v],
           worker'[w].pc = "idle" \/ (worker'[w].job = j /\ WorkerOK(w)'),
           ~ Licensed(w, j)',
           g.action = job[j].action, g.claimed = job[j].claimed, g.state # "none",
           g.token \in {Nobody, job[j].token} \/ (g.token = w /\ worker'[w] # worker[w]),
           g.state \in Bad => Clean(j), g.state = "succeeded" => Shown(j), Unsettled(j),
           g.state \in Open /\ (g.claimed \/ g.token # Nobody) => \A r \in Needs(j) : lock'[r] = j
    PROVE  JobsInv' /\ OneJobMoves
<1>1. JobTypeOK /\ JobOK(j)
  BY DEF JobsInv
<1>2. job' \in [Jobs -> Job] /\ job'[j] = g /\ \A k \in Jobs \ {j} : job'[k] = job[k]
  BY <1>1, JobWritten
<1>3. JobTypeOK'
  BY <1>1, <1>2 DEF JobTypeOK
<1>4. Harmless(j)
  <2>1. \A v \in Workers : Licensed(v, j)' => Licensed(v, j)
    BY DEF Licensed
  <2> QED BY <1>2, <2>1 DEF Harmless
<1>5. \A v \in Workers : \/ worker'[v] = worker[v] \/ worker'[v].pc = "idle"
                         \/ worker'[v].job = j /\ WorkerOK(v)'
  OBVIOUS
<1>6. \A v \in Workers : worker'[v] = worker[v] /\ job'[j].token = v => job[j].token = v
  BY <1>2
<1>7. (ledger'[j] = "done" => Shown(j)) /\ (~ job[j].claimed => ledger'[j] = "none")
  BY <1>1 DEF JobOK
<1>8. RowMoves(j)
  BY <1>2 DEF RowMoves
<1> QED BY <1>2, <1>3, <1>4, <1>5, <1>6, <1>7, <1>8, HarmlessFits DEF OneJobMoves

\* What a worker that passes a check knows.
LEMMA OwnerKnows ==
    ASSUME JobsInv, NEW w \in Workers, NEW j \in Jobs, worker[w].job = j, OwnedJob(w)
    PROVE  /\ job[j].token = w /\ w # Nobody /\ Unsettled(j)
           /\ job[j].state \in {"queued", "running"}
           /\ \A r \in Needs(j) : lock[r] = j
<1>1. job[j].token = w /\ job[j].state \in {"queued", "running"} /\ w # Nobody
  BY DEF OwnedJob
<1>2. Unsettled(j) /\ JobOK(j)
  BY <1>1 DEF Unsettled, Open, JobsInv
<1> QED BY <1>1, <1>2 DEF JobOK

\* BeginRunning: nothing is claimed yet.
LEMMA BeginRunningFits ==
    ASSUME JobsInv, NEW w \in Workers, BeginRunning(w)
    PROVE  JobsInv' /\ OneJobMoves
<1>1. /\ worker[w].pc = "begin" /\ worker[w].pc # "idle" /\ OwnedJob(w)
      /\ UNCHANGED <<lock, ledger, done, air, rests>> /\ Goes(w, "claim")
  BY DEF BeginRunning, Passes, domain
<1>2. PICK j \in Jobs : worker[w].job = j
  BY <1>1, HasJob
<1>3. /\ JobTypeOK /\ WorkerOK(w) /\ job[j].state # "none" /\ job[j] \in Job
  BY <1>1, <1>2, JobOfWorker
<1> DEFINE g == [job[j] EXCEPT !.state = "running"]
<1>4. job' = [job EXCEPT ![j] = g] /\ older' = Touched(j, "running")
  BY <1>2, Zenon DEF BeginRunning
<1>5. /\ g \in Job /\ g.action = job[j].action /\ g.claimed = job[j].claimed
      /\ g.token = job[j].token /\ g.state = "running"
  <2>1. "running" \in States
    BY DEF States, Open
  <2> QED BY <1>3, <2>1, Zenon DEF Job
<1> HIDE DEF g
<1>6. /\ worker' \in [Workers -> Worker]
      /\ worker'[w].pc = "claim" /\ worker'[w].job = j
      /\ \A v \in Workers \ {w} : worker'[v] = worker[v]
  <2>1. "claim" \in Points
    BY DEF Points, Gates
  <2> QED BY <1>1, <1>2, <1>3, <2>1, GoesFits
<1>7. job[j].token = w /\ Unsettled(j) /\ \A r \in Needs(j) : lock[r] = j
  BY <1>1, <1>2, OwnerKnows
<1>8. ~ job[j].claimed
  BY <1>1, <1>2, <1>3, <1>7 DEF WorkerOK
<1>9. job'[j] = g
  BY <1>3, <1>4, <1>5, JobWritten
<1>10. WorkerOK(w)' /\ ~ Licensed(w, j)'
  BY <1>5, <1>6, <1>8, <1>9 DEF WorkerOK, Licensed, LicensePoints
<1>11. /\ older' \subseteq Jobs \X Jobs /\ lock' \in [Resources -> Jobs \cup {Nobody}]
       /\ LocksKept(j)
  BY <1>1, <1>3, <1>4, TouchedFits DEF JobTypeOK, LocksKept
<1>12. "running" \notin Bad /\ "running" # "succeeded" /\ "running" # "none"
  BY DEF Bad, Terminal
<1> QED BY <1>1, <1>3, <1>4, <1>5, <1>6, <1>7, <1>10, <1>11, <1>12, RowAndWorkerFit

\* Finish: the verdict of a worker that has its token is true.
LEMMA FinishFits ==
    ASSUME JobsInv, NEW w \in Workers, Finish(w)
    PROVE  JobsInv' /\ OneJobMoves
<1>1. /\ worker[w].pc = "finish" /\ worker[w].pc # "idle"
      /\ UNCHANGED <<ledger, done, air, rests>> /\ worker' = [worker EXCEPT ![w] = AtRest]
  BY DEF Finish, domain
<1>2. PICK j \in Jobs : worker[w].job = j
  BY <1>1, HasJob
<1>3. /\ JobTypeOK /\ WorkerOK(w) /\ job[j].state # "none" /\ job[j] \in Job
  BY <1>1, <1>2, JobOfWorker
<1>4. CASE ~ OwnedJob(w)
  <2>1. UNCHANGED <<job, lock, older>>
    BY <1>4, Zenon DEF Finish
  <2> QED BY <1>1, <2>1, LetsGo
<1>5. CASE OwnedJob(w)
  <2> DEFINE s == worker[w].verdict
             h == (s = "reconciliation_pending")
             g == [job[j] EXCEPT !.state = s, !.token = Nobody, !.held = h]
  <2>1. /\ job' = [job EXCEPT ![j] = g] /\ older' = Touched(j, s)
        /\ lock' = [r \in Resources |-> IF lock[r] = j /\ Frees(s) THEN Nobody ELSE lock[r]]
    BY <1>2, <1>3, <1>5, Zenon DEF Finish, JobTypeOK
  <2>2. s \in Verdicts
    BY <1>3, WorkerFields
  <2>3. s \in States /\ s # "none" /\ (s \in Open => ~ Frees(s)) /\ h \in BOOLEAN
    BY <2>2 DEF Verdicts, States, Open, Terminal, Frees
  <2>4. (s = "succeeded" => Shown(j)) /\ (s \in Bad => Clean(j)) /\ Unsettled(j)
    <3>1. job[j].token = w /\ Unsettled(j)
      BY <1>2, <1>5, OwnerKnows
    <3> QED BY <1>1, <1>2, <1>3, <3>1 DEF WorkerOK
  <2> HIDE DEF s, h
  <2>5. /\ g \in Job /\ g.action = job[j].action /\ g.claimed = job[j].claimed
        /\ g.token = Nobody /\ g.state = s
    <3>1. Nobody \in Workers \cup {Nobody}
      OBVIOUS
    <3> QED BY <1>3, <2>3, <3>1, Zenon DEF Job
  <2> HIDE DEF g
  <2>6. /\ worker' \in [Workers -> Worker] /\ worker'[w].pc = "idle"
        /\ \A v \in Workers \ {w} : worker'[v] = worker[v]
    BY <1>1, <1>3, RestFits
  <2>7. ~ Licensed(w, j)'
    BY <2>6 DEF Licensed, LicensePoints
  <2>8. lock' \in [Resources -> Jobs \cup {Nobody}] /\ older' \subseteq Jobs \X Jobs
    BY <1>3, <2>1, TouchedFits DEF JobTypeOK
  <2>9. LocksKept(j)
    <3>1. SUFFICES ASSUME NEW k \in Jobs \ {j}, Unsettled(k),
                          job[k].claimed \/ job[k].token # Nobody, NEW r \in Needs(k)
                   PROVE  lock'[r] = lock[r]
      BY DEF LocksKept
    <3>2. lock[r] = k /\ r \in Resources
      BY <1>3, <3>1, NeedsFit DEF JobsInv, JobOK
    <3> QED BY <2>1, <3>2
  <2>10. s \in Open => \A r \in Needs(j) : lock'[r] = j
    <3>1. \A r \in Needs(j) : lock[r] = j /\ r \in Resources
      BY <1>2, <1>3, <1>5, OwnerKnows, NeedsFit
    <3> QED BY <2>1, <2>3, <3>1
  <2> QED BY <1>1, <1>3, <2>1, <2>3, <2>4, <2>5, <2>6, <2>7, <2>8, <2>9, <2>10, RowAndWorkerFit
<1> QED BY <1>4, <1>5

\* ClaimJob: a busy job is put back; what another job holds was settled, or is not needed.
LEMMA ClaimJobFits ==
    ASSUME JobsInv, NEW w \in Workers, ClaimJob(w)
    PROVE  JobsInv' /\ OneJobMoves
<1>1. PICK j \in Due(w) :
        /\ IF Busy(j)
           THEN /\ job' = [job EXCEPT ![j].token = Nobody, ![j].held = FALSE,
                      ![j].state = IF Recovering(j) THEN "reconciliation_pending" ELSE "queued"]
                /\ older' = PutBack(j)
                /\ UNCHANGED <<lock, worker>>
           ELSE /\ job' = [job EXCEPT ![j].token = w, ![j].held = TRUE,
                      ![j].state = IF Recovering(j) THEN "running" ELSE "queued"]
                /\ older' = Touched(j, "running")
                /\ lock' = [r \in Resources |-> IF r \in Needs(j) THEN j ELSE lock[r]]
                /\ worker' = [worker EXCEPT ![w] =
                      [pc |-> Resumed(j), job |-> j, verdict |-> "cancelled"]]
        /\ worker[w].pc = "idle"
        /\ UNCHANGED <<domain, lapses>>
  BY Zenon DEF ClaimJob
<1>2. j \in Jobs /\ Unsettled(j) /\ UNCHANGED <<ledger, done, air, rests>>
  BY <1>1 DEF Due, domain
<1>3. JobTypeOK /\ JobOK(j) /\ job[j] \in Job /\ job[j].state # "none"
  BY <1>2, JobFields DEF JobsInv, Unsettled, Open
<1>4. CASE Busy(j)
  <2> DEFINE s == IF Recovering(j) THEN "reconciliation_pending" ELSE "queued"
             g == [job[j] EXCEPT !.token = Nobody, !.held = FALSE, !.state = s]
  <2>1. job' = [job EXCEPT ![j] = g] /\ older' = PutBack(j) /\ UNCHANGED <<lock, worker>>
    BY <1>1, <1>2, <1>3, <1>4, Zenon DEF JobTypeOK
  <2>2. s \in States /\ s \notin Bad /\ s # "none" /\ s # "succeeded"
    BY DEF States, Open, Bad, Terminal
  <2> HIDE DEF s
  <2>3. /\ g \in Job /\ g.action = job[j].action /\ g.claimed = job[j].claimed
        /\ g.token = Nobody /\ g.state = s
    <3>1. Nobody \in Workers \cup {Nobody} /\ FALSE \in BOOLEAN
      OBVIOUS
    <3> QED BY <1>3, <2>2, <3>1, Zenon DEF Job
  <2> HIDE DEF g
  <2>4. older' \subseteq Jobs \X Jobs
    BY <1>2, <1>3, <2>1, TouchedFits DEF PutBack
  <2> QED BY <1>2, <1>3, <2>1, <2>2, <2>3, <2>4, RowStepFits
<1>5. CASE ~ Busy(j)
  <2> DEFINE s == IF Recovering(j) THEN "running" ELSE "queued"
             g == [job[j] EXCEPT !.token = w, !.held = TRUE, !.state = s]
             pc == Resumed(j)
             u == [pc |-> pc, job |-> j, verdict |-> "cancelled"]
  <2>1. /\ job' = [job EXCEPT ![j] = g] /\ older' = Touched(j, "running")
        /\ lock' = [r \in Resources |-> IF r \in Needs(j) THEN j ELSE lock[r]]
        /\ worker' = [worker EXCEPT ![w] = u]
    BY <1>1, <1>2, <1>3, <1>5, Zenon DEF JobTypeOK
  <2>2. s \in States /\ s \notin Bad /\ s # "none" /\ s # "succeeded"
    BY DEF States, Open, Bad, Terminal
  <2>3. /\ pc \in Points /\ pc \in {"begin", "readback", "finish"}
        /\ pc = "begin" => ~ job[j].claimed
        /\ pc = "readback" => job[j].claimed
        /\ pc = "finish" => ~ job[j].claimed
    BY <1>2, <1>3, JobFields DEF Resumed, Recovering, Points, Gates
  <2> HIDE DEF s, pc
  <2>4. /\ g \in Job /\ g.action = job[j].action /\ g.claimed = job[j].claimed
        /\ g.token = w /\ g.state = s
    <3>1. w \in Workers \cup {Nobody} /\ TRUE \in BOOLEAN
      OBVIOUS
    <3> QED BY <1>3, <2>2, <3>1, Zenon DEF Job
  <2> HIDE DEF g
  <2>5. u \in Worker /\ u.pc = pc /\ u.job = j /\ u.verdict = "cancelled"
    <3>1. "cancelled" \in Verdicts /\ j \in Jobs \cup {Nobody}
      BY <1>2 DEF Verdicts, Terminal
    <3> QED BY <2>3, <3>1, Zenon DEF Worker
  <2> HIDE DEF u
  <2>6. /\ worker' \in [Workers -> Worker] /\ worker'[w] = u
        /\ \A v \in Workers \ {w} : worker'[v] = worker[v]
    BY <1>3, <2>1, <2>5, WorkerWritten
  <2>7. job'[j] = g
    BY <1>2, <1>3, <2>1, <2>4, JobWritten
  <2>8. ~ Licensed(w, j)' /\ worker'[w] # worker[w]
    BY <1>1, <2>3, <2>5, <2>6 DEF Licensed, LicensePoints
  <2>9. ~ job[j].claimed => Clean(j)'
    <3>1. ~ job[j].claimed => Clean(j)
      BY <1>3 DEF JobOK
    <3>2. \A v \in Workers : Licensed(v, j)' => Licensed(v, j)
      BY <2>6, <2>8 DEF Licensed
    <3> QED BY <1>2, <3>1, <3>2 DEF Clean
  <2>10. WorkerOK(w)'
    <3>1. "cancelled" # "succeeded"
      OBVIOUS
    <3> QED BY <1>2, <2>2, <2>3, <2>4, <2>5, <2>6, <2>7, <2>9, <3>1 DEF WorkerOK, LicensePoints
  <2>11. lock' \in [Resources -> Jobs \cup {Nobody}] /\ older' \subseteq Jobs \X Jobs
    BY <1>2, <1>3, <2>1, TouchedFits DEF JobTypeOK
  <2>12. LocksKept(j)
    <3>1. SUFFICES ASSUME NEW k \in Jobs \ {j}, Unsettled(k),
                          job[k].claimed \/ job[k].token # Nobody, NEW r \in Needs(k)
                   PROVE  lock'[r] = lock[r]
      BY DEF LocksKept
    <3>2. lock[r] = k /\ r \in Resources
      BY <1>3, <3>1, NeedsFit DEF JobsInv, JobOK
    <3>3. job[k].state \notin Terminal /\ k # Nobody
      BY <3>1 DEF Unsettled, Open, Terminal
    <3>4. r \notin Needs(j)
      BY <1>5, <3>1, <3>2, <3>3 DEF Busy
    <3> QED BY <2>1, <3>2, <3>4
  <2>13. \A r \in Needs(j) : lock'[r] = j
    BY <1>2, <1>3, <2>1, NeedsFit
  <2>14. /\ job' = [job EXCEPT ![j] = g] /\ worker' \in [Workers -> Worker]
         /\ worker'[w].job = j /\ \A v \in Workers \ {w} : worker'[v] = worker[v]
         /\ g.token = w /\ worker'[w] # worker[w]
         /\ g.state \notin Bad /\ g.state # "succeeded" /\ g.state # "none"
    BY <2>1, <2>2, <2>4, <2>5, <2>6, <2>8
  <2> QED BY <1>2, <1>3, <2>4, <2>8, <2>10, <2>11, <2>12, <2>13, <2>14, RowAndWorkerFit,
     ZenonT(60)
<1> QED BY <1>4, <1>5

-----------------------------------------------------------------------------
\* EnqueueJob: no worker knows of a job that is not registered.
LEMMA EnqueueFits ==
    ASSUME JobsInv, NEW j \in Jobs, EnqueueJob(j)
    PROVE  JobsInv' /\ OneJobMoves
<1>1. /\ job[j].state = "none" /\ older' = Touched(j, "queued")
      /\ UNCHANGED <<lock, worker, ledger, air, done, rests>>
  BY DEF EnqueueJob, domain
<1>2. JobTypeOK /\ JobOK(j) /\ job[j] \in Job
  BY JobFields DEF JobsInv
<1>3. PICK a \in Asks[j] : job' = [job EXCEPT ![j].state = "queued", ![j].action = a]
  BY Zenon DEF EnqueueJob
<1> DEFINE g == [job[j] EXCEPT !.state = "queued", !.action = a]
<1>4. job' = [job EXCEPT ![j] = g]
  BY <1>2, <1>3, Zenon DEF JobTypeOK
<1>5. /\ g \in Job /\ g.claimed = job[j].claimed /\ g.token = job[j].token
      /\ g.state = "queued"
  <2>1. "queued" \in States /\ a \in Action
    BY <1>2 DEF States, Open
  <2> QED BY <1>2, <2>1, Zenon DEF Job
<1> HIDE DEF g
<1>6. job' \in [Jobs -> Job] /\ job'[j] = g /\ \A k \in Jobs \ {j} : job'[k] = job[k]
  BY <1>2, <1>4, <1>5, JobWritten
<1>7. JobTypeOK' /\ Elsewhere(j) /\ LocksKept(j)
  BY <1>1, <1>2, <1>6, TouchedFits DEF JobTypeOK, Elsewhere, LocksKept
<1>8. JobOK(j)'
  <2>1. ~ g.claimed /\ g.token = Nobody /\ Clean(j) /\ ledger[j] = "none"
    BY <1>1, <1>2, <1>5 DEF JobOK
  <2>2. Clean(j)'
    BY <1>1, <2>1 DEF Clean, Licensed
  <2>3. "queued" \notin Bad /\ "queued" # "succeeded" /\ "queued" # "none" /\ "none" # "done"
    BY DEF Bad, Terminal
  <2> QED BY <1>1, <1>5, <1>6, <2>1, <2>2, <2>3 DEF JobOK, Clean
<1>9. \A v \in Workers : worker'[v].pc # "idle" => worker'[v].job # j
  BY <1>1 DEF JobsInv, WorkerOK
<1>10. RowMoves(j)
  <2>1. "queued" \in Open
    BY DEF Open
  <2> QED BY <1>1, <1>5, <1>6, <2>1 DEF RowMoves
<1> QED BY <1>1, <1>7, <1>8, <1>9, <1>10, StepAboutFits DEF OneJobMoves

\* ClaimEffect: the licence goes to the holder of the token, and to nobody else.
LEMMA ClaimEffectFits ==
    ASSUME JobsInv, NEW w \in Workers, ClaimEffect(w)
    PROVE  JobsInv' /\ OneJobMoves
<1>1. /\ worker[w].pc = "claim" /\ worker[w].pc # "idle" /\ OwnedJob(w)
      /\ UNCHANGED <<lock, ledger, done, air, rests>> /\ Goes(w, "execute")
  BY DEF ClaimEffect, Passes, domain
<1>2. PICK j \in Jobs : worker[w].job = j
  BY <1>1, HasJob
<1>3. JobTypeOK /\ JobOK(j) /\ WorkerOK(w) /\ job[j].state # "none" /\ job[j] \in Job
  BY <1>1, <1>2, JobOfWorker
<1> DEFINE g == [job[j] EXCEPT !.claimed = TRUE]
<1>4. job' = [job EXCEPT ![j] = g] /\ older' = Touched(j, "running")
  BY <1>2, Zenon DEF ClaimEffect
<1>5. /\ g \in Job /\ g.action = job[j].action /\ g.claimed = TRUE
      /\ g.token = job[j].token /\ g.state = job[j].state
  <2>1. TRUE \in BOOLEAN
    OBVIOUS
  <2> QED BY <1>3, <2>1, Zenon DEF Job
<1> HIDE DEF g
<1>6. job' \in [Jobs -> Job] /\ job'[j] = g /\ \A k \in Jobs \ {j} : job'[k] = job[k]
  BY <1>3, <1>4, <1>5, JobWritten
<1>7. /\ worker' \in [Workers -> Worker]
      /\ worker'[w].pc = "execute" /\ worker'[w].job = j
      /\ \A v \in Workers \ {w} : worker'[v] = worker[v]
  <2>1. "execute" \in Points
    BY DEF Points, Gates
  <2> QED BY <1>1, <1>2, <1>3, <2>1, GoesFits
<1>8. JobTypeOK' /\ Elsewhere(j) /\ LocksKept(j)
  BY <1>1, <1>3, <1>4, <1>6, <1>7, TouchedFits DEF JobTypeOK, Elsewhere, LocksKept
<1>9. /\ job[j].token = w /\ Unsettled(j) /\ job[j].state \in {"queued", "running"}
      /\ \A r \in Needs(j) : lock[r] = j
  BY <1>1, <1>2, OwnerKnows
<1>10. ~ job[j].claimed /\ Clean(j) /\ ledger[j] = "none" /\ done[j] = 0 /\ j \notin air
  <2>1. ~ job[j].claimed
    BY <1>1, <1>2, <1>3, <1>9 DEF WorkerOK
  <2> QED BY <1>3, <2>1 DEF JobOK, Clean
<1>11. /\ job'[j].claimed = TRUE /\ job'[j].token = w /\ job'[j].state = job[j].state
       /\ Needs(j)' = Needs(j) /\ Unsettled(j)' /\ done'[j] = 0 /\ j \notin air'
       /\ lock' = lock /\ ledger'[j] = "none"
       /\ job[j].state \notin Bad /\ job[j].state # "succeeded"
  BY <1>1, <1>5, <1>6, <1>9, <1>10 DEF Needs, Unsettled, Bad, Terminal
<1>12. JobOK(j)'
  <2>1. \A r \in Needs(j)' : lock'[r] = j
    BY <1>9, <1>11
  <2> QED BY <1>3, <1>11, <2>1 DEF JobOK
<1>13. ASSUME NEW v \in Workers, worker'[v].job = j, worker'[v].pc # "idle"
       PROVE  WorkerOK(v)'
  <2>1. CASE v = w
    <3>1. \A u \in Workers \ {w} : ~ Licensed(u, j)'
      BY <1>7, <1>10 DEF Clean, Licensed
    <3> QED BY <1>3, <1>7, <1>11, <2>1, <3>1 DEF WorkerOK
  <2>2. CASE v # w
    <3>1. worker'[v] = worker[v] /\ worker[v].pc \notin LicensePoints /\ WorkerOK(v)
      BY <1>7, <1>10, <1>13, <2>2 DEF Clean, Licensed, JobsInv
    <3>2. worker[v].pc # "report"
      BY <1>10, <1>13, <3>1 DEF WorkerOK
    <3> QED BY <1>3, <1>11, <1>13, <2>2, <3>1, <3>2 DEF WorkerOK
  <2> QED BY <2>1, <2>2
<1>14. \A v \in Workers : worker'[v] = worker[v] \/ worker'[v].job = j
  BY <1>7
<1>15. RowMoves(j)
  BY <1>1, <1>3, <1>5, <1>6, <1>9 DEF RowMoves
<1> QED BY <1>8, <1>12, <1>13, <1>14, <1>15, StepAboutFits DEF OneJobMoves

\* The effect of a job takes place: it had been begun and no verdict was given.
LEMMA EffectFits ==
    ASSUME JobsInv, JobTypeOK', NEW j \in Jobs, ~ Clean(j), done[j] = 0, UNCHANGED <<job, lock>>,
           \A k \in Jobs \ {j} : ledger'[k] = ledger[k] /\ done'[k] = done[k]
                                 /\ (k \in air' <=> k \in air),
           done'[j] = 1, j \notin air',
           \A v \in Workers :
               \/ worker'[v] = worker[v] /\ ~ Licensed(v, j)
               \/ /\ worker'[v].job = j
                  /\ worker'[v].pc \in {"report", "finish"}
                  /\ worker'[v].pc = "finish" => worker'[v].verdict \notin Bad
    PROVE  JobsInv' /\ OneJobMoves
<1>1. JobOK(j) /\ job[j].claimed /\ job[j].state \notin Bad
  <2>1. JobOK(j)
    BY DEF JobsInv
  <2> QED BY <2>1 DEF JobOK
<1>2. Elsewhere(j) /\ LocksKept(j)
  BY DEF Elsewhere, LocksKept
<1>3. Shown(j)'
  BY DEF Shown
<1>4. Needs(j)' = Needs(j) /\ Unsettled(j)' = Unsettled(j) /\ job' = job /\ lock' = lock
  BY DEF Needs, Unsettled
<1>5. JobOK(j)'
  BY <1>1, <1>3, <1>4 DEF JobOK
<1>6. job[j].state # "none"
  BY <1>1 DEF JobOK
<1>7. ASSUME NEW v \in Workers, worker'[v].job = j, worker'[v].pc # "idle"
      PROVE  WorkerOK(v)'
  <2>1. CASE worker'[v] = worker[v] /\ ~ Licensed(v, j)
    <3>1. WorkerOK(v) /\ worker[v].job = j /\ worker[v].pc \notin LicensePoints
      BY <1>7, <2>1 DEF JobsInv, Licensed
    <3>2. worker[v].pc = "finish" /\ job[j].token = v => worker[v].verdict \notin Bad
      BY <3>1 DEF WorkerOK
    <3> QED BY <1>3, <1>4, <1>6, <2>1, <3>1, <3>2 DEF WorkerOK
  <2>2. CASE /\ worker'[v].pc \in {"report", "finish"}
             /\ worker'[v].pc = "finish" => worker'[v].verdict \notin Bad
    BY <1>3, <1>4, <1>6, <1>7, <2>2 DEF WorkerOK, LicensePoints
  <2> QED BY <2>1, <2>2
<1>8. \A v \in Workers : worker'[v] = worker[v] \/ worker'[v].job = j
  OBVIOUS
<1>9. EffectMoves(j)
  BY DEF EffectMoves
<1> QED BY <1>2, <1>5, <1>7, <1>8, <1>9, StepAboutFits DEF OneJobMoves

\* ExecuteRecord: the effect and its receipt.
LEMMA ExecuteRecordFits ==
    ASSUME JobsInv, NEW w \in Workers, ExecuteRecord(w)
    PROVE  JobsInv' /\ OneJobMoves
<1>1. /\ worker[w].pc \in LicensePoints /\ worker[w].pc # "idle"
      /\ UNCHANGED <<job, older, lock, air, rests>> /\ Ends(w, "succeeded")
  BY DEF ExecuteRecord, Passes, LicensePoints
<1>2. PICK j \in Jobs : worker[w].job = j
  BY <1>1, HasJob
<1>3. done' = [done EXCEPT ![j] = @ + 1] /\ ledger' = [ledger EXCEPT ![j] = "done"]
  BY <1>2, Zenon DEF ExecuteRecord
<1>4. JobTypeOK
  BY <1>1, <1>2, JobOfWorker
<1>5. /\ Licensed(w, j) /\ done[j] = 0 /\ j \notin air
      /\ \A v \in Workers \ {w} : ~ Licensed(v, j)
  BY <1>1, <1>2, HasLicense
<1>6. "succeeded" \in Verdicts /\ "succeeded" \notin Bad /\ "done" \in Entries
  BY DEF Verdicts, Terminal, Bad, Entries
<1>7. /\ worker' \in [Workers -> Worker]
      /\ worker'[w].pc = "finish" /\ worker'[w].job = j /\ worker'[w].verdict = "succeeded"
      /\ \A v \in Workers \ {w} : worker'[v] = worker[v]
  BY <1>1, <1>2, <1>4, <1>6, EndsFits
<1>8. /\ done' \in [Jobs -> Nat] /\ done'[j] = 1
      /\ ledger' \in [Jobs -> Entries]
      /\ \A k \in Jobs \ {j} : ledger'[k] = ledger[k] /\ done'[k] = done[k]
  BY <1>3, <1>4, <1>5, <1>6 DEF JobTypeOK
<1>9. JobTypeOK'
  BY <1>1, <1>4, <1>7, <1>8 DEF JobTypeOK
<1>10. ~ Clean(j)
  BY <1>5 DEF Clean
<1> QED BY <1>1, <1>5, <1>6, <1>7, <1>8, <1>9, <1>10, EffectFits

\* Act: the request or the command, in the hands of the one worker with the licence.
LEMMA ActFits ==
    ASSUME JobsInv, NEW w \in Workers, Act(w)
    PROVE  JobsInv' /\ OneJobMoves
<1>1. /\ worker[w].pc \in LicensePoints /\ worker[w].pc # "idle"
      /\ UNCHANGED <<job, older, lock, ledger>>
  BY DEF Act, LicensePoints
<1>2. PICK j \in Jobs : worker[w].job = j
  BY <1>1, HasJob
<1>3. /\ JobTypeOK /\ JobOK(j) /\ WorkerOK(w) /\ older \subseteq Jobs \X Jobs
      /\ ledger \in [Jobs -> Entries] /\ (ledger[j] = "done" => Shown(j))
  BY <1>1, <1>2, JobOfWorker
<1>4. /\ Licensed(w, j) /\ done[j] = 0 /\ j \notin air /\ job[j].claimed
      /\ \A v \in Workers \ {w} : ~ Licensed(v, j)
  BY <1>1, <1>2, HasLicense
<1>5. ~ Clean(j)
  BY <1>4 DEF Clean
<1> DEFINE open == "reconciliation_pending"
<1>6. /\ open \in Verdicts /\ open \notin Bad /\ open # "succeeded" /\ "report" \in Points
  BY DEF Verdicts, Terminal, Bad, Points
<1>7. Ends(w, open) =>
        /\ worker' \in [Workers -> Worker]
        /\ worker'[w].pc = "finish" /\ worker'[w].job = j /\ worker'[w].verdict = open
        /\ \A v \in Workers \ {w} : worker'[v] = worker[v]
  BY <1>2, <1>3, <1>6, EndsFits
<1> HIDE DEF open
<1>8. CASE /\ done' = [done EXCEPT ![j] = @ + 1]
           /\ Goes(w, "report") \/ Ends(w, open)
           /\ UNCHANGED air /\ rests' = rests \ {j}
  <2>1. /\ worker' \in [Workers -> Worker] /\ worker'[w].job = j
        /\ worker'[w].pc \in {"report", "finish"}
        /\ worker'[w].pc = "finish" => worker'[w].verdict \notin Bad
        /\ \A v \in Workers \ {w} : worker'[v] = worker[v]
    <3>1. CASE Goes(w, "report")
      BY <1>2, <1>3, <1>6, <3>1, GoesFits
    <3>2. CASE Ends(w, open)
      BY <1>6, <1>7, <3>2
    <3> QED BY <1>8, <3>1, <3>2
  <2>2. /\ done' \in [Jobs -> Nat] /\ done'[j] = 1
        /\ \A k \in Jobs \ {j} : done'[k] = done[k]
    BY <1>3, <1>4, <1>8 DEF JobTypeOK
  <2>3. JobTypeOK'
    BY <1>1, <1>3, <1>8, <2>1, <2>2 DEF JobTypeOK
  <2> QED BY <1>1, <1>4, <1>5, <1>8, <2>1, <2>2, <2>3, EffectFits
<1>9. CASE Ends(w, open) /\ air' = air \cup {j} /\ Kind(j) \in Trades /\ UNCHANGED <<done, rests>>
  <2>1. /\ worker' \in [Workers -> Worker]
        /\ worker'[w].pc = "finish" /\ worker'[w].job = j /\ worker'[w].verdict = open
        /\ \A v \in Workers \ {w} : worker'[v] = worker[v]
    BY <1>7, <1>9
  <2>2. JobTypeOK'
    BY <1>1, <1>3, <1>9, <2>1 DEF JobTypeOK
  <2>3. Elsewhere(j) /\ LocksKept(j)
    BY <1>1, <1>9 DEF Elsewhere, LocksKept
  <2>4. /\ Unsettled(j) \/ (job[j].state = "succeeded" /\ BySight(j))
        /\ job[j].state \notin Bad
    BY <1>1, <1>2, <1>3, <1>5, <1>9 DEF WorkerOK, JobOK
  <2>5. /\ Shown(j)' = Shown(j) /\ Needs(j)' = Needs(j) /\ Unsettled(j)' = Unsettled(j)
        /\ Kind(j)' = Kind(j) /\ job' = job /\ lock' = lock /\ ledger' = ledger
        /\ done' = done
    BY <1>1, <1>9 DEF Shown, Kind, BySight, Needs, Unsettled
  <2>6. JobOK(j)'
    <3>1. /\ BySight(j)' = BySight(j)
          /\ job[j].state = "succeeded" => Shown(j)
      BY <1>3, <2>5 DEF JobOK, BySight
    <3> QED BY <1>3, <1>4, <1>9, <2>4, <2>5, <3>1 DEF JobOK
  <2>7. ASSUME NEW v \in Workers, worker'[v].job = j, worker'[v].pc # "idle"
        PROVE  WorkerOK(v)'
    <3>0. job[j].state # "none"
      BY <2>4 DEF Unsettled, Open
    <3>1. CASE v = w
      BY <1>6, <2>1, <2>5, <3>0, <3>1 DEF WorkerOK, LicensePoints
    <3>2. CASE v # w
      <4>1. worker'[v] = worker[v] /\ WorkerOK(v) /\ worker[v].pc \notin LicensePoints
        BY <1>4, <2>1, <2>7, <3>2 DEF Licensed, JobsInv
      <4>2. worker[v].pc = "finish" /\ job[j].token = v => worker[v].verdict \notin Bad
        BY <1>5, <2>7, <4>1 DEF WorkerOK
      <4> QED BY <2>5, <2>7, <3>0, <4>1, <4>2 DEF WorkerOK
    <3> QED BY <3>1, <3>2
  <2>8. \A v \in Workers : worker'[v] = worker[v] \/ worker'[v].job = j
    BY <2>1
  <2>9. EffectMoves(j)
    BY <1>1, <1>4, <1>5, <1>9 DEF EffectMoves
  <2> QED BY <2>2, <2>3, <2>6, <2>7, <2>8, <2>9, StepAboutFits DEF OneJobMoves
<1>10. CASE Ends(w, open) /\ UNCHANGED <<air, done, rests>>
  BY <1>1, <1>2, <1>3, <1>4, <1>6, <1>10, VerdictFits
<1> QED BY <1>2, <1>8, <1>9, <1>10, Zenon DEF Act, open

\* Land: a trade on its way has an open job, and nobody else carries it out.
LEMMA LandFits ==
    ASSUME JobsInv, NEW j \in Jobs, Land(j)
    PROVE  JobsInv' /\ OneJobMoves
<1>1. /\ j \in air /\ air' = air \ {j} /\ done' = [done EXCEPT ![j] = @ + 1]
      /\ rests' = rests \ {j}
      /\ UNCHANGED <<job, older, lock, worker, ledger>>
  BY DEF Land
<1>2. JobTypeOK /\ JobOK(j)
  BY DEF JobsInv
<1>3. done[j] = 0 /\ ~ Clean(j)
  BY <1>1, <1>2 DEF JobOK, Clean
<1>4. \A v \in Workers : ~ Licensed(v, j)
  BY <1>1 DEF JobsInv, WorkerOK, Licensed
<1>5. /\ done' \in [Jobs -> Nat] /\ done'[j] = 1
      /\ \A k \in Jobs \ {j} : done'[k] = done[k]
  BY <1>1, <1>2, <1>3 DEF JobTypeOK
<1>6. JobTypeOK' /\ j \notin air'
  BY <1>1, <1>2, <1>5 DEF JobTypeOK
<1> QED BY <1>1, <1>3, <1>4, <1>5, <1>6, EffectFits

\* Leaves: the order of an entry that nobody cancelled for the job is gone.
LEMMA LeavesFits ==
    ASSUME JobsInv, NEW j \in Jobs, Leaves(j)
    PROVE  JobsInv' /\ OneJobMoves
<1>1. UNCHANGED <<job, older, lock, worker, ledger, air, done>> /\ rests' \subseteq rests
  BY DEF Leaves
<1>2. JobTypeOK'
  BY <1>1 DEF JobsInv, JobTypeOK
<1> QED BY <1>1, <1>2 DEF JobsInv, JobOK, WorkerOK, Clean, Shown, Licensed, Unsettled, Kind,
     BySight, Needs, OneJobMoves

-----------------------------------------------------------------------------
LEMMA JobsInitHolds == JobsInit => JobsInv
<1> SUFFICES ASSUME JobsInit PROVE JobsInv
  OBVIOUS
<1>1. /\ NoJob \in Job /\ NoJob.state = "none"
      /\ ~ NoJob.claimed /\ ~ NoJob.held /\ NoJob.token = Nobody
  <2>1. /\ "none" \in States /\ NoAction \in Action
        /\ Nobody \in Workers \cup {Nobody} /\ FALSE \in BOOLEAN
    BY DEF States, NoAction, Action, Adapters
  <2> HIDE DEF NoAction
  <2> QED BY <2>1, Zenon DEF NoJob, Job
<1>2. AtRest \in Worker /\ AtRest.pc = "idle"
  <2>1. "idle" \in Points /\ "cancelled" \in Verdicts /\ Nobody \in Jobs \cup {Nobody}
    BY DEF Points, Verdicts, Terminal
  <2> QED BY <2>1, Zenon DEF AtRest, Worker
<1>3. JobTypeOK
  BY <1>1, <1>2 DEF JobsInit, JobTypeOK, Entries
<1>4. ASSUME NEW w \in Workers
      PROVE  WorkerOK(w) /\ worker[w].pc = "idle"
  BY <1>2 DEF JobsInit, WorkerOK, LicensePoints
<1>5. ASSUME NEW j \in Jobs
      PROVE  JobOK(j)
  <2>1. job[j].state = "none" /\ ~ job[j].claimed /\ ~ job[j].held /\ job[j].token = Nobody
        /\ done[j] = 0 /\ ledger[j] = "none" /\ j \notin air
    BY <1>1 DEF JobsInit
  <2>2. Clean(j)
    BY <1>4, <2>1 DEF Clean, Licensed, LicensePoints
  <2> QED BY <2>1, <2>2 DEF JobOK, Unsettled, Open
<1> QED BY <1>3, <1>4, <1>5 DEF JobsInv

LEMMA JobsNextHolds == JobsInv /\ [JobsNext]_jobVars => JobsInv' /\ OneJobMoves
<1> SUFFICES ASSUME JobsInv, [JobsNext]_jobVars PROVE JobsInv' /\ OneJobMoves
  OBVIOUS
<1>1. ASSUME NEW w \in Workers, WorkerStep(w)
      PROVE  JobsInv' /\ OneJobMoves
  BY <1>1, ClaimJobFits, FinishFits, RefuseFits, BeginRunningFits, ClaimEffectFits,
     ExecuteRecordFits, UnusedFits, LicenseFits, ActFits, ReportFits, ReadbackFits
     DEF WorkerStep
<1>2. ASSUME NEW w \in Workers, StopWorker(w)
      PROVE  JobsInv' /\ OneJobMoves
  BY <1>2, LetsGo DEF StopWorker, domain
<1>3. ASSUME NEW j \in Jobs, JobStep(j)
      PROVE  JobsInv' /\ OneJobMoves
  BY <1>3, EnqueueFits, OwnerStepsFit, LandFits, LeavesFits DEF JobStep
<1>4. CASE UNCHANGED jobVars
  BY <1>4 DEF jobVars, JobsInv, JobTypeOK, JobOK, WorkerOK, Clean, Shown, Licensed, Unsettled,
     Kind, BySight, Needs, OneJobMoves
<1> QED BY <1>1, <1>2, <1>3, <1>4 DEF JobsNext

\* The invariant of the job queue and its workers.
THEOREM JobsInvariant == JobsSpec => []JobsInv
BY JobsInitHolds, JobsNextHolds, PTL DEF JobsSpec

\* The job table, the locks, the workers and the adapters' ledgers keep their types.
THEOREM JobsTypeCorrect == JobsSpec => []JobTypeOK
<1>1. JobsInv => JobTypeOK
  BY DEF JobsInv
<1> QED BY <1>1, JobsInvariant, PTL

-----------------------------------------------------------------------------
\* An effect that has begun is that of a job whose outcome is open and that holds its
\* resources, or of a job that was settled by what was seen.
LEMMA BegunIsOpen ==
    ASSUME JobsInv, NEW j \in Jobs, ~ Clean(j), done[j] = 0
    PROVE  /\ job[j].claimed /\ JobOK(j)
           /\ Unsettled(j) \/ (job[j].state = "succeeded" /\ BySight(j))
<1>1. JobOK(j) /\ job[j].state \in States
  BY JobFields DEF JobsInv
<1>2. job[j].claimed /\ job[j].state \notin Bad /\ job[j].state # "none"
  BY <1>1 DEF JobOK
<1>3. job[j].state = "succeeded" => BySight(j)
  BY <1>1 DEF JobOK, Shown
<1> QED BY <1>1, <1>2, <1>3, StateIsOne DEF Unsettled

\* Effects on a resource are serial: unless its job was settled by what was seen, an effect
\* takes place only while its job holds its resources, and so does every job that is claimed
\* and whose outcome is open.
THEOREM EffectsInTurn == JobsSpec => EffectsAreSerial
<1>1. ASSUME JobsInv, OneJobMoves, NEW j \in Jobs, NEW k \in Jobs,
             done'[j] > done[j], Share(j, k), ~ (BySight(j) /\ job[j].state = "succeeded"),
             Unsettled(k), job[k].claimed
      PROVE  FALSE
  <2>1. EffectMoves(j)
    <3>1. JobTypeOK /\ done[j] \in Nat
      BY <1>1, JobFields DEF JobsInv
    <3>2. done'[j] # done[j]
      BY <1>1, <3>1
    <3> QED BY <1>1, <3>2 DEF OneJobMoves, RowMoves, EffectMoves
  <2>2. Unsettled(j) /\ job[j].claimed /\ JobOK(j)
    <3>1. ~ Clean(j) /\ done[j] = 0
      BY <2>1 DEF EffectMoves
    <3> QED BY <1>1, <3>1, BegunIsOpen
  <2>3. JobOK(k)
    BY <1>1 DEF JobsInv
  <2>4. PICK r \in Needs(j) : r \in Needs(k) /\ j # k
    BY <1>1 DEF Share
  <2> QED BY <1>1, <2>2, <2>3, <2>4 DEF JobOK
<1>2. JobsInv /\ [JobsNext]_jobVars =>
          [\A j, k \in Jobs :
              (done'[j] > done[j] /\ Share(j, k) /\ ~ (BySight(j) /\ job[j].state = "succeeded"))
                  => ~ (Unsettled(k) /\ job[k].claimed)]_jobVars
  BY <1>1, JobsNextHolds
<1> QED BY <1>2, JobsInvariant, PTL DEF JobsSpec, EffectsAreSerial

-----------------------------------------------------------------------------
\* What the owner reads of a job, and what became of its effect.
LEMMA VerdictFitsState ==
    ASSUME JobTypeOK, NEW j \in Jobs
    PROVE  /\ VerdictOf(j) = "none" <=> job[j].state = "none"
           /\ VerdictOf(j) = "open" <=> Unsettled(j)
           /\ VerdictOf(j) = "good" <=> job[j].state = "succeeded"
           /\ VerdictOf(j) = "bad" <=> job[j].state \in Bad
<1>1. job[j].state \in States
  BY JobFields
<1> QED BY <1>1 DEF VerdictOf, Unsettled, States, Open, Bad, Terminal

LEMMA EffectFitsWorld ==
    ASSUME NEW j \in Jobs, JobOK(j)
    PROVE  /\ EffectOf(j) = "no" <=> done[j] = 0 /\ j \notin air
           /\ EffectOf(j) = "sent" <=> done[j] = 0 /\ j \in air
           /\ EffectOf(j) = "yes" <=> done[j] = 1
BY DEF EffectOf, Effects, JobOK

\* The step of one errand, from the pieces of it.
LEMMA OneErrandMoves ==
    ASSUME NEW j \in Jobs,
           \A k \in Jobs \ {j} : /\ VerdictOf(k)' = VerdictOf(k) /\ EffectOf(k)' = EffectOf(k)
                                 /\ BySight(k)' = BySight(k),
           NEW v, NEW e, NEW b \in BOOLEAN,
           VerdictOf(j)' = v, EffectOf(j)' = e, BySight(j)' = b
    PROVE  /\ [k \in Jobs |-> VerdictOf(k)]' = [[k \in Jobs |-> VerdictOf(k)] EXCEPT ![j] = v]
           /\ [k \in Jobs |-> EffectOf(k)]' = [[k \in Jobs |-> EffectOf(k)] EXCEPT ![j] = e]
           /\ [k \in Jobs |-> BySight(k)]'
                  = [[k \in Jobs |-> BySight(k)] EXCEPT ![j] = b]
OBVIOUS

\* A step is a step of one errand, or none.
LEMMA JobsAreErrands ==
    ASSUME JobsInv, JobsInv', OneJobMoves
    PROVE  [Promise!ErrandNext]_(Promise!errandVars)
<1> DEFINE Told == [k \in Jobs |-> VerdictOf(k)]
           Came == [k \in Jobs |-> EffectOf(k)]
           Seen == [k \in Jobs |-> BySight(k)]
<1>1. SUFFICES \/ UNCHANGED <<Told, Came, Seen>>
               \/ \E j \in Jobs : \/ Promise!Ask(j) \/ Promise!Dispatch(j)
                                  \/ Promise!Happen(j) \/ Promise!Judge(j)
  BY DEF Promise!ErrandNext, Promise!errandVars
<1>2. CASE UNCHANGED <<job, done, air>>
  BY <1>2 DEF VerdictOf, EffectOf, Effects, Kind, BySight
<1>3. ASSUME NEW j \in Jobs, RowMoves(j)
      PROVE  \/ UNCHANGED <<Told, Came, Seen>>
             \/ Promise!Ask(j) \/ Promise!Judge(j)
  <2>1. \A k \in Jobs \ {j} : /\ VerdictOf(k)' = VerdictOf(k) /\ EffectOf(k)' = EffectOf(k)
                              /\ BySight(k)' = BySight(k)
    BY <1>3 DEF RowMoves, VerdictOf, EffectOf, Effects, Kind, BySight
  <2>2. EffectOf(j)' = EffectOf(j) /\ done' = done /\ air' = air
    BY <1>3 DEF RowMoves, EffectOf, Effects
  <2>3. JobTypeOK /\ JobOK(j) /\ JobOK(j)' /\ job'[j].state \in States
    <3>1. JobTypeOK' /\ JobOK(j)' /\ JobTypeOK /\ JobOK(j)
      BY DEF JobsInv
    <3> QED BY <3>1, Zenon DEF JobTypeOK, Job
  <2>4. CASE job[j].state = "none" /\ job'[j].state \in Open
    <3> DEFINE b == (job'[j].action.adapter \in SightAdapters)
    <3>1. VerdictOf(j) = "none" /\ VerdictOf(j)' = "open"
      BY <2>4 DEF VerdictOf, Open
    <3>2. BySight(j)' = b /\ b \in BOOLEAN
      BY DEF Kind, BySight
    <3> HIDE DEF b
    <3>3. /\ Told' = [Told EXCEPT ![j] = "open"] /\ Came' = Came
          /\ Seen' = [Seen EXCEPT ![j] = b]
      BY <2>1, <2>2, <3>1, <3>2, OneErrandMoves, ZenonT(60)
    <3>4. Told[j] = "none"
      BY <3>1
    <3> HIDE DEF Told, Came, Seen
    <3>5. Promise!Ask(j)
      BY <3>2, <3>3, <3>4 DEF Promise!Ask, Told, Came, Seen
    <3> QED BY <3>5
  <2>5. CASE job[j].state # "none" /\ job'[j].action = job[j].action
    <3>1. Seen' = Seen /\ Came' = Came
      BY <2>1, <2>2, <2>5 DEF Kind, BySight
    <3>2. CASE VerdictOf(j)' = VerdictOf(j)
      BY <2>1, <3>1, <3>2
    <3>3. CASE VerdictOf(j)' # VerdictOf(j)
      <4>1. Unsettled(j) /\ job'[j].state # "none" /\ VerdictOf(j) = "open"
        <5>1. job'[j].state # job[j].state
          BY <3>3 DEF VerdictOf
        <5> QED BY <1>3, <2>3, <2>5, <5>1, VerdictFitsState DEF RowMoves
      <4>2. \/ VerdictOf(j)' = "good" /\ job'[j].state = "succeeded"
            \/ VerdictOf(j)' = "bad" /\ job'[j].state \in Bad
        BY <2>3, <3>3, <4>1 DEF VerdictOf, States, Open, Bad, Terminal
      <4>3. CASE VerdictOf(j)' = "good" /\ job'[j].state = "succeeded"
        <5>1. Shown(j)'
          BY <2>3, <4>3 DEF JobOK
        <5>2. BySight(j)' = BySight(j)
          BY <2>5 DEF Kind, BySight
        <5>3. EffectOf(j) = "yes" \/ BySight(j)
          BY <2>2, <2>3, <5>1, <5>2, EffectFitsWorld DEF Shown
        <5>4. Told' = [Told EXCEPT ![j] = "good"]
          BY <2>1, <4>3
        <5> QED BY <3>1, <4>1, <5>3, <5>4 DEF Promise!Judge
      <4>4. CASE VerdictOf(j)' = "bad" /\ job'[j].state \in Bad
        <5>1. Clean(j)'
          BY <2>3, <4>4 DEF JobOK
        <5>2. EffectOf(j) = "no"
          BY <2>2, <2>3, <5>1, EffectFitsWorld DEF Clean
        <5>3. Told' = [Told EXCEPT ![j] = "bad"]
          BY <2>1, <4>4
        <5> QED BY <3>1, <4>1, <5>2, <5>3 DEF Promise!Judge
      <4> QED BY <4>2, <4>3, <4>4
    <3> QED BY <3>2, <3>3
  <2> QED BY <1>3, <2>4, <2>5 DEF RowMoves
<1>4. ASSUME NEW j \in Jobs, EffectMoves(j)
      PROVE  Promise!Dispatch(j) \/ Promise!Happen(j)
  <2>1. \A k \in Jobs \ {j} : EffectOf(k)' = EffectOf(k)
    BY <1>4 DEF EffectMoves, EffectOf, Effects
  <2>2. Told' = Told /\ Seen' = Seen
    BY <1>4 DEF EffectMoves, VerdictOf, Kind, BySight
  <2>3. done[j] = 0 /\ ~ Clean(j) /\ JobTypeOK
    BY <1>4 DEF EffectMoves, JobsInv
  <2>4. JobOK(j) /\ (Unsettled(j) \/ (job[j].state = "succeeded" /\ BySight(j)))
    BY <2>3, BegunIsOpen
  <2>5. VerdictOf(j) = "open" \/ (VerdictOf(j) = "good" /\ BySight(j))
    BY <2>3, <2>4, VerdictFitsState
  <2>6. CASE done'[j] = 1 /\ j \notin air'
    <3>1. EffectOf(j) # "yes" /\ EffectOf(j)' = "yes"
      <4>1. EffectOf(j) # "yes"
        BY <2>3, <2>4, EffectFitsWorld
      <4>2. EffectOf(j)' = "yes"
        BY <2>6 DEF EffectOf, Effects
      <4> QED BY <4>1, <4>2
    <3>2. Came' = [Came EXCEPT ![j] = "yes"]
      BY <2>1, <3>1
    <3> QED BY <2>2, <2>5, <3>1, <3>2 DEF Promise!Happen, Promise!Allowed
  <2>7. CASE done'[j] = 0 /\ j \notin air /\ j \in air'
    <3>1. EffectOf(j) = "no" /\ EffectOf(j)' = "sent"
      <4>1. EffectOf(j) = "no"
        BY <2>3, <2>4, <2>7, EffectFitsWorld
      <4>2. EffectOf(j)' = "sent"
        BY <2>7 DEF EffectOf, Effects
      <4> QED BY <4>1, <4>2
    <3>2. Came' = [Came EXCEPT ![j] = "sent"]
      BY <2>1, <3>1
    <3> QED BY <2>2, <2>5, <3>1, <3>2 DEF Promise!Dispatch, Promise!Allowed
  <2> QED BY <1>4, <2>6, <2>7 DEF EffectMoves
<1> QED BY <1>2, <1>3, <1>4 DEF OneJobMoves

\* Every job keeps the promise of an errand: its effect takes place at most once and its verdict
\* is final.  Of a record, a close and a host operation the effect takes place while the outcome
\* is open, and the verdict is true; a job that is settled by what is seen may succeed before or
\* without its own effect.
THEOREM JobKeepsPromise == JobsSpec => JobIsErrand
<1>1. JobsInit => Promise!ErrandInit
  <2>1. NoJob.state = "none" /\ NoJob.action.adapter = "record"
    BY Zenon DEF NoJob, NoAction
  <2>2. SUFFICES ASSUME JobsInit
                 PROVE  \A j \in Jobs : VerdictOf(j) = "none" /\ EffectOf(j) = "no"
                                        /\ BySight(j) = FALSE
    BY DEF Promise!ErrandInit
  <2>3. ASSUME NEW j \in Jobs
        PROVE  VerdictOf(j) = "none" /\ EffectOf(j) = "no" /\ ~ BySight(j)
    <3>1. job[j] = NoJob /\ done[j] = 0 /\ j \notin air
      BY <2>2 DEF JobsInit
    <3>2. job[j].state = "none" /\ job[j].action.adapter = "record"
      BY <2>1, <3>1, Zenon
    <3>3. VerdictOf(j) = "none"
      BY <3>2 DEF VerdictOf, Open
    <3>4. EffectOf(j) = "no"
      BY <3>1 DEF EffectOf, Effects
    <3>5. ~ BySight(j)
      BY <3>2 DEF Kind, BySight, SightAdapters
    <3> QED BY <3>3, <3>4, <3>5
  <2>4. ASSUME NEW j \in Jobs
        PROVE  BySight(j) = FALSE
    <3>1. ~ BySight(j) /\ BySight(j) \in BOOLEAN
      BY <2>3 DEF BySight
    <3> QED BY <3>1
  <2> QED BY <2>3, <2>4
<1>2. JobsInv /\ JobsInv' /\ [JobsNext]_jobVars => [Promise!ErrandNext]_(Promise!errandVars)
  BY JobsNextHolds, JobsAreErrands
<1> QED BY <1>1, <1>2, JobsInvariant, PTL DEF JobsSpec, JobIsErrand, Promise!ErrandSpec
=============================================================================
