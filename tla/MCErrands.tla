------------------------------ MODULE MCErrands ------------------------------
(***************************************************************************)
(* What is carried out on behalf of somebody, for TLC: the jobs of the     *)
(* console's owner (ConsoleJobs) and an update of the channel's author     *)
(* (SourceManagement).  They share no state: a behaviour is about one.     *)
(***************************************************************************)
EXTENDS ConsoleJobs, SourceManagement, TLC

CONSTANTS j1, j2

VARIABLE part

\* A trade or a stop competes for the account with a host operation or a record.
OnAccount(adapter) == [adapter |-> adapter, needs |-> {"account"}]
MCAsks == j1 :> {OnAccount("close"), OnAccount("cancel"), OnAccount("stop")}
          @@ j2 :> {OnAccount("host"), OnAccount("record")}

\* Each of two workers plays the console's process as well as the host's.
MCServes == [w \in Workers |-> Adapters]

errandVars == <<part, jobVars, manageVars>>

JobsPart(A)   == part = "jobs" /\ A /\ UNCHANGED <<part, manageVars>>
UpdatePart(A) == part = "update" /\ A /\ UNCHANGED <<part, jobVars>>

ErrandsInit ==
    /\ JobsInit /\ ManageInit
    /\ part \in {"jobs", "update"}
    /\ part = "jobs" => update.action = "CLOSE"

ErrandsNext == JobsPart(JobsNext) \/ UpdatePart(ManageNext)

\* The fairness of JobsSpec and of FairManageSpec, each for its part.
ErrandsSpec ==
    /\ ErrandsInit /\ [][ErrandsNext]_errandVars
    /\ \A w \in Workers: WF_errandVars(JobsPart(WorkerStep(w)))
    /\ \A j \in Jobs: WF_errandVars(JobsPart(LapseLease(j)))
    /\ WF_errandVars(UpdatePart(ManagerStep))
    /\ WF_errandVars(UpdatePart(SourceAges))

\* UpdateSettles, where there is an update: it is executed, retired or dead-lettered (park),
\* also when a claimed close was never posted and the position stays open.
EveryUpdateSettles == []<>(part # "jobs" => update.state \in Settled)

====
