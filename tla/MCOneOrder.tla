----------------------------- MODULE MCOneOrder -----------------------------
(***************************************************************************)
(* One order from its preflight to its end, for TLC.  A behaviour is about *)
(* the life of one entry (EntryLifecycle), served by a dispatcher that may *)
(* crash; or about the sizing of one entry among those that may be asked   *)
(* for (Sizing).                                                           *)
(***************************************************************************)
EXTENDS MCEntryLifecycle, MCSizing

VARIABLE part

orderVars == <<part, entryVars, sizingVars>>

LifePart(A)   == part = "life" /\ A /\ UNCHANGED <<part, sizingVars>>
SizingPart(A) == part = "sizing" /\ A /\ UNCHANGED <<part, entryVars>>

\* In a behaviour about the life of an entry nothing is asked of the preflight's arithmetic.
OrderInit ==
    /\ part \in {"life", "sizing"}
    /\ EntryInit
    /\ IF part = "sizing" THEN SizingInit ELSE sizing = [stage |-> "none"]

OrderNext == LifePart(EntryNext) \/ SizingPart(SizingNext)

\* The fairness of FairEntrySpec for the life of the entry.
FairOrderSpec ==
    /\ OrderInit /\ [][OrderNext]_orderVars
    /\ \A w \in Workers : WF_orderVars(LifePart(WorkerStep(w)))
    /\ WF_orderVars(LifePart(MonitorWrite))
    /\ \A o \in Oids : /\ WF_orderVars(LifePart(BindExit(o)))
                       /\ WF_orderVars(LifePart(VerifiedRelease(o)))

============================================================================
