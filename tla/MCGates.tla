------------------------------- MODULE MCGates -------------------------------
(***************************************************************************)
(* What an entry must pass, for TLC: the reservation ledger, the venue     *)
(* latch and the stream latch, and the link whose verdict the stream latch *)
(* follows.  Their rows, tasks and observations are disjoint, so a         *)
(* behaviour is about one of them.                                         *)
(***************************************************************************)
EXTENDS MarginLedger, VenueLatch, StreamLatch, StreamSession, TLC

CONSTANTS o1, o2, o3, s1, s2

VARIABLE part   \* the gate this behaviour is about

\* Three client order ids, two of them on one symbol.
MCSymbolOf == o1 :> s1 @@ o2 :> s1 @@ o3 :> s2
MCMargin   == o1 :> 1 @@ o2 :> 2 @@ o3 :> 1

gateVars == <<part, ledgerVars, venueVars, streamVars, sessionVars>>

GateInit ==
    /\ part \in {"ledger", "venue", "stream", "link"}
    /\ LedgerInit /\ VenueInit /\ StreamInit /\ SessionInit
    /\ part # "link" => wanted = {}

LedgerPart(A) == part = "ledger" /\ A /\ UNCHANGED <<part, venueVars, streamVars, sessionVars>>
VenuePart(A) == part = "venue" /\ A /\ UNCHANGED <<part, ledgerVars, streamVars, sessionVars>>
StreamPart(A) == part = "stream" /\ A /\ UNCHANGED <<part, ledgerVars, venueVars, sessionVars>>
LinkPart(A) == part = "link" /\ A /\ UNCHANGED <<part, ledgerVars, venueVars, streamVars>>

GateNext == \/ LedgerPart(LedgerNext) \/ VenuePart(VenueNext)
            \/ StreamPart(StreamNext) \/ LinkPart(SessionNext)

\* VenueFairness, StreamFairness and SessionFairness, each for its part.
GateFairness ==
    /\ WF_gateVars(VenuePart(MonitorStep))
    /\ WF_gateVars(StreamPart(WatchdogStep))
    /\ SF_gateVars(StreamPart(WatchdogLatch))
    /\ SF_gateVars(StreamPart(HealerObserve))
    /\ WF_gateVars(LinkPart(RunStep))
    /\ WF_gateVars(LinkPart(Tick))

GateSpec == GateInit /\ [][GateNext]_gateVars /\ GateFairness

====
