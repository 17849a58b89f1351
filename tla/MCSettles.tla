------------------------------ MODULE MCSettles ------------------------------
(***************************************************************************)
(* What must come to an end, for TLC: the messages of Signals, the         *)
(* notifications of Outbox and the accounts of a close of ExitLedger.  A   *)
(* behaviour is about one of the three.                                    *)
(***************************************************************************)
EXTENDS MCSignals, Outbox, ExitLedger, TLC

VARIABLE part

settleVars == <<part, signalVars, outboxVars, exitVars>>

SettleInit ==
    /\ SignalsInit /\ OutboxInit /\ ExitInit
    /\ part \in {"signals", "outbox", "exit"}

SignalsPart(A) == part = "signals" /\ A /\ UNCHANGED <<part, outboxVars, exitVars>>
OutboxPart(A)  == part = "outbox" /\ A /\ UNCHANGED <<part, signalVars, exitVars>>
ExitPart(A)    == part = "exit" /\ A /\ UNCHANGED <<part, signalVars, outboxVars>>

SettleNext == SignalsPart(SignalsNext) \/ OutboxPart(OutboxNext) \/ ExitPart(ExitNext)

\* The fairness of FairSignalsSpec, OutboxSpec and ExitSpec, each for its part.
SettleSpec ==
    /\ SettleInit /\ [][SettleNext]_settleVars
    /\ WF_settleVars(SignalsPart(CatchUpStep))
    /\ \A a \in Analyzers: WF_settleVars(SignalsPart(AnalyzerStep(a)))
    /\ \A p \in Senders: WF_settleVars(OutboxPart(SenderStep(p)))
    /\ \A k \in Keys: /\ WF_settleVars(OutboxPart(Lapse(k)))
                      /\ WF_settleVars(OutboxPart(FallDue(k)))
    /\ WF_settleVars(ExitPart(ExitMonitorStep))
    /\ WF_settleVars(ExitPart(VerifyStep))
    /\ WF_settleVars(ExitPart(WriteStatus))
    /\ \A r \in {Native, Requested}: SF_settleVars(ExitPart(VerifyFills(r)))

====
