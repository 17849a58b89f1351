------------------------------- MODULE MCLives -------------------------------
(***************************************************************************)
(* What stands between a filled entry and a loss, for TLC.  A behaviour is *)
(* about the local stop (FallbackProtection): one life of a position of    *)
(* two units under every process that writes its row, or two lives of one  *)
(* unit with the lanes and registration alone.  Or it is about the plans   *)
(* at the venue (NativeProtection): two calls for one entry, one call      *)
(* beside the console's job, or one call beside the stream.  Or it is      *)
(* about the accounts of the close (ExitLedger): a plan that fills in      *)
(* parts under monitor and recovery, or a requested close whose process    *)
(* may die.                                                                *)
(***************************************************************************)
EXTENDS MCFallback, NativeProtection, ExitLedger

VARIABLE part

OneLife == INSTANCE FallbackProtection WITH MaxEpoch <- 1, EntryQty <- <<2>>
TwoLives == INSTANCE FallbackProtection WITH
                EntryQty <- <<1, 1>>, ConsoleOn <- FALSE, ManagerOn <- FALSE

TwoCalls == INSTANCE NativeProtection WITH RepairOn <- FALSE, MaxClock <- 0
WithJob == INSTANCE NativeProtection WITH
               Callers <- {1}, MaxClock <- 0, MaxDeaths <- 0, MaxPosts <- 1
WithStream == INSTANCE NativeProtection WITH
                  Callers <- {1}, RepairOn <- FALSE, MaxDeaths <- 0, MaxPosts <- 1,
                  MaxGrace <- 0

PlanInParts == INSTANCE ExitLedger WITH
                   WholePlans <- FALSE, Requests <- FALSE, SettlesAbsent <- FALSE,
                   MaxExitDeaths <- 0
RequestDies == INSTANCE ExitLedger WITH RecoveryRuns <- FALSE

\* The fills a call may meet: whole, none, or fewer than its plan is for.
Meets(fills, planned, enabled, contains) ==
    [filled |-> fills, plan |-> planned, fallback |-> enabled, contain |-> contains]
MCSetups == {Meets(1, 1, TRUE, FALSE), Meets(2, 2, TRUE, FALSE), Meets(1, 1, FALSE, FALSE),
             Meets(0, 1, TRUE, FALSE), Meets(1, 2, TRUE, TRUE), Meets(1, 1, TRUE, TRUE)}

Fallbacks == {"one life", "two lives"}
Natives == {"two calls", "with job", "with stream"}
Accounts == {"plan in parts", "request dies"}

livesVars == <<part, fallbackVars, nativeVars, exitVars>>

LivesInit ==
    /\ part \in Fallbacks \cup Natives \cup Accounts
    /\ FallbackInit /\ NativeInit /\ ExitInit
    /\ part \in Fallbacks \cup Accounts \cup {"with stream"} => setup = Meets(1, 1, TRUE, FALSE)
    /\ part = "two calls" => Filled < 2
    /\ part = "with job" => setup = Meets(2, 2, TRUE, FALSE)

LivesNext ==
    /\ UNCHANGED part
    /\ \/ /\ UNCHANGED <<nativeVars, exitVars>>
          /\ \/ part = "one life" /\ OneLife!FallbackNext
             \/ part = "two lives" /\ TwoLives!FallbackNext
       \/ /\ UNCHANGED <<fallbackVars, exitVars>>
          /\ \/ part = "two calls" /\ TwoCalls!NativeNext
             \/ part = "with job" /\ WithJob!NativeNext
             \/ part = "with stream" /\ WithStream!NativeNext
       \/ /\ UNCHANGED <<fallbackVars, nativeVars>>
          /\ \/ part = "plan in parts" /\ PlanInParts!ExitNext
             \/ part = "request dies" /\ RequestDies!ExitNext

LivesSpec == LivesInit /\ [][LivesNext]_livesVars

====
