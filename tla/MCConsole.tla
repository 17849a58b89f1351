------------------------------ MODULE MCConsole ------------------------------
(***************************************************************************)
(* Small instances of ConsoleAccess and ConsoleReads.  They share no       *)
(* state, so a behaviour is about one of them.                             *)
(***************************************************************************)
EXTENDS ConsoleAccess, ConsoleReads, TLC

CONSTANTS p1, p2, k1, k2

VARIABLE part

\* A preview of each tier, and two keys, either of which may be used for either preview.
MCTier   == p1 :> 1 @@ p2 :> 2
MCBotKey == p1 :> k1 @@ p2 :> k2

\* Nothing tells one password from another.
MCSymmetry == Permutations(Passwords)

consoleVars == <<part, accessVars, readVars>>

ConsoleInit == AccessInit /\ ReadsInit /\ part \in {"access", "reads"}

ConsoleNext ==
    \/ part = "access" /\ AccessNext /\ UNCHANGED <<part, readVars>>
    \/ part = "reads" /\ ReadsNext /\ UNCHANGED <<part, accessVars>>

ConsoleSpec == ConsoleInit /\ [][ConsoleNext]_consoleVars

==============================================================================
