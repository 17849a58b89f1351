------------------------------ MODULE MCCrowd ------------------------------
(***************************************************************************)
(* Where many ask at once, for TLC.  A behaviour is about entries that     *)
(* compete (EntryLifecycle): a book of three on three symbols with room    *)
(* for two, or two revisions of one message that share their client order  *)
(* id and two dispatcher processes that overlap.  Or about the messages of *)
(* the paper channel and two workers that overlap (PaperLane).             *)
(***************************************************************************)
EXTENDS EntryLifecycle, MCPaper, TLC

CONSTANTS o1, o2, o3, s1, s2, s3, d1, d2, d3, w1, x1, t1, e1, e2, v1, v2

VARIABLE part

crowdVars == <<part, entryVars, paperVars>>

\* The book's orders, and the one the twins share.
MCSymbol     == o1 :> s1 @@ o2 :> s2 @@ o3 :> s3 @@ x1 :> t1
MCMargin     == [o \in Oids |-> 1]
MCBookOid    == d1 :> o1 @@ d2 :> o2 @@ d3 :> o3
MCBookServes == w1 :> {d1, d2, d3}

\* The book looks the same when its three trades change places.
MCSwap == o1 :> o2 @@ o2 :> o1 @@ o3 :> o3 @@ s1 :> s2 @@ s2 :> s1 @@ s3 :> s3
          @@ d1 :> d2 @@ d2 :> d1 @@ d3 :> d3
MCTurn == o1 :> o2 @@ o2 :> o3 @@ o3 :> o1 @@ s1 :> s2 @@ s2 :> s3 @@ s3 :> s1
          @@ d1 :> d2 @@ d2 :> d3 @@ d3 :> d1
MCThen(f, g) == [x \in DOMAIN f |-> g[f[x]]]
MCBookSymmetry == {MCSwap, MCTurn, MCThen(MCTurn, MCTurn),
                   MCThen(MCSwap, MCTurn), MCThen(MCTurn, MCSwap)}

\* So do the two revisions, and the two processes that serve them.
MCOther == v1 :> v2 @@ v2 :> v1 @@ e1 :> e1 @@ e2 :> e2
MCLater == v1 :> v1 @@ v2 :> v2 @@ e1 :> e2 @@ e2 :> e1
MCCrowdSymmetry == MCBookSymmetry \cup {MCOther, MCLater, MCThen(MCOther, MCLater)}

MCTwins      == {e1, e2}
MCTwinOid    == e1 :> x1 @@ e2 :> x1
MCTwinServes == v1 :> MCTwins @@ v2 :> MCTwins

Twins == INSTANCE EntryLifecycle WITH
    Dispatches <- MCTwins, Workers <- {v1, v2}, Consoles <- {}, OidOf <- MCTwinOid,
    Serves <- MCTwinServes, Balances <- {1}, MaxPositions <- 1, Qty <- 1, Pauses <- FALSE,
    KillEnforced <- FALSE, Exits <- {"owned"}, Covers <- {"venue"}, Outages <- FALSE,
    LatePosts <- TRUE, MonitorPace <- "atomic", MaxCrashes <- 0

\* In a behaviour that is not about the paper channel it says nothing that matters.
Silent == wording = [m \in Messages |-> Talk]

CrowdInit ==
    /\ part \in {"book", "twins", "paper"}
    /\ IF part = "book" THEN EntryInit ELSE Twins!EntryInit
    /\ IF part = "paper" THEN ChannelSays ELSE Silent
    /\ NothingHandled

CrowdNext ==
    /\ UNCHANGED part
    /\ \/ part = "book" /\ EntryNext /\ UNCHANGED paperVars
       \/ part = "twins" /\ Twins!EntryNext /\ UNCHANGED paperVars
       \/ part = "paper" /\ PaperNext /\ UNCHANGED entryVars

CrowdSpec == CrowdInit /\ [][CrowdNext]_crowdVars

============================================================================
