---------------------------- MODULE StreamProofs ----------------------------
(***************************************************************************)
(* Proofs about the private stream, in two parts: the link and its verdict *)
(* (StreamSession), and the latch that watchdog and healer keep on the     *)
(* verdict's account (StreamLatch).  A link is never called fresh that is  *)
(* not, for any tickers and limits, and the healer releases the latch by   *)
(* sustained health alone, for any policy.                                 *)
(***************************************************************************)
EXTENDS StreamSession, StreamLatch, FiniteSetTheorems, TLAPS

-----------------------------------------------------------------------------
(* The link.                                                               *)

\* No age that the program keeps is less than the true one: a mark is at least as old as the
\* last one the venue made, on its way or counted, and once the readers run the private
\* socket was not heard of after it died.  A pong on its way comes from a live socket, and a
\* live one is not deaf.
AgesAreHonest ==
    /\ \A s \in Tickers : made[s] <= coming[s] /\ made[s] <= mark[s]
    /\ Up => deaf <= heard
    /\ at = "greeted" => deaf = 0
    /\ leg["private"] # "dead" => deaf = 0
    /\ \A l \in pongs : leg[l] = "live"

\* A verdict needs both sockets and a login, so it is only given where the ages are kept.
StageIsKnown ==
    /\ at = "idle" => leg = NoLegs
    /\ at = "login" => ~auth

\* The ranges and the flags of SessionTypeOK, for leaves that do arithmetic and leaves that
\* do not.
RangesOK ==
    /\ wanted \subseteq Tickers /\ served \subseteq Tickers /\ counted \subseteq Tickers
    /\ at \in Stages
    /\ leg \in [Legs -> {"none", "live", "dead"}]
    /\ heard \in 0..(SilentAfter + 1) /\ deaf \in 0..(SilentAfter + 1)
    /\ mark \in [Tickers -> 0..Never]
    /\ coming \in [Tickers -> 0..Never]
    /\ made \in [Tickers -> 0..Never]
    /\ pongs \subseteq Legs
    /\ pinged \in 0..Heartbeat /\ waited \in 0..(2 * Heartbeat)

FlagsOK ==
    /\ auth \in BOOLEAN /\ woken \in BOOLEAN /\ broken \in BOOLEAN
    /\ StageIsKnown

SessionInv == RangesOK /\ FlagsOK /\ AgesAreHonest

\* The limits are numbers, in every leaf below.
USE SessionAssumption DEF SessionAssumption

\* What an age becomes in a tick.
LEMMA OlderIsAnAge ==
    ASSUME NEW limit \in Nat, NEW age \in 0..(limit + 1)
    PROVE  Older(age, limit) \in 0..(limit + 1)
BY DEF Older

\* The older of two ages stays the older one.
LEMMA OlderKeepsOrder ==
    ASSUME NEW limit \in Nat, NEW a \in 0..(limit + 1), NEW b \in 0..(limit + 1), a <= b
    PROVE  Older(a, limit) <= Older(b, limit)
BY DEF Older

\* A process starts with no link and no ages.
LEMMA SessionInitHolds == SessionInit => SessionInv
<1> SUFFICES ASSUME SessionInit PROVE SessionInv
    OBVIOUS
<1>1. RangesOK
  BY DEF SessionInit, RangesOK, Stages, NoLegs, Legs, Never
<1>2. FlagsOK
  BY DEF SessionInit, FlagsOK, StageIsKnown
<1>3. AgesAreHonest
  BY DEF SessionInit, AgesAreHonest, Up, NoLegs, Legs, Never
<1> QED BY <1>1, <1>2, <1>3 DEF SessionInv

\* Whatever closes the sockets ends every age of the link.
LEMMA ClosedIsHonest ==
    ASSUME SessionInv, Closed, wanted' \subseteq Tickers, auth' \in BOOLEAN,
           heard' \in 0..(SilentAfter + 1), mark' \in [Tickers -> 0..Never],
           \A s \in Tickers : made[s] <= mark'[s], counted' \subseteq Tickers,
           broken' \in BOOLEAN, UNCHANGED made
    PROVE  SessionInv'
<1>1. RangesOK'
  BY DEF SessionInv, RangesOK, Closed, Stages, NoLegs, Legs, Never
<1>2. FlagsOK'
  BY DEF FlagsOK, StageIsKnown, Closed, NoLegs
<1>3. AgesAreHonest'
  BY DEF SessionInv, RangesOK, AgesAreHonest, Closed, Up, NoLegs, Legs, Never
<1> QED BY <1>1, <1>2, <1>3 DEF SessionInv

\* All steps but those that end a link.
LinkStep ==
    \/ OpenLegs \/ LoginAcknowledged \/ StartReaders \/ Drain \/ SendHeartbeat
    \/ (Judge /\ StaysUp) \/ ReceiveAccount \/ BreakLeg \/ Tick
    \/ \E s \in Tickers : ReceiveMark(s) \/ MakeMark(s) \/ Subscribe(s) \/ Unsubscribe(s)
    \/ \E l \in Legs : ReceivePong(l) \/ GoSilent(l)

\* Every step of a link that is not ended keeps the ranges.
LEMMA LinkKeepsRangesOK == SessionInv /\ LinkStep => RangesOK'
<1> SUFFICES ASSUME SessionInv, LinkStep PROVE RangesOK'
    OBVIOUS
<1> USE DEF SessionInv, RangesOK, Stages, NoLegs, Legs, Never, clocks, inbound, truth, wire
<1>1. CASE OpenLegs
  BY <1>1 DEF OpenLegs
<1>2. CASE LoginAcknowledged
  BY <1>2 DEF LoginAcknowledged
<1>3. CASE StartReaders
  <2>1. /\ at' = "reading" /\ heard' = 0 /\ counted' = {}
        /\ UNCHANGED <<wanted, leg, served, mark, coming, pongs, pinged, waited, truth>>
    BY <1>3 DEF StartReaders
  <2> QED BY <2>1
<1>4. CASE Drain
  <2>1. at' = "delivering" /\ UNCHANGED <<wanted, wire, clocks, truth>>
    BY <1>4 DEF Drain
  <2> QED BY <2>1
<1>5. CASE SendHeartbeat
  <2>1. pinged' = 0 /\ pongs' \subseteq Legs
    BY <1>5 DEF SendHeartbeat, Pinged
  <2>2. UNCHANGED <<wanted, at, leg, served, coming, heard, mark, counted, waited, truth>>
    BY <1>5 DEF SendHeartbeat
  <2> QED BY <2>1, <2>2
<1>6. CASE Judge /\ StaysUp
  <2>1. /\ at' \in Stages /\ waited' \in {0, waited}
        /\ UNCHANGED <<wanted, wire, heard, mark, counted, pinged, truth>>
    BY <1>6 DEF Judge, Hangup, Closed
  <2> QED BY <2>1
<1>7. CASE ReceiveAccount
  BY <1>7 DEF ReceiveAccount, Reads, HeardAfter
<1>8. CASE BreakLeg
  <2>1. UNCHANGED <<wanted, at, wire, clocks, truth>>
    BY <1>8 DEF BreakLeg
  <2> QED BY <2>1
<1>9. CASE Tick
  <2>1. heard' \in 0..(SilentAfter + 1) /\ deaf' \in 0..(SilentAfter + 1)
    <3>1. /\ heard \in 0..(SilentAfter + 1) /\ deaf \in 0..(SilentAfter + 1)
          /\ SilentAfter \in Nat
      OBVIOUS
    <3>2. heard' = Older(heard, SilentAfter) /\ deaf' \in {Older(deaf, SilentAfter), 0}
      BY <1>9 DEF Tick
    <3> QED BY ONLY <3>1, <3>2 DEF Older
  <2>2. /\ mark' \in [Tickers -> 0..Never] /\ coming' \in [Tickers -> 0..Never]
        /\ made' \in [Tickers -> 0..Never]
    BY <1>9, OlderIsAnAge DEF Tick
  <2>3. pinged' \in 0..Heartbeat
    <3>1. CASE Up /\ pinged < Heartbeat
      BY <1>9, <3>1 DEF Tick
    <3>2. CASE ~(Up /\ pinged < Heartbeat)
      BY <1>9, <3>2 DEF Tick
    <3> QED BY <3>1, <3>2
  <2>4. waited' \in 0..(2 * Heartbeat)
    BY <1>9 DEF Tick
  <2>5. UNCHANGED <<wanted, at, leg, served, counted, pongs>>
    BY <1>9 DEF Tick
  <2> QED BY <2>1, <2>2, <2>3, <2>4, <2>5
<1>10. ASSUME NEW s \in Tickers, ReceiveMark(s) PROVE RangesOK'
  BY <1>10 DEF ReceiveMark, Reads, MarkAge
<1>11. ASSUME NEW s \in Tickers, MakeMark(s) PROVE RangesOK'
  BY <1>11 DEF MakeMark
<1>12. ASSUME NEW s \in Tickers, Subscribe(s) PROVE RangesOK'
  BY <1>12 DEF Subscribe
<1>13. ASSUME NEW s \in Tickers, Unsubscribe(s) PROVE RangesOK'
  BY <1>13 DEF Unsubscribe
<1>14. ASSUME NEW l \in Legs, ReceivePong(l) PROVE RangesOK'
  BY <1>14 DEF ReceivePong, Reads, HeardAfter
<1>15. ASSUME NEW l \in Legs, GoSilent(l) PROVE RangesOK'
  BY <1>15 DEF GoSilent
<1> QED BY <1>1, <1>2, <1>3, <1>4, <1>5, <1>6, <1>7, <1>8, <1>9, <1>10, <1>11, <1>12,
           <1>13, <1>14, <1>15 DEF LinkStep

\* ... and what the stage says of the login and the sockets.
LEMMA LinkKeepsFlagsOK == SessionInv /\ LinkStep => FlagsOK'
<1> SUFFICES ASSUME SessionInv, LinkStep PROVE FlagsOK'
    OBVIOUS
<1> USE DEF SessionInv, FlagsOK, StageIsKnown, NoLegs, Up, clocks, inbound, truth, wire
<1>1. CASE OpenLegs
  BY <1>1 DEF OpenLegs
<1>2. CASE LoginAcknowledged
  BY <1>2 DEF LoginAcknowledged
<1>3. CASE StartReaders
  BY <1>3 DEF StartReaders
<1>4. CASE Drain
  BY <1>4 DEF Drain
<1>5. CASE SendHeartbeat
  BY <1>5 DEF SendHeartbeat, Pinged
<1>6. CASE Judge /\ StaysUp
  BY <1>6 DEF Judge, Hangup, Closed
<1>7. CASE ReceiveAccount
  BY <1>7 DEF ReceiveAccount, Reads, HeardAfter
<1>8. CASE BreakLeg
  BY <1>8 DEF BreakLeg, Reads
<1>9. CASE Tick
  BY <1>9 DEF Tick
<1>10. ASSUME NEW s \in Tickers, ReceiveMark(s) PROVE FlagsOK'
  BY <1>10 DEF ReceiveMark, Reads, MarkAge
<1>11. ASSUME NEW s \in Tickers, MakeMark(s) PROVE FlagsOK'
  BY <1>11 DEF MakeMark
<1>12. ASSUME NEW s \in Tickers, Subscribe(s) PROVE FlagsOK'
  BY <1>12 DEF Subscribe
<1>13. ASSUME NEW s \in Tickers, Unsubscribe(s) PROVE FlagsOK'
  BY <1>13 DEF Unsubscribe
<1>14. ASSUME NEW l \in Legs, ReceivePong(l) PROVE FlagsOK'
  BY <1>14 DEF ReceivePong, Reads, HeardAfter
<1>15. ASSUME NEW l \in Legs, GoSilent(l) PROVE FlagsOK'
  BY <1>15 DEF GoSilent
<1> QED BY <1>1, <1>2, <1>3, <1>4, <1>5, <1>6, <1>7, <1>8, <1>9, <1>10, <1>11, <1>12,
           <1>13, <1>14, <1>15 DEF LinkStep

\* ... and the order of the ages: only marks and frames that are younger make one younger.
LEMMA LinkKeepsAgesAreHonest == SessionInv /\ LinkStep => AgesAreHonest'
<1> SUFFICES ASSUME SessionInv, LinkStep PROVE AgesAreHonest'
    OBVIOUS
<1> USE DEF SessionInv, RangesOK, AgesAreHonest, Stages, NoLegs, Up, Legs, Never,
            clocks, inbound, truth, wire
<1>1. CASE OpenLegs
  <2>1. /\ at' = "login" /\ leg' = [l \in Legs |-> "live"]
        /\ UNCHANGED <<coming, mark, made, pongs>>
    BY <1>1 DEF OpenLegs
  <2>2. deaf' = 0
    BY <1>1 DEF OpenLegs, SessionInv, FlagsOK, StageIsKnown, NoLegs
  <2> QED BY <2>1, <2>2
<1>2. CASE LoginAcknowledged
  BY <1>2 DEF LoginAcknowledged
<1>3. CASE StartReaders
  BY <1>3 DEF StartReaders
<1>4. CASE Drain
  BY <1>4 DEF Drain
<1>5. CASE SendHeartbeat
  BY <1>5 DEF SendHeartbeat, Pinged
<1>6. CASE Judge /\ StaysUp
  BY <1>6 DEF Judge, Hangup, Closed
<1>7. CASE ReceiveAccount
  BY <1>7 DEF ReceiveAccount, Reads, HeardAfter
<1>8. CASE BreakLeg
  BY <1>8 DEF BreakLeg, Reads
<1>9. CASE Tick
  <2>1. ASSUME NEW s \in Tickers PROVE made'[s] <= coming'[s] /\ made'[s] <= mark'[s]
    BY <1>9, OlderKeepsOrder DEF Tick
  <2>2. Up' => deaf' <= heard'
    BY <1>9, OlderKeepsOrder, OlderIsAnAge DEF Tick
  <2>3. at' # "greeted" /\ (leg'["private"] # "dead" => deaf' = 0)
    BY <1>9 DEF Tick
  <2>4. \A l \in pongs' : leg'[l] = "live"
    BY <1>9 DEF Tick
  <2> QED BY <2>1, <2>2, <2>3, <2>4
<1>10. ASSUME NEW s \in Tickers, ReceiveMark(s) PROVE AgesAreHonest'
  BY <1>10 DEF ReceiveMark, Reads, MarkAge
<1>11. ASSUME NEW s \in Tickers, MakeMark(s) PROVE AgesAreHonest'
  BY <1>11 DEF MakeMark
<1>12. ASSUME NEW s \in Tickers, Subscribe(s) PROVE AgesAreHonest'
  BY <1>12 DEF Subscribe
<1>13. ASSUME NEW s \in Tickers, Unsubscribe(s) PROVE AgesAreHonest'
  BY <1>13 DEF Unsubscribe
<1>14. ASSUME NEW l \in Legs, ReceivePong(l) PROVE AgesAreHonest'
  BY <1>14 DEF ReceivePong, Reads, HeardAfter
<1>15. ASSUME NEW l \in Legs, GoSilent(l) PROVE AgesAreHonest'
  <2>1. \A s \in Tickers : made'[s] <= coming'[s] /\ made'[s] <= mark'[s]
    BY <1>15 DEF GoSilent
  <2>2. UNCHANGED <<at, deaf, heard>>
    BY <1>15 DEF GoSilent
  <2>3. /\ leg'["private"] # "dead" => leg["private"] # "dead"
        /\ \A k \in pongs' : leg'[k] = "live"
    BY <1>15 DEF GoSilent
  <2> QED BY <2>1, <2>2, <2>3
<1> QED BY <1>1, <1>2, <1>3, <1>4, <1>5, <1>6, <1>7, <1>8, <1>9, <1>10, <1>11, <1>12,
           <1>13, <1>14, <1>15 DEF LinkStep

\* The ways a link ends.
LEMMA EndKeepsSessionInv ==
    ASSUME SessionInv,
           GiveUp \/ HandlerFails \/ ConnectFails \/ SyncFails \/ (Judge /\ ~StaysUp)
    PROVE  SessionInv'
<1>1. CASE GiveUp \/ HandlerFails \/ (Judge /\ ~StaysUp)
  <2>1. /\ Closed
        /\ UNCHANGED <<wanted, auth, heard, mark, counted, broken, made>>
    BY <1>1 DEF GiveUp, HandlerFails, Judge, Hangup
  <2>2. auth' \in BOOLEAN /\ broken' \in BOOLEAN
    BY <2>1 DEF SessionInv, FlagsOK
  <2>3. /\ wanted' \subseteq Tickers /\ counted' \subseteq Tickers
        /\ heard' \in 0..(SilentAfter + 1) /\ mark' \in [Tickers -> 0..Never]
    BY <2>1 DEF SessionInv, RangesOK
  <2>4. \A s \in Tickers : made[s] <= mark'[s]
    BY <2>1 DEF SessionInv, AgesAreHonest
  <2> QED BY <2>1, <2>2, <2>3, <2>4, ClosedIsHonest
<1>2. CASE ConnectFails
  <2>1. /\ Closed /\ auth' = FALSE
        /\ UNCHANGED <<wanted, heard, mark, counted, broken, made>>
    BY <1>2 DEF ConnectFails
  <2>2. auth' \in BOOLEAN /\ broken' \in BOOLEAN
    BY <2>1 DEF SessionInv, FlagsOK
  <2>3. /\ wanted' \subseteq Tickers /\ counted' \subseteq Tickers
        /\ heard' \in 0..(SilentAfter + 1) /\ mark' \in [Tickers -> 0..Never]
    BY <2>1 DEF SessionInv, RangesOK
  <2>4. \A s \in Tickers : made[s] <= mark'[s]
    BY <2>1 DEF SessionInv, AgesAreHonest
  <2> QED BY <2>1, <2>2, <2>3, <2>4, ClosedIsHonest
<1>3. CASE SyncFails
  <2>1. auth' \in BOOLEAN /\ broken' \in BOOLEAN
    BY <1>3 DEF SyncFails
  <2>2. /\ wanted' \subseteq Tickers /\ counted' \subseteq Tickers
        /\ heard' \in 0..(SilentAfter + 1) /\ mark' \in [Tickers -> 0..Never]
    BY <1>3 DEF SyncFails, Never
  <2>3. \A s \in Tickers : made[s] <= mark'[s]
    BY <1>3 DEF SyncFails, SessionInv, RangesOK, Never
  <2> QED BY <1>3, <2>1, <2>2, <2>3, ClosedIsHonest DEF SyncFails
<1> QED BY <1>1, <1>2, <1>3

\* Every step of the link, of its two sockets and of the clock keeps the invariant.
LEMMA SessionStepHolds == SessionInv /\ [SessionNext]_sessionVars => SessionInv'
<1> SUFFICES ASSUME SessionInv, [SessionNext]_sessionVars PROVE SessionInv'
    OBVIOUS
<1>1. CASE LinkStep
  BY <1>1, LinkKeepsRangesOK, LinkKeepsFlagsOK, LinkKeepsAgesAreHonest DEF SessionInv
<1>2. CASE GiveUp \/ HandlerFails \/ ConnectFails \/ SyncFails \/ (Judge /\ ~StaysUp)
  BY <1>2, EndKeepsSessionInv
<1>3. CASE UNCHANGED sessionVars
  BY <1>3 DEF sessionVars, SessionInv, RangesOK, FlagsOK, AgesAreHonest, StageIsKnown, Up
<1> QED BY <1>1, <1>2, <1>3 DEF SessionNext, RunStep, LinkStep

\* The inductive invariant of the link.
THEOREM SessionInvariant == SessionSpec => []SessionInv
BY SessionInitHolds, SessionStepHolds, PTL DEF SessionSpec

\* Every age stays in its range, for any tickers and limits.
THEOREM SessionTypeCorrect == SessionSpec => []SessionTypeOK
<1>1. SessionInv => SessionTypeOK
  BY DEF SessionInv, RangesOK, FlagsOK, SessionTypeOK
<1> QED BY <1>1, SessionInvariant, PTL

\* A fresh verdict (check_freshness) is given only where the program's ages count, and there
\* they are no less than the true ones.
THEOREM FreshLinkIsLive == SessionSpec => []FreshIsLive
<1>1. ASSUME SessionInv, NEW s \in Tickers, FreshFor(s)
      PROVE  made[s] <= StaleAfter /\ deaf <= SilentAfter
  <2>1. Up \/ at = "greeted"
    BY <1>1 DEF SessionInv, RangesOK, FlagsOK, StageIsKnown, FreshFor, LegsLive,
                PrivateLegLive, Stages, Up, NoLegs, Legs
  <2>2. heard <= SilentAfter /\ mark[s] <= StaleAfter
    BY <1>1 DEF FreshFor, LegsLive, PrivateLegLive
  <2> QED BY <1>1, <2>1, <2>2 DEF SessionInv, RangesOK, AgesAreHonest, Never
<1>2. SessionInv => FreshIsLive
  BY <1>1 DEF FreshIsLive
<1> QED BY <1>2, SessionInvariant, PTL

-----------------------------------------------------------------------------
(* The latch.                                                              *)

\* The healer counts no report that came before the latch: its count exceeds the run since
\* the latch only while the bad report that latched it waits to be observed.
CountIsCalm ==
    /\ watchdog.pc \in {"latched?", "latch"} => watchdog.report # "HEALTHY"
    /\ healer.healthy <= calm \/ (watchdog.pc = "observe" /\ watchdog.report # "HEALTHY")

\* A latch has a reason to give, and an active row has one.
ReasonsAreKept ==
    /\ stream.active => stream.reason \in StreamReasons
    /\ watchdog.pc \in {"latched?", "latch"} => watchdog.reason \in StreamReasons

StreamRow == [active: BOOLEAN, reason: StreamReasons \cup {"none", "auto:healthy", "approved"}]
WatchdogRecord == [pc: {"idle", "reads", "latched?", "latch", "observe"},
                   dead: BOOLEAN, ready: BOOLEAN,
                   report: {"none", "HEALTHY", "STALE", "FAILED"},
                   reason: StreamReasons \cup {"none"},
                   bad: 0..StaleCycles, age: 0..MinOutage]
HealerRecord == [healthy: 0..MaxHealthy, cool: 0..Cooldown, recent: SUBSET (0..Hour)]

\* The records of StreamTypeOK.
RecordsOK ==
    /\ stream \in StreamRow
    /\ watchdog \in WatchdogRecord
    /\ healer \in HealerRecord
    /\ calm \in 0..MaxHealthy

\* ... and the rest of it.
LoopOK ==
    /\ Cardinality(healer.recent) <= MaxPerHour
    /\ socket \in {"connected", "limbo", "dead"} /\ readable \in BOOLEAN
    /\ deaths \in 0..MaxDeaths

StreamInv == RecordsOK /\ LoopOK /\ ReasonsAreKept /\ CountIsCalm

USE StreamLatchAssumption DEF StreamLatchAssumption

LEMMA Limits ==
    /\ StaleCycles \in Nat \ {0} /\ SocketCycles \in Nat \ {0} /\ ProviderCycles \in Nat \ {0}
    /\ MaxPerHour \in Nat \ {0} /\ Hour \in Nat \ {0}
    /\ MinOutage \in Nat /\ Cooldown \in Nat /\ MaxDeaths \in Nat
    /\ MaxHealthy \in Nat
BY DEF MaxHealthy

\* A count up to a bound.
LEMMA AtMostIsBounded ==
    ASSUME NEW n \in Nat, NEW bound \in Nat
    PROVE  AtMost(n + 1, bound) \in 0..bound
BY DEF AtMost

\* The fields of the records, for arithmetic.
LEMMA Fields ==
    ASSUME RecordsOK
    PROVE  /\ stream.active \in BOOLEAN
           /\ stream.reason \in StreamReasons \cup {"none", "auto:healthy", "approved"}
           /\ watchdog.pc \in {"idle", "reads", "latched?", "latch", "observe"}
           /\ watchdog.report \in {"none", "HEALTHY", "STALE", "FAILED"}
           /\ watchdog.reason \in StreamReasons \cup {"none"}
           /\ watchdog.bad \in 0..StaleCycles /\ watchdog.age \in 0..MinOutage
           /\ healer.healthy \in 0..MaxHealthy /\ healer.cool \in 0..Cooldown
           /\ healer.recent \in SUBSET (0..Hour)
           /\ calm \in 0..MaxHealthy
BY Zenon DEF RecordsOK, StreamRow, WatchdogRecord, HealerRecord

LEMMA StreamInitHolds == StreamInit => StreamInv
<1> SUFFICES ASSUME StreamInit PROVE StreamInv
    OBVIOUS
<1>0. 0 \in 0..StaleCycles /\ 0 \in 0..MinOutage /\ 0 \in 0..MaxHealthy /\ 0 \in 0..Cooldown
  BY Limits
<1>1. stream \in StreamRow
  BY Zenon DEF StreamInit, StreamUnlatched, StreamRow
<1>2. watchdog \in WatchdogRecord
  BY <1>0, Zenon DEF StreamInit, WatchdogAtRest, WatchdogRecord
<1>3. healer \in HealerRecord /\ healer.recent = {} /\ healer.healthy = 0
  BY <1>0, Zenon DEF StreamInit, HealerAtStart, HealerRecord
<1>4. LoopOK
  BY <1>3, FS_EmptySet, Limits DEF StreamInit, LoopOK
<1>5. ReasonsAreKept
  BY DEF StreamInit, ReasonsAreKept, StreamUnlatched, WatchdogAtRest
<1>6. CountIsCalm
  BY <1>3 DEF StreamInit, CountIsCalm, WatchdogAtRest
<1> QED BY <1>0, <1>1, <1>2, <1>3, <1>4, <1>5, <1>6 DEF StreamInv, RecordsOK, StreamInit

\* Shifting the releases of the last hour by a cycle keeps their number.
LEMMA OlderReleases ==
    ASSUME NEW S \in SUBSET (0..Hour), Cardinality(S) <= MaxPerHour
    PROVE  LET T == {a + 1 : a \in {b \in S : b < Hour}}
           IN  T \in SUBSET (0..Hour) /\ Cardinality(T) <= MaxPerHour
<1> DEFINE R == {b \in S : b < Hour}
           T == {a + 1 : a \in R}
<1>1. T \in SUBSET (0..Hour)
  BY Limits
<1>2. IsFiniteSet(0..Hour)
  BY FS_Interval, Limits
<1>3. IsFiniteSet(S) /\ IsFiniteSet(R) /\ Cardinality(R) <= Cardinality(S)
  BY <1>2, FS_Subset
<1>4. IsFiniteSet(T) /\ Cardinality(T) <= Cardinality(R)
  <2> DEFINE next == [a \in R |-> a + 1]
  <2>1. next \in Surjection(R, T)
    BY DEF Surjection
  <2> QED BY <1>3, <2>1, FS_Surjection
<1>5. Cardinality(T) \in Nat /\ Cardinality(R) \in Nat /\ Cardinality(S) \in Nat
  BY <1>3, <1>4, FS_CardinalityType
<1>6. Cardinality(T) <= MaxPerHour
  <2> HIDE DEF R, T
  <2> QED BY <1>3, <1>4, <1>5, Limits
<1> QED BY <1>1, <1>6

\* A release within the breaker's limit.
LEMMA OneMoreRelease ==
    ASSUME NEW S \in SUBSET (0..Hour), Cardinality(S) < MaxPerHour
    PROVE  S \cup {0} \in SUBSET (0..Hour) /\ Cardinality(S \cup {0}) <= MaxPerHour
<1>1. IsFiniteSet(0..Hour)
  BY FS_Interval, Limits
<1>2. IsFiniteSet(S) /\ Cardinality(S) \in Nat
  BY <1>1, FS_Subset, FS_CardinalityType
<1>3. Cardinality(S \cup {0}) = IF 0 \in S THEN Cardinality(S) ELSE Cardinality(S) + 1
  BY <1>2, FS_AddElement
<1> QED BY <1>2, <1>3, Limits

\* The watchdog starts a cycle.
LEMMA BeginKeeps == ASSUME StreamInv, WatchdogBegin PROVE StreamInv'
<1>1. /\ UNCHANGED <<stream, socket, readable, deaths, calm>>
      /\ watchdog.pc = "idle"
  BY DEF WatchdogBegin
<1>2. watchdog' \in WatchdogRecord /\ watchdog'.pc = "reads"
  <2> DEFINE age == IF watchdog.bad = 0 THEN 0 ELSE AtMost(watchdog.age + 1, MinOutage)
  <2>1. age \in 0..MinOutage
    BY Fields, Limits, AtMostIsBounded DEF StreamInv
  <2>2. watchdog' = [watchdog EXCEPT !.pc = "reads", !.dead = (socket = "dead"),
                                     !.ready = (socket = "connected"), !.age = age]
    BY Zenon DEF WatchdogBegin
  <2> HIDE DEF age
  <2> QED BY <2>1, <2>2, Zenon DEF StreamInv, RecordsOK, WatchdogRecord
<1>3. healer' \in HealerRecord /\ healer'.healthy = healer.healthy
      /\ Cardinality(healer'.recent) <= MaxPerHour
  <2> DEFINE recent == {a + 1 : a \in {b \in healer.recent : b < Hour}}
  <2>1. recent \in SUBSET (0..Hour) /\ Cardinality(recent) <= MaxPerHour
    BY Fields, OlderReleases DEF StreamInv, LoopOK
  <2>2. Cooled(healer.cool) \in 0..Cooldown
    BY Fields, Limits DEF StreamInv, Cooled
  <2>3. healer' = [healer EXCEPT !.cool = Cooled(healer.cool), !.recent = recent]
    BY Zenon DEF WatchdogBegin
  <2> HIDE DEF recent
  <2>4. healer' \in HealerRecord /\ healer'.healthy = healer.healthy /\ healer'.recent = recent
    BY <2>1, <2>2, <2>3, Zenon DEF StreamInv, RecordsOK, HealerRecord
  <2> QED BY <2>1, <2>4
<1>4. RecordsOK'
  BY <1>1, <1>2, <1>3 DEF StreamInv, RecordsOK
<1> QED BY <1>1, <1>2, <1>3, <1>4 DEF StreamInv, LoopOK, ReasonsAreKept, CountIsCalm

\* The verdict of a cycle: a bad one is counted, a HEALTHY one clears the count.
LEMMA ReadsKeep == ASSUME StreamInv, WatchdogReads PROVE StreamInv'
<1> DEFINE failed == ~readable
           reason == IF failed THEN "provider" ELSE "socket-not-connected"
           bad == AtMost(watchdog.bad + 1, StaleCycles)
<1>1. /\ UNCHANGED <<stream, healer, socket, readable, deaths, calm>>
      /\ watchdog.pc = "reads"
  BY DEF WatchdogReads
<1>2. bad \in 0..StaleCycles /\ 0 \in 0..StaleCycles /\ 0 \in 0..MinOutage
  BY Fields, Limits, AtMostIsBounded DEF StreamInv
<1>3. PICK quiet \in BOOLEAN :
        Track(IF ~watchdog.ready \/ failed THEN "FAILED"
              ELSE IF quiet THEN "STALE" ELSE "HEALTHY",
              watchdog.dead \/ failed, reason)
  BY DEF WatchdogReads
<1> DEFINE report == IF ~watchdog.ready \/ failed THEN "FAILED"
                     ELSE IF quiet THEN "STALE" ELSE "HEALTHY"
<1>4. report \in {"HEALTHY", "STALE", "FAILED"} /\ reason \in StreamReasons
  BY DEF StreamReasons
<1>5. \/ /\ report = "HEALTHY"
         /\ watchdog' = [watchdog EXCEPT !.pc = "observe", !.report = report,
                                         !.bad = 0, !.age = 0]
      \/ watchdog' = [watchdog EXCEPT !.pc = "observe", !.report = report]
      \/ \E pc \in {"latched?", "observe"} :
            /\ report # "HEALTHY"
            /\ watchdog' = [watchdog EXCEPT !.pc = pc, !.report = report,
                                            !.reason = reason, !.bad = bad]
  BY <1>3, Zenon DEF Track
<1> HIDE DEF report, reason, bad
<1>6. /\ watchdog' \in WatchdogRecord
      /\ watchdog'.pc \in {"latched?", "latch"} =>
            watchdog'.report # "HEALTHY" /\ watchdog'.reason \in StreamReasons
      /\ watchdog'.pc # "latched?" => watchdog'.pc = "observe"
  <2>1. watchdog \in WatchdogRecord
    BY DEF StreamInv, RecordsOK
  <2> QED BY <1>2, <1>4, <1>5, <2>1, ZenonT(60) DEF WatchdogRecord
<1>7. RecordsOK'
  BY <1>1, <1>6 DEF StreamInv, RecordsOK
<1> QED BY <1>1, <1>6, <1>7 DEF StreamInv, LoopOK, ReasonsAreKept, CountIsCalm

\* The steps of the watchdog that only move on: the question to the database, the failed latch.
LEMMA MovesKeep ==
    ASSUME StreamInv, WatchdogIsLatched \/ LatchFails
    PROVE  StreamInv'
<1>1. UNCHANGED <<stream, healer, socket, readable, deaths, calm>>
  BY DEF WatchdogIsLatched, LatchFails
<1>2. PICK pc \in {"latch", "observe"} :
        /\ watchdog' = [watchdog EXCEPT !.pc = pc]
        /\ watchdog.pc \in {"latched?", "latch"}
  BY DEF WatchdogIsLatched, LatchFails
<1>3. /\ watchdog' \in WatchdogRecord /\ watchdog'.pc = pc
      /\ watchdog'.report = watchdog.report /\ watchdog'.reason = watchdog.reason
  <2>1. watchdog \in WatchdogRecord
    BY DEF StreamInv, RecordsOK
  <2> QED BY <1>2, <2>1, Zenon DEF WatchdogRecord
<1>4. RecordsOK'
  BY <1>1, <1>3 DEF StreamInv, RecordsOK
<1> QED BY <1>1, <1>2, <1>3, <1>4 DEF StreamInv, LoopOK, ReasonsAreKept, CountIsCalm

\* The latch itself: the run of healthy reports starts over, and the bad report of this cycle
\* is still to be observed.
LEMMA LatchKeeps == ASSUME StreamInv, WatchdogLatch PROVE StreamInv'
<1>1. /\ UNCHANGED <<healer, socket, readable, deaths>> /\ calm' = 0
      /\ watchdog.pc = "latch" /\ watchdog' = [watchdog EXCEPT !.pc = "observe"]
      /\ stream' = [active |-> TRUE, reason |-> watchdog.reason]
  BY Zenon DEF WatchdogLatch
<1>2. /\ watchdog' \in WatchdogRecord /\ watchdog'.pc = "observe"
      /\ watchdog'.report = watchdog.report
  <2>1. watchdog \in WatchdogRecord
    BY DEF StreamInv, RecordsOK
  <2> QED BY <1>1, <2>1, Zenon DEF WatchdogRecord
<1>3. watchdog.reason \in StreamReasons /\ watchdog.report # "HEALTHY"
  BY <1>1 DEF StreamInv, ReasonsAreKept, CountIsCalm
<1>4. stream' \in StreamRow /\ stream'.reason \in StreamReasons
  BY <1>1, <1>3, Zenon DEF StreamRow
<1>5. RecordsOK'
  BY <1>1, <1>2, <1>4, Limits DEF StreamInv, RecordsOK
<1> QED BY <1>1, <1>2, <1>3, <1>4, <1>5 DEF StreamInv, LoopOK, ReasonsAreKept, CountIsCalm

\* A healthy report counts for the healer and for the run alike.
LEMMA CountsTogether ==
    ASSUME StreamInv, watchdog.pc = "observe", ~Disarmed
    PROVE  /\ AtMost(healer.healthy + 1, MaxHealthy) \in 0..MaxHealthy
           /\ CalmNow \in 0..MaxHealthy
           /\ AtMost(healer.healthy + 1, MaxHealthy) <= CalmNow
<1>1. CalmNow = AtMost(calm + 1, MaxHealthy) /\ healer.healthy <= calm
  BY DEF StreamInv, CountIsCalm, CalmNow, Disarmed
<1>2. healer.healthy \in 0..MaxHealthy /\ calm \in 0..MaxHealthy
  BY Fields DEF StreamInv
<1> QED BY <1>1, <1>2, Limits DEF AtMost

\* The watchdog's record after the healer has observed it.
LEMMA ObservedIsIdle ==
    ASSUME RecordsOK, watchdog' = [watchdog EXCEPT !.pc = "idle"]
    PROVE  watchdog' \in WatchdogRecord /\ watchdog'.pc = "idle"
<1>1. watchdog \in WatchdogRecord
  BY DEF RecordsOK
<1> QED BY <1>1, Zenon DEF WatchdogRecord

\* The healer observes a healthy report: it releases, counts, or fails after it has counted.
LEMMA ObserveKeeps == ASSUME StreamInv, HealerObserve \/ HealerError PROVE StreamInv'
<1> DEFINE healthy == AtMost(healer.healthy + 1, MaxHealthy)
<1>1. /\ UNCHANGED <<socket, readable, deaths>> /\ calm' = CalmNow
      /\ watchdog.pc = "observe" /\ ~Disarmed
      /\ watchdog' = [watchdog EXCEPT !.pc = "idle"]
  BY DEF HealerObserve, HealerError
<1>2. \/ /\ MayHeal
         /\ stream' = [active |-> FALSE, reason |-> "auto:healthy"]
         /\ healer' = [healthy |-> 0, cool |-> Cooldown, recent |-> healer.recent \cup {0}]
      \/ UNCHANGED stream /\ healer' = [healer EXCEPT !.healthy = healthy]
  BY Zenon DEF HealerObserve, HealerError
<1>3. healthy \in 0..MaxHealthy /\ calm' \in 0..MaxHealthy /\ healthy <= calm'
  BY <1>1, CountsTogether
<1>4. watchdog' \in WatchdogRecord /\ watchdog'.pc = "idle"
  BY <1>1, ObservedIsIdle DEF StreamInv
<1> HIDE DEF healthy
<1>5. CASE /\ MayHeal
           /\ stream' = [active |-> FALSE, reason |-> "auto:healthy"]
           /\ healer' = [healthy |-> 0, cool |-> Cooldown, recent |-> healer.recent \cup {0}]
  <2> DEFINE recent == healer.recent \cup {0}
  <2>1. recent \in SUBSET (0..Hour) /\ Cardinality(recent) <= MaxPerHour
    <3>1. healer.recent \in SUBSET (0..Hour)
      BY Fields DEF StreamInv
    <3>2. Cardinality(healer.recent) < MaxPerHour
      BY <1>5 DEF MayHeal
    <3> QED BY <3>1, <3>2, OneMoreRelease
  <2>2. 0 \in 0..MaxHealthy /\ Cooldown \in 0..Cooldown
    BY Limits
  <2> HIDE DEF recent
  <2>3. healer' = [healthy |-> 0, cool |-> Cooldown, recent |-> recent]
    BY <1>5, Zenon DEF recent
  <2>4. healer' \in HealerRecord /\ healer'.healthy = 0 /\ healer'.recent = recent
    BY <2>1, <2>2, <2>3, Zenon DEF HealerRecord
  <2>5. stream' \in StreamRow /\ ~stream'.active
    BY <1>5, Zenon DEF StreamRow
  <2>6. RecordsOK'
    BY <1>3, <1>4, <2>4, <2>5 DEF RecordsOK
  <2> QED BY <1>1, <1>3, <1>4, <2>1, <2>4, <2>5, <2>6
          DEF StreamInv, LoopOK, ReasonsAreKept, CountIsCalm
<1>6. CASE UNCHANGED stream /\ healer' = [healer EXCEPT !.healthy = healthy]
  <2>1. healer' \in HealerRecord /\ healer'.healthy = healthy /\ healer'.recent = healer.recent
    <3>1. healer \in HealerRecord
      BY DEF StreamInv, RecordsOK
    <3> QED BY <1>3, <1>6, <3>1, Zenon DEF HealerRecord
  <2>2. RecordsOK'
    BY <1>3, <1>4, <1>6, <2>1 DEF StreamInv, RecordsOK
  <2> QED BY <1>1, <1>3, <1>4, <1>6, <2>1, <2>2
          DEF StreamInv, LoopOK, ReasonsAreKept, CountIsCalm
<1> QED BY <1>2, <1>5, <1>6

\* A report that is not healthy ends both counts.
LEMMA DisarmKeeps == ASSUME StreamInv, HealerDisarmed PROVE StreamInv'
<1>1. /\ UNCHANGED <<stream, socket, readable, deaths>> /\ calm' = 0
      /\ healer' = [healer EXCEPT !.healthy = 0]
      /\ watchdog' = [watchdog EXCEPT !.pc = "idle"]
  BY DEF HealerDisarmed, CalmNow, Disarmed
<1>2. watchdog' \in WatchdogRecord /\ watchdog'.pc = "idle"
  BY <1>1, ObservedIsIdle DEF StreamInv
<1>3. 0 \in 0..MaxHealthy
  BY Limits
<1>4. healer' \in HealerRecord /\ healer'.healthy = 0 /\ healer'.recent = healer.recent
  <2>1. healer \in HealerRecord
    BY DEF StreamInv, RecordsOK
  <2> QED BY <1>1, <1>3, <2>1, Zenon DEF HealerRecord
<1>5. RecordsOK'
  BY <1>1, <1>2, <1>3, <1>4 DEF StreamInv, RecordsOK
<1> QED BY <1>1, <1>2, <1>4, <1>5 DEF StreamInv, LoopOK, ReasonsAreKept, CountIsCalm

\* A restart forgets the healer's count, never adds to it.
LEMMA RestartKeeps == ASSUME StreamInv, WatchdogRestart PROVE StreamInv'
<1>1. /\ UNCHANGED <<stream, socket, readable, calm>>
      /\ deaths < MaxDeaths /\ deaths' = deaths + 1
      /\ watchdog' = WatchdogAtRest /\ healer' = HealerAtStart
  BY DEF WatchdogRestart
<1>2. 0 \in 0..StaleCycles /\ 0 \in 0..MinOutage /\ 0 \in 0..MaxHealthy /\ 0 \in 0..Cooldown
  BY Limits
<1>3. watchdog' \in WatchdogRecord /\ watchdog'.pc = "idle"
  BY <1>1, <1>2, Zenon DEF WatchdogAtRest, WatchdogRecord
<1>4. healer' \in HealerRecord /\ healer'.recent = {} /\ healer'.healthy = 0
  BY <1>1, <1>2, Zenon DEF HealerAtStart, HealerRecord
<1>5. LoopOK'
  BY <1>1, <1>4, FS_EmptySet, Limits DEF StreamInv, LoopOK
<1>6. RecordsOK' /\ calm' \in 0..MaxHealthy
  BY <1>1, <1>3, <1>4 DEF StreamInv, RecordsOK
<1> QED BY <1>1, <1>3, <1>4, <1>5, <1>6, Limits DEF StreamInv, ReasonsAreKept, CountIsCalm

\* The operator, the session and the provider touch no count.
LEMMA WorldKeeps ==
    ASSUME StreamInv, OperatorRelease \/ SocketChange \/ ProviderChange
    PROVE  StreamInv'
<1>1. UNCHANGED <<watchdog, healer, deaths, calm>>
  BY DEF OperatorRelease, SocketChange, ProviderChange
<1>2. \/ stream' = [active |-> FALSE, reason |-> "approved"]
      \/ UNCHANGED stream
  BY DEF OperatorRelease, SocketChange, ProviderChange
<1>3. stream' \in StreamRow /\ (stream'.active => UNCHANGED stream)
  <2>1. CASE stream' = [active |-> FALSE, reason |-> "approved"]
    BY <2>1, Zenon DEF StreamRow
  <2>2. CASE UNCHANGED stream
    BY <2>2 DEF StreamInv, RecordsOK
  <2> QED BY <1>2, <2>1, <2>2
<1>4. socket' \in {"connected", "limbo", "dead"}
  BY DEF StreamInv, LoopOK, OperatorRelease, SocketChange, ProviderChange
<1>5. readable' \in BOOLEAN
  BY Zenon DEF StreamInv, LoopOK, OperatorRelease, SocketChange, ProviderChange
<1>6. RecordsOK' /\ LoopOK'
  BY <1>1, <1>3, <1>4, <1>5 DEF StreamInv, RecordsOK, LoopOK
<1> QED BY <1>1, <1>3, <1>6 DEF StreamInv, ReasonsAreKept, CountIsCalm

\* Every step keeps the invariant.
LEMMA StreamStepHolds == StreamInv /\ [StreamNext]_streamVars => StreamInv'
<1> SUFFICES ASSUME StreamInv, [StreamNext]_streamVars PROVE StreamInv'
    OBVIOUS
<1>1. CASE UNCHANGED streamVars
  BY <1>1 DEF streamVars, StreamInv, RecordsOK, LoopOK, ReasonsAreKept, CountIsCalm
<1> QED BY <1>1, BeginKeeps, ReadsKeep, MovesKeep, LatchKeeps, ObserveKeeps, DisarmKeeps,
           RestartKeeps, WorldKeeps DEF StreamNext, WatchdogStep

\* The inductive invariant of the latch, the loop and its memory.
THEOREM StreamInvariant == StreamSpec => []StreamInv
BY StreamInitHolds, StreamStepHolds, PTL DEF StreamSpec

\* The row, the loop's memory and the breaker's count keep their types, for any policy.
THEOREM StreamTypeCorrect == StreamSpec => []StreamTypeOK
<1>1. StreamInv => StreamTypeOK
  BY Zenon DEF StreamInv, RecordsOK, LoopOK, ReasonsAreKept, StreamRow, WatchdogRecord,
               HealerRecord, StreamTypeOK
<1> QED BY <1>1, StreamInvariant, PTL

\* LatchHealer.observe releases a latch only after as many healthy reports, all of them later
\* than the latch, as the latch's reason asks for.
THEOREM HealIsEarned == StreamSpec => HealNeedsHealth
<1>1. ASSUME StreamInv, [StreamNext]_streamVars, stream.active, stream'.reason = "auto:healthy"
      PROVE  calm' >= RequiredCycles(stream.reason)
  <2>1. stream' # stream /\ stream.reason # "auto:healthy"
    BY <1>1 DEF StreamInv, ReasonsAreKept, StreamReasons
  <2>2. CASE HealerObserve
    <3>1. /\ watchdog.pc = "observe" /\ ~Disarmed /\ calm' = CalmNow
          /\ AtMost(healer.healthy + 1, MaxHealthy) >= RequiredCycles(stream.reason)
      BY <2>1, <2>2 DEF HealerObserve
    <3>2. RequiredCycles(stream.reason) \in Nat
      BY Limits DEF RequiredCycles
    <3> QED BY <1>1, <3>1, <3>2, CountsTogether, Limits
  <2>3. CASE WatchdogLatch
    <3>1. stream'.reason = watchdog.reason /\ watchdog.pc = "latch"
      BY <2>3 DEF WatchdogLatch
    <3> QED BY <1>1, <3>1 DEF StreamInv, ReasonsAreKept, StreamReasons
  <2>4. CASE OperatorRelease
    BY <1>1, <2>4 DEF OperatorRelease
  <2>5. CASE ~(HealerObserve \/ WatchdogLatch \/ OperatorRelease)
    <3>1. UNCHANGED stream
      BY <1>1, <2>5 DEF StreamNext, WatchdogStep, WatchdogBegin, WatchdogReads,
             WatchdogIsLatched, LatchFails, HealerDisarmed, HealerError, WatchdogRestart,
             SocketChange, ProviderChange, streamVars
    <3> QED BY <2>1, <3>1
  <2> QED BY <2>2, <2>3, <2>4, <2>5
<1>2. StreamInv /\ [StreamNext]_streamVars
        => [(stream.active /\ stream'.reason = "auto:healthy")
               => calm' >= RequiredCycles(stream.reason)]_streamVars
  BY <1>1
<1> QED BY <1>2, StreamInvariant, PTL DEF StreamSpec, HealNeedsHealth

=============================================================================
