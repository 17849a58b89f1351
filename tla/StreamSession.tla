--------------------------- MODULE StreamSession ---------------------------
(***************************************************************************)
(* The link to the exchange's stream (exchanges/bitget/websocket_v2.py):  *)
(* a public socket for tickers and a private one for the account, opened,  *)
(* judged and replaced as one.  The local stops act on its marks and the   *)
(* watchdog on its verdict (check_freshness), from other tasks of the same *)
(* event loop, so an action is what a task does between two awaits.        *)
(*                                                                         *)
(* A socket may go silent without an error: the transport sends no pings   *)
(* of its own.  Time is counted in ticks; an age beyond its limit is all   *)
(* the same and stops there.                                               *)
(***************************************************************************)
EXTENDS Integers, FiniteSets

CONSTANTS
    Tickers,        \* symbols a local stop may want
    StaleAfter,     \* the oldest mark that counts
    SilentAfter,    \* the longest silence of the private socket
    Heartbeat       \* ticks between two pings

ASSUME SessionAssumption ==
    /\ StaleAfter \in Nat \ {0} /\ SilentAfter \in Nat \ {0} /\ Heartbeat \in Nat \ {0}
    /\ SilentAfter > 2 * Heartbeat

Legs == {"public", "private"}

VARIABLES
    wanted,     \* _symbols
    at,         \* where run() stands
    leg,        \* each socket: none, live, or dead without anybody being told
    served,     \* the tickers the venue sends on the public socket
    auth,       \* _private_authenticated
    heard,      \* age of _last_private_activity_at
    mark,       \* age of the newest mark accepted so far (_last_mark_event_ms)
    counted,    \* symbols with an entry in _last_mark_event_at
    coming,     \* age of the mark that is on its way
    pongs,      \* sockets whose pong is on its way
    pinged,     \* age of _last_ping_at
    waited,     \* how long receive_once has been waiting
    woken,      \* there is something for receive_once: _any_event, or a queue that is not empty
    broken,     \* a reader has ended with an error (_reader_error)
    made,       \* history: age of the last mark the venue made
    deaf        \* history: for how long the private socket has been dead

sessionVars == <<wanted, at, leg, served, auth, heard, mark, counted, coming, pongs, pinged,
                 waited, woken, broken, made, deaf>>
truth   == <<made, deaf>>
clocks  == <<heard, mark, counted, pinged, waited>>
inbound == <<woken, broken>>
wire    == <<leg, served, coming, pongs>>

Never == StaleAfter + 1     \* too old to matter, or not seen at all
Older(age, limit) == IF age > limit THEN age ELSE age + 1

Stages == {"idle", "login", "greeted", "reading", "delivering"}
Up == at \in {"reading", "delivering"}

\* Both legs are open, the private one has logged in and was heard of.
PrivateLegLive == auth /\ heard <= SilentAfter
LegsLive == leg["public"] # "none" /\ leg["private"] # "none" /\ ~broken /\ PrivateLegLive

\* check_freshness of one symbol, and of all of them.
FreshFor(s) == LegsLive /\ s \in wanted /\ s \in counted /\ mark[s] <= StaleAfter
CheckFreshness == LegsLive /\ \A s \in wanted : s \in counted /\ mark[s] <= StaleAfter

NoLegs == [l \in Legs |-> "none"]

SessionInit ==
    /\ wanted \in SUBSET Tickers
    /\ at = "idle" /\ leg = NoLegs /\ served = {} /\ auth = FALSE
    /\ heard = SilentAfter + 1 /\ pinged = 0 /\ waited = 0
    /\ mark = [s \in Tickers |-> Never] /\ counted = {}
    /\ coming = [s \in Tickers |-> Never] /\ pongs = {}
    /\ woken = FALSE /\ broken = FALSE
    /\ made = [s \in Tickers |-> Never] /\ deaf = 0

----------------------------------------------------------------------------
(* connect(), and the end of a link.                                       *)

\* Both sockets are opened (or neither, and connect is tried again).  The private leg is
\* unproven from here on, whatever was known of the last one.  The tickers wanted at this
\* moment are subscribed, none when there are none; the login is sent, and its answer awaited
\* without a limit.
OpenLegs ==
    /\ at = "idle"
    /\ at' = "login"
    /\ auth' = FALSE
    /\ leg' = [l \in Legs |-> "live"] /\ served' = wanted
    /\ UNCHANGED <<wanted, coming, pongs, clocks, inbound, truth>>

LoginAcknowledged ==
    /\ at = "login" /\ leg["private"] = "live"
    /\ at' = "greeted" /\ auth' = TRUE
    /\ UNCHANGED <<wanted, wire, clocks, inbound, truth>>

\* The private subscription is sent, every age starts anew and so do the readers.
StartReaders ==
    /\ at = "greeted"
    /\ at' = "reading"
    /\ heard' = 0 /\ counted' = {} /\ broken' = FALSE
    /\ UNCHANGED <<wanted, wire, auth, mark, pinged, waited, woken, truth>>

\* The readers are stopped and the sockets closed, and with them goes what was on its way.
\* The wait and the pings start anew with the next link; an error is remembered until then.
Closed ==
    /\ at' = "idle"
    /\ leg' = NoLegs /\ served' = {} /\ pongs' = {}
    /\ coming' = [s \in Tickers |-> Never] /\ deaf' = 0
    /\ pinged' = 0 /\ waited' = 0 /\ woken' = FALSE

\* run() replaces a link it has given up.
Hangup == Closed /\ UNCHANGED <<wanted, auth, heard, mark, counted, broken, made>>

\* Any error on the way closes what was opened.
ConnectFails ==
    /\ at \in {"login", "greeted"}
    /\ Closed
    /\ auth' = FALSE
    /\ UNCHANGED <<wanted, heard, mark, counted, broken, made>>

----------------------------------------------------------------------------
(* The readers, one per socket, and what the venue sends.                  *)

\* Nothing that is read beside a reader's error changes the verdict on this link any more.
Reads == Up /\ ~broken

\* Fault: a mark counts as made when it is read.
MarkAgeOnReceipt(s) == 0

\* The mark's age is taken from its own time: one that was long on its way is old.
MarkAge(s) == coming[s]

ReceiveMark(s) ==
    /\ Reads /\ coming[s] # Never
    /\ coming' = [coming EXCEPT ![s] = Never]
    /\ IF MarkAge(s) <= StaleAfter /\ MarkAge(s) < mark[s]
       THEN /\ mark' = [mark EXCEPT ![s] = MarkAge(s)]
            /\ counted' = counted \cup {s}
            /\ woken' = TRUE
       ELSE UNCHANGED <<mark, counted, woken>>
    /\ UNCHANGED <<wanted, at, leg, served, auth, pongs, heard, pinged, waited, broken, truth>>

\* A pong wakes the loop if it is waiting; only the private one proves the private leg.
HeardAfter(l) == IF l = "private" THEN 0 ELSE heard

ReceivePong(l) ==
    /\ Reads /\ l \in pongs
    /\ pongs' = pongs \ {l} /\ heard' = HeardAfter(l)
    /\ woken' = (woken \/ at = "reading")
    /\ UNCHANGED <<wanted, at, leg, served, auth, coming, mark, counted, pinged, waited, broken,
                   truth>>

\* A position or an order changed.
ReceiveAccount ==
    /\ Reads /\ leg["private"] = "live"
    /\ heard' = HeardAfter("private") /\ woken' = TRUE
    /\ UNCHANGED <<wanted, at, wire, auth, mark, counted, pinged, waited, broken, truth>>

\* The socket fails, or sends what cannot be read: the reader ends with an error.
BreakLeg ==
    /\ Reads
    /\ broken' = TRUE /\ woken' = TRUE
    /\ UNCHANGED <<wanted, at, wire, auth, clocks, truth>>

MakeMark(s) ==
    /\ leg["public"] = "live" /\ s \in served
    /\ coming' = [coming EXCEPT ![s] = 0] /\ made' = [made EXCEPT ![s] = 0]
    /\ UNCHANGED <<wanted, at, leg, served, auth, pongs, clocks, inbound, deaf>>

\* Nothing arrives any more, and nobody is told.
GoSilent(l) ==
    /\ leg[l] = "live"
    /\ leg' = [leg EXCEPT ![l] = "dead"]
    /\ pongs' = pongs \ {l}
    /\ coming' = IF l = "public" THEN [s \in Tickers |-> Never] ELSE coming
    /\ UNCHANGED <<wanted, at, served, auth, clocks, inbound, truth>>

----------------------------------------------------------------------------
(* The loop of run().                                                      *)

Pinged == {l \in Legs : leg[l] = "live"}

\* send_heartbeat_if_due, in the wait and before it.
SendHeartbeat ==
    /\ at = "reading" /\ pinged >= Heartbeat
    /\ pinged' = 0 /\ pongs' = pongs \cup Pinged
    /\ UNCHANGED <<wanted, at, leg, served, auth, coming, heard, mark, counted, waited, inbound,
                   truth>>

\* receive_once returns what is queued.
Drain ==
    /\ at = "reading" /\ woken
    /\ at' = "delivering" /\ woken' = FALSE
    /\ UNCHANGED <<wanted, wire, auth, clocks, broken, truth>>

\* A reader's error, nothing at all for two heartbeats, or a ping that cannot be sent.
Silence == waited >= 2 * Heartbeat /\ ~woken

GiveUp ==
    /\ at = "reading"
    /\ Silence \/ broken \/ (pinged >= Heartbeat /\ Pinged # Legs)
    /\ Hangup

\* Fault: the verdict is reported and the loop goes on reading.
StaysUpAnyway == TRUE

StaysUp == CheckFreshness

\* The events were handled and the link is judged: a stale one is replaced.
Judge ==
    /\ at = "delivering"
    /\ \/ /\ StaysUp
          /\ at' = "reading" /\ waited' = 0
          /\ UNCHANGED <<wanted, wire, auth, heard, mark, counted, pinged, inbound, truth>>
       \/ ~StaysUp /\ Hangup

\* The handler of an event raised.
HandlerFails == at = "delivering" /\ Hangup

----------------------------------------------------------------------------
(* sync_active_symbols, from the task beside the loop.                     *)

\* A frame is sent only on a link that is up; before that the symbol is merely noted.
MaySend == Up /\ ~broken
Reaches == MaySend /\ leg["public"] = "live"

Subscribe(s) ==
    /\ s \notin wanted
    /\ wanted' = wanted \cup {s}
    /\ served' = IF Reaches THEN served \cup {s} ELSE served
    /\ UNCHANGED <<at, leg, auth, coming, pongs, clocks, inbound, truth>>

Unsubscribe(s) ==
    /\ s \in wanted
    /\ wanted' = wanted \ {s}
    /\ counted' = counted \ {s}
    /\ served' = IF Reaches THEN served \ {s} ELSE served
    /\ UNCHANGED <<at, leg, auth, coming, pongs, heard, mark, pinged, waited, inbound, truth>>

\* A frame that cannot be sent ends the task, and with it the process, which is restarted.
SyncFails ==
    /\ MaySend /\ leg["public"] = "dead"
    /\ wanted' \in SUBSET Tickers
    /\ Closed
    /\ auth' = FALSE /\ heard' = SilentAfter + 1
    /\ mark' = [s \in Tickers |-> Never] /\ counted' = {}
    /\ broken' = FALSE /\ UNCHANGED made

----------------------------------------------------------------------------
\* Sending the private subscription takes no time; all else may.
Tick ==
    /\ at # "greeted"
    /\ heard' = Older(heard, SilentAfter)
    /\ mark' = [s \in Tickers |-> Older(mark[s], StaleAfter)]
    /\ coming' = [s \in Tickers |-> Older(coming[s], StaleAfter)]
    /\ made' = [s \in Tickers |-> Older(made[s], StaleAfter)]
    /\ deaf' = IF leg["private"] = "dead" THEN Older(deaf, SilentAfter) ELSE 0
    /\ pinged' = IF Up /\ pinged < Heartbeat THEN pinged + 1 ELSE pinged
    /\ waited' = IF at = "reading" /\ waited < 2 * Heartbeat THEN waited + 1 ELSE waited
    /\ UNCHANGED <<wanted, at, leg, served, auth, counted, pongs, inbound>>

RunStep == OpenLegs \/ LoginAcknowledged \/ StartReaders \/ Drain \/ Judge \/ (Silence /\ GiveUp)

SessionNext ==
    \/ RunStep \/ SendHeartbeat \/ GiveUp \/ HandlerFails \/ ConnectFails
    \/ ReceiveAccount \/ BreakLeg \/ SyncFails \/ Tick
    \/ \E s \in Tickers : ReceiveMark(s) \/ MakeMark(s) \/ Subscribe(s) \/ Unsubscribe(s)
    \/ \E l \in Legs : ReceivePong(l) \/ GoSilent(l)

\* The loop is a task of a process that is restarted, and time passes.
SessionFairness == WF_sessionVars(RunStep) /\ WF_sessionVars(Tick)

SessionSpec == SessionInit /\ [][SessionNext]_sessionVars /\ SessionFairness

SessionTypeOK ==
    /\ wanted \subseteq Tickers /\ served \subseteq Tickers /\ counted \subseteq Tickers
    /\ at \in Stages
    /\ leg \in [Legs -> {"none", "live", "dead"}]
    /\ heard \in 0..(SilentAfter + 1) /\ deaf \in 0..(SilentAfter + 1)
    /\ mark \in [Tickers -> 0..Never]
    /\ coming \in [Tickers -> 0..Never]
    /\ made \in [Tickers -> 0..Never]
    /\ pongs \subseteq Legs
    /\ pinged \in 0..Heartbeat /\ waited \in 0..(2 * Heartbeat)
    /\ auth \in BOOLEAN /\ woken \in BOOLEAN /\ broken \in BOOLEAN

\* A fresh verdict is never given of a link that is not: the venue made a mark of the symbol
\* within the limit, and the private socket has not been dead for longer than the silence that
\* is allowed ("A live public ticker with a silent or unauthenticated private leg is NOT
\* healthy", exchanges/bitget/websocket_v2.py).
FreshIsLive ==
    \A s \in Tickers : FreshFor(s) => made[s] <= StaleAfter /\ deaf <= SilentAfter

\* Every wanted ticker is served and the sockets that serve it are alive.
Serves == /\ wanted \subseteq served
          /\ leg["private"] = "live"
          /\ wanted # {} => leg["public"] = "live"

\* A link that serves less than what is wanted, because a socket went silent or a symbol was
\* added while the link was coming up, is put right or replaced ("The freshness verdict must
\* DRIVE the reconnect path").
StaleLinkIsReplaced == (Up /\ ~Serves) ~> (~Up \/ Serves)

============================================================================
