----------------------- MODULE NativeProtectionProofs -----------------------
(***************************************************************************)
(* Proofs about NativeProtection, for any set of callers, any setup, any   *)
(* number of attempts, re-reads, deaths and any stale time.                *)
(*                                                                         *)
(* Every step of a call is brought to one form, GoodMove, which says what  *)
(* any step may do to the record of the call; the invariant follows from   *)
(* that form, and so does the action property about reports.               *)
(***************************************************************************)
EXTENDS NativeProtection, FiniteSetTheorems, TLAPS

USE NativeAssumption

----------------------------------------------------------------------------
(* The inductive invariant.                                                *)

\* What a report may say, and the two stops an entry may have.
Reports == {"none", "venue", "degraded", "not-open", "open", "failed", "managed"}
Stops == {"planned", "moved"}

\* The rows of the capability table.
Capabilities == [native: {"UNKNOWN", "VERIFIED", "FAILED", "UNSUPPORTED"}, allowed: BOOLEAN,
                 stream: {"DISABLED", "HEALTHY", "STALE", "FAILED"}, at: Nat]

\* What a read of the position returns.
Reads == [qty: Nat, ids: [Sides -> Nat]]

\* The record of a call.
Calls == [pc: Pcs, posts: Nat, report: Reports, rounds: Nat, seen: Reads, want: [Sides -> Nat],
          stop: Stops, held: Capabilities, holding: BOOLEAN]

\* The record of the venue.
Markets == [qty: Nat, epoch: {1, 2}, plan: [Sides -> Nat], shown: SUBSET Sides, stop: Stops,
            lastId: Nat]

\* The record of the console's job.
Repairs == [pc: {"idle", "place", "modify", "position", "unproven", "plans", "confirmed"},
            want: [Sides -> Nat], missing: SUBSET Sides, seen: Reads, stop: Stops, qty: Nat]

\* What the venue keeps: ids are issued in order, what is shown exists, and plans go with
\* their position.
MarketInv ==
    /\ setup \in Setups
    /\ market \in Markets
    /\ market.qty <= Filled
    /\ \A s \in Sides: market.plan[s] <= market.lastId
    /\ \A s \in market.shown: market.plan[s] # 0
    /\ \A s \in Sides: market.plan[s] # 0 => market.qty > 0

\* The console's job, the rows of the legs and the emergency row.
RowsInv ==
    /\ repair \in Repairs
    /\ activeStop \in Stops
    /\ legs \in [claimed: BOOLEAN, id: [Sides -> Nat]]
    /\ \A s \in Sides: legs.id[s] <= market.lastId
    /\ emergency \in [claimed: BOOLEAN, closes: Nat]
    /\ registered \in {0, 1}

\* No writer of the capability row holds an event time that no event had.
StreamInv ==
    /\ clock \in [now: Nat, event: Nat]
    /\ clock.event <= clock.now
    /\ capability \in Capabilities
    /\ capability.at <= clock.event
    /\ watch \in [state: {"none", "HEALTHY", "STALE", "FAILED"}, at: Nat]
    /\ watch.at <= clock.event
    /\ \A c \in Callers: call[c].held.at <= clock.event

\* What the place of a call says of its record.
CallsInv ==
    /\ call \in [Callers -> Calls]
    /\ \A c \in Callers:
          /\ call[c].pc = "begin" => call[c].posts = 0
          /\ call[c].posts <= MaxPosts
          /\ call[c].pc = "post" => call[c].posts < MaxPosts
          /\ call[c].pc = "ack" => \A s \in Sides: call[c].want[s] <= market.lastId
          /\ call[c].holding => call[c].pc \in DOMAIN Noted
          /\ call[c].pc \in {"contain", "close"} => Containment
          /\ call[c].report = "managed" => registered = 1

\* Call c has placed plans or is about to.
Posting(c) == call[c].posts > 0 \/ call[c].pc = "post"

\* The legs have one holder, and the emergency close has one.
HoldersInv ==
    /\ \A c \in Callers: Posting(c) => legs.claimed
    /\ \A c, d \in Callers: Posting(c) /\ Posting(d) => c = d
    /\ \A c \in Callers: call[c].pc = "close" => emergency.claimed /\ emergency.closes = 0
    /\ \A c, d \in Callers: call[c].pc = "close" /\ call[d].pc = "close" => c = d
    /\ ~emergency.claimed => emergency.closes = 0
    /\ emergency.closes <= 1
    /\ emergency.closes > 0 => Containment

NativeInv == MarketInv /\ RowsInv /\ StreamInv /\ CallsInv /\ HoldersInv

----------------------------------------------------------------------------
(* Facts about the data.                                                   *)

\* The bounds are numbers, and a setup is the fills, the plan and two settings.
LEMMA SetupIsTyped ==
    ASSUME MarketInv
    PROVE  /\ Filled \in Nat /\ PlanQuantity \in Nat
           /\ FallbackOn \in BOOLEAN /\ Containment \in BOOLEAN
BY DEF MarketInv, Filled, PlanQuantity, FallbackOn, Containment

\* Nothing is expected, seen or held at the start.
LEMMA NothingIsTyped ==
    /\ NoId \in [Sides -> Nat] /\ Unseen \in Reads
    /\ NoCapability \in Capabilities /\ NoCapability.at = 0
    /\ \A s \in Sides: NoId[s] = 0
<1>1. NoId \in [Sides -> Nat] /\ \A s \in Sides: NoId[s] = 0
  BY DEF NoId
<1>2. Unseen \in Reads
  BY <1>1 DEF Unseen, Reads
<1>3. NoCapability \in Capabilities /\ NoCapability.at = 0
  BY DEF NoCapability, Capabilities
<1> QED BY <1>1, <1>2, <1>3

\* A call that holds nothing but its posts and its report.
LEMMA AtIsTyped ==
    ASSUME NEW pc \in Pcs, NEW posts \in Nat, NEW report \in Reports
    PROVE  /\ At(pc, posts, report) \in Calls
           /\ At(pc, posts, report).pc = pc
           /\ At(pc, posts, report).posts = posts
           /\ At(pc, posts, report).report = report
           /\ At(pc, posts, report).held.at = 0
           /\ ~At(pc, posts, report).holding
<1>1. 0 \in Nat /\ "planned" \in Stops /\ FALSE \in BOOLEAN
  BY DEF Stops
<1> QED BY <1>1, NothingIsTyped, Zenon DEF At, Calls

\* What a call can read of the position.
LEMMA PositionRowsAreReads ==
    ASSUME MarketInv
    PROVE  ShownIds \in [Sides -> Nat] /\ PositionRows \subseteq Reads
<1>1. ShownIds \in [Sides -> Nat]
  BY DEF MarketInv, Markets, ShownIds
<1> QED BY <1>1, NothingIsTyped DEF MarketInv, Markets, PositionRows, Reads

\* The verdicts of the two reads.
LEMMA VerdictsAreReports ==
    ASSUME NEW seen, NEW qty, NEW want, NEW stop
    PROVE  /\ RowVerdict(seen, qty, want) \in {"not-open", "degraded", "open"}
           /\ PlanVerdict(seen, want, stop) \in {"venue", "degraded"}
BY DEF RowVerdict, PlanVerdict

\* A plan that is confirmed rests at the venue with the stop that was asked for.
LEMMA ConfirmedPlansRest ==
    ASSUME MarketInv, NEW seen, NEW want, NEW stop, PlanVerdict(seen, want, stop) = "venue"
    PROVE  market.qty > 0 /\ (\A s \in Sides: market.plan[s] # 0) /\ market.stop = stop
<1>1. (\A s \in Sides: s \in market.shown) /\ market.stop = stop
  BY DEF PlanVerdict
<1>2. \A s \in Sides: market.plan[s] # 0
  BY <1>1 DEF MarketInv
<1>3. market.qty > 0
  BY <1>2 DEF MarketInv, Sides
<1> QED BY <1>1, <1>2, <1>3

----------------------------------------------------------------------------
(* What a step may do to the record of a call.                             *)

\* The plans of the entry rest with this stop.
Rests(stop) == market.qty > 0 /\ (\A s \in Sides: market.plan[s] # 0) /\ market.stop = stop

\* Call c moves to the record g, and the others stay.
GoodMove(c, g) ==
    /\ call' = [call EXCEPT ![c] = g]
    /\ g \in Calls
    /\ g.pc # "begin"
    /\ \/ g.posts = call[c].posts
       \/ call[c].pc = "post" /\ g.posts = call[c].posts + 1
    /\ g.pc = "post" => /\ call[c].pc = "post" \/ (call[c].pc = "begin" /\ ~legs.claimed)
                        /\ legs'.claimed /\ g.posts < MaxPosts
    /\ g.pc = "ack" => \A s \in Sides: g.want[s] <= market'.lastId
    /\ g.holding => g.pc \in DOMAIN Noted
    /\ g.held.at <= clock.event
    /\ g.pc \in {"contain", "close"} => Containment
    /\ g.pc = "close" => ~emergency.claimed /\ emergency'.claimed
    /\ g.report = "managed" => registered' = 1
    /\ g.report = "venue" /\ call[c].report # "venue" => Rests(call[c].stop)

\* Some such record.
SomeGoodMove(c) == \E g \in Calls: GoodMove(c, g)

\* The facts about one call that its steps start from.
LEMMA CallIsTyped ==
    ASSUME NativeInv, NEW c \in Callers
    PROVE  /\ call[c] \in Calls /\ call[c].pc \in Pcs /\ call[c].posts \in Nat
           /\ call[c].report \in Reports /\ call[c].rounds \in Nat /\ call[c].seen \in Reads
           /\ call[c].want \in [Sides -> Nat] /\ call[c].stop \in Stops
           /\ call[c].held \in Capabilities /\ call[c].holding \in BOOLEAN
           /\ call[c].held.at \in Nat /\ clock.event \in Nat
           /\ call[c].held.at <= clock.event
BY DEF NativeInv, CallsInv, StreamInv, Calls, Capabilities

\* A call that goes on with nothing but its posts and a report.
LEMMA LeanMove ==
    ASSUME NativeInv, NEW c \in Callers, NEW pc \in Pcs, NEW v \in Reports,
           call' = [call EXCEPT ![c] = At(pc, call[c].posts, v)],
           pc \notin {"begin", "post", "ack"},
           pc \in {"contain", "close"} => Containment,
           pc = "close" => ~emergency.claimed /\ emergency'.claimed,
           v = "managed" => registered' = 1,
           v = "venue" => call[c].report = "venue" \/ Rests(call[c].stop)
    PROVE  SomeGoodMove(c)
<1> DEFINE g == At(pc, call[c].posts, v)
<1>1. /\ g \in Calls /\ g.pc = pc /\ g.posts = call[c].posts /\ g.report = v
      /\ g.held.at = 0 /\ ~g.holding
  <2> DEFINE n == call[c].posts
  <2>1. n \in Nat
    BY CallIsTyped
  <2> HIDE DEF n
  <2>2. /\ At(pc, n, v) \in Calls /\ At(pc, n, v).pc = pc /\ At(pc, n, v).posts = n
        /\ At(pc, n, v).report = v /\ At(pc, n, v).held.at = 0
        /\ ~At(pc, n, v).holding
    BY <2>1, AtIsTyped
  <2> QED BY <2>2 DEF n
<1>2. call' = [call EXCEPT ![c] = g]
  OBVIOUS
<1> HIDE DEF g
<1>3. 0 <= clock.event
  BY CallIsTyped
<1>4. GoodMove(c, g)
  BY <1>1, <1>2, <1>3 DEF GoodMove
<1> QED BY <1>1, <1>4 DEF SomeGoodMove

\* A call that only reads, or goes on reading.
LEMMA ReadingMove ==
    ASSUME NativeInv, NEW c \in Callers, NEW g \in Calls, call' = [call EXCEPT ![c] = g],
           g.pc \notin {"begin", "post", "ack", "contain", "close"},
           g.posts = call[c].posts,
           g.held = call[c].held, g.holding => g.pc \in DOMAIN Noted,
           g.report = call[c].report \/ g.report \notin {"managed", "venue"},
           registered' = registered
    PROVE  SomeGoodMove(c)
<1>1. g.held.at <= clock.event
  BY CallIsTyped
<1>2. g.report = "managed" => registered' = 1
  BY DEF NativeInv, CallsInv
<1>3. GoodMove(c, g)
  BY <1>1, <1>2, Zenon DEF GoodMove
<1> QED BY <1>3 DEF SomeGoodMove

\* The verdicts that are written into the capability row.
LEMMA NotedVerdicts ==
    /\ DOMAIN Noted = {"verified", "failed", "unmanaged", "rejected", "unsupported", "laneoff"}
    /\ \A pc \in DOMAIN Noted:
          /\ Noted[pc].native \in {"VERIFIED", "FAILED", "UNSUPPORTED"}
          /\ Noted[pc].allowed \in {"kept", "yes", "no"}
BY DEF Noted

----------------------------------------------------------------------------
(* The steps of a call.                                                    *)

\* Begin claims the legs, or finds them claimed.
LEMMA BeginMoves ==
    ASSUME NativeInv, NEW c \in Callers, Begin(c)
    PROVE  SomeGoodMove(c)
<1>0. call[c].pc = "begin" /\ UNCHANGED <<market, registered, emergency>>
  BY DEF Begin
<1>1. CASE call' = Verdict(c, "failed")
  <2>1. call' = [call EXCEPT ![c] = At("done", call[c].posts, "failed")]
    BY <1>1, Zenon DEF Verdict
  <2>2. "done" \in Pcs /\ "failed" \in Reports
    BY DEF Pcs, Reports
  <2> QED BY <2>1, <2>2, LeanMove
<1>2. CASE call' = CallAt(c, "manage")
  <2>1. call' = [call EXCEPT ![c] = At("manage", call[c].posts, call[c].report)]
    BY <1>2, Zenon DEF CallAt
  <2>2. call[c].report = "managed" => registered' = 1
    BY <1>0 DEF NativeInv, CallsInv
  <2>3. "manage" \in Pcs /\ call[c].report \in Reports
    BY CallIsTyped DEF Pcs
  <2> QED BY <2>1, <2>2, <2>3, LeanMove
<1>3. CASE /\ legs' = [legs EXCEPT !.claimed = TRUE]
           /\ call' = [call EXCEPT ![c].pc = Role, ![c].stop = activeStop]
  <2> DEFINE role == Role
             g == [call[c] EXCEPT !.pc = role, !.stop = activeStop]
  <2>1. call[c] \in Calls /\ call \in [Callers -> Calls] /\ activeStop \in Stops
    BY DEF NativeInv, CallsInv, RowsInv
  <2>2. call' = [call EXCEPT ![c] = g]
    BY <1>3, <2>1, Zenon
  <2>3. role \in Pcs /\ role \in {"post", "reader"} /\ (role = "post" => ~legs.claimed)
    BY DEF Role, Pcs
  <2>4. legs'.claimed
    BY <1>3 DEF NativeInv, RowsInv
  <2> HIDE DEF role
  <2>5. /\ g \in Calls /\ g.pc = role /\ g.posts = call[c].posts /\ g.held = call[c].held
        /\ g.holding = call[c].holding /\ g.report = call[c].report
    BY <2>1, <2>3, Zenon DEF Calls
  <2> HIDE DEF g
  <2>6. call[c].posts = 0 /\ ~call[c].holding /\ (call[c].report = "managed" => registered = 1)
    BY <1>0, NotedVerdicts DEF NativeInv, CallsInv
  <2>7. 0 < MaxPosts /\ call[c].held.at <= clock.event
    BY CallIsTyped
  <2>8. GoodMove(c, g)
    BY <1>0, <2>2, <2>3, <2>4, <2>5, <2>6, <2>7 DEF GoodMove
  <2> QED BY <2>5, <2>8 DEF SomeGoodMove
<1> QED BY <1>1, <1>2, <1>3 DEF Begin

\* Recovery becomes a reader.
LEMMA RecoverMoves ==
    ASSUME NativeInv, NEW c \in Callers, Recover(c)
    PROVE  SomeGoodMove(c)
<1> DEFINE g == [call[c] EXCEPT !.pc = "reader", !.stop = activeStop]
<1>1. call[c] \in Calls /\ call \in [Callers -> Calls] /\ activeStop \in Stops
  BY DEF NativeInv, CallsInv, RowsInv
<1>2. call' = [call EXCEPT ![c] = g]
  BY <1>1, Zenon DEF Recover
<1>3. "reader" \in Pcs
  BY DEF Pcs
<1>4. /\ g \in Calls /\ g.pc = "reader" /\ g.posts = call[c].posts /\ g.held = call[c].held
      /\ g.holding = call[c].holding /\ g.report = call[c].report
  BY <1>1, <1>3, Zenon DEF Calls
<1> HIDE DEF g
<1>5. ~call[c].holding /\ registered' = registered
  BY NotedVerdicts DEF Recover, NativeInv, CallsInv
<1> QED BY <1>2, <1>4, <1>5, ReadingMove

\* A placement takes a fresh id for the legs it places.
LEMMA PlacedIsTyped ==
    ASSUME MarketInv, NEW which \in SUBSET Sides, NEW stop \in Stops
    PROVE  /\ Placed(which, stop) \in Markets
           /\ Placed(which, stop).qty = market.qty
           /\ Placed(which, stop).lastId = market.lastId + 1
           /\ \A s \in Sides: Placed(which, stop).plan[s] <= market.lastId + 1
           /\ \A s \in Placed(which, stop).shown: Placed(which, stop).plan[s] # 0
           /\ Placed(which, stop).epoch = market.epoch
<1> DEFINE plan == [s \in Sides |-> IF s \in which THEN market.lastId + 1 ELSE market.plan[s]]
           shown == market.shown \ which
           kept == IF "SL" \in which THEN stop ELSE market.stop
           id == market.lastId + 1
           m == [market EXCEPT !.plan = plan, !.shown = shown, !.stop = kept, !.lastId = id]
<1>1. Placed(which, stop) = m
  BY Zenon DEF Placed
<1>2. /\ market \in Markets /\ market.plan \in [Sides -> Nat] /\ market.shown \in SUBSET Sides
      /\ market.lastId \in Nat /\ market.stop \in Stops
  BY DEF MarketInv, Markets
<1>3. /\ plan \in [Sides -> Nat] /\ shown \in SUBSET Sides /\ kept \in Stops /\ id \in Nat
  BY <1>2
<1>4. (\A s \in Sides: plan[s] <= id) /\ (\A s \in shown: plan[s] # 0)
  BY <1>2 DEF MarketInv
<1> HIDE DEF plan, shown, kept, id
<1>5. m \in Markets /\ m.qty = market.qty /\ m.lastId = id /\ m.plan = plan /\ m.shown = shown
      /\ m.epoch = market.epoch
  BY <1>2, <1>3, Zenon DEF Markets
<1> HIDE DEF m
<1> QED BY <1>1, <1>4, <1>5 DEF id

\* Post is one more attempt of the holder, and an acknowledged one names what rests.
LEMMA PostMoves ==
    ASSUME NativeInv, NEW c \in Callers, Post(c)
    PROVE  SomeGoodMove(c)
<1>0. /\ call[c].pc = "post" /\ UNCHANGED <<legs, registered, clock, emergency>>
      /\ call[c] \in Calls /\ call \in [Callers -> Calls]
  BY DEF Post, NativeInv, CallsInv
<1>1. PICK effect \in {"placed", "nothing"},
           answer \in {"ids", "partial", "lost", "param", "unsupported"} :
        /\ effect = "nothing" => answer \in {"lost", "param", "unsupported"}
        /\ market' = IF effect = "placed" THEN Placed(Sides, call[c].stop) ELSE market
        /\ call' = [call EXCEPT
              ![c].posts = @ + 1,
              ![c].want = IF answer = "ids" THEN market'.plan ELSE NoId,
              ![c].pc = CASE answer = "ids" -> "ack"
                          [] answer = "partial" -> "grace"
                          [] answer = "lost" -> IF MayRetry(c) THEN "post" ELSE "grace"
                          [] answer = "param" -> "rejected"
                          [] answer = "unsupported" -> "unsupported"]
  BY Zenon DEF Post
<1> DEFINE posts == call[c].posts + 1
           want == IF answer = "ids" THEN market'.plan ELSE NoId
           pc == CASE answer = "ids" -> "ack"
                   [] answer = "partial" -> "grace"
                   [] answer = "lost" -> IF MayRetry(c) THEN "post" ELSE "grace"
                   [] answer = "param" -> "rejected"
                   [] answer = "unsupported" -> "unsupported"
           g == [call[c] EXCEPT !.posts = posts, !.want = want, !.pc = pc]
<1>2. call' = [call EXCEPT ![c] = g]
  BY <1>0, <1>1, Zenon
<1>3. /\ market'.plan \in [Sides -> Nat]
      /\ answer = "ids" => \A s \in Sides: market'.plan[s] <= market'.lastId
  <2>1. CASE effect = "placed"
    <3>1. Sides \in SUBSET Sides /\ call[c].stop \in Stops /\ MarketInv
      BY CallIsTyped DEF NativeInv
    <3>2. market' = Placed(Sides, call[c].stop)
      BY <1>1, <2>1
    <3>3. /\ market' \in Markets /\ market'.lastId = market.lastId + 1
          /\ \A s \in Sides: market'.plan[s] <= market.lastId + 1
      BY <3>1, <3>2, PlacedIsTyped, Zenon
    <3> QED BY <3>3 DEF Markets
  <2>2. CASE effect = "nothing"
    BY <1>1, <2>2 DEF NativeInv, MarketInv, Markets
  <2> QED BY <2>1, <2>2
<1>4. want \in [Sides -> Nat] /\ posts \in Nat
  BY <1>3, NothingIsTyped, CallIsTyped
<1>5. /\ pc \in Pcs /\ pc \notin {"begin", "contain", "close"}
      /\ pc = "post" => posts < MaxPosts
      /\ pc = "ack" => answer = "ids"
  <2>1. {"ack", "grace", "post", "rejected", "unsupported"} \subseteq Pcs
    BY NotedVerdicts DEF Pcs
  <2>2. pc \in {"ack", "grace", "post", "rejected", "unsupported"}
    OBVIOUS
  <2>3. pc = "post" => MayRetry(c)
    OBVIOUS
  <2>4. pc = "ack" => answer = "ids"
    OBVIOUS
  <2> QED BY <2>1, <2>2, <2>3, <2>4 DEF MayRetry
<1>6. pc = "ack" => \A s \in Sides: want[s] <= market'.lastId
  BY <1>3, <1>5
<1> HIDE DEF posts, want, pc
<1>7. /\ g \in Calls /\ g.pc = pc /\ g.posts = posts /\ g.want = want /\ g.held = call[c].held
      /\ g.holding = call[c].holding /\ g.report = call[c].report
  BY <1>0, <1>4, <1>5, Zenon DEF Calls
<1> HIDE DEF g
<1>8. /\ ~call[c].holding /\ (call[c].report = "managed" => registered = 1)
      /\ legs.claimed /\ call[c].held.at <= clock.event
  BY <1>0, NotedVerdicts, CallIsTyped DEF NativeInv, CallsInv, HoldersInv, Posting
<1>9. posts = call[c].posts + 1
  BY DEF posts
<1>10. GoodMove(c, g)
  BY <1>0, <1>2, <1>5, <1>6, <1>7, <1>8, <1>9 DEF GoodMove
<1> QED BY <1>7, <1>10 DEF SomeGoodMove

\* StoreIds: the ids become durable, the call stays or goes on to confirm.
LEMMA StoreIdsMoves ==
    ASSUME NativeInv, NEW c \in Callers, StoreIds(c)
    PROVE  SomeGoodMove(c)
<1>0. /\ call[c].pc = "ack" /\ UNCHANGED <<market, registered>>
      /\ call[c] \in Calls /\ call \in [Callers -> Calls] /\ call[c].held.at <= clock.event
  BY CallIsTyped DEF StoreIds, NativeInv, CallsInv
<1>1. ~call[c].holding /\ (call[c].report = "managed" => registered = 1)
  BY <1>0, NotedVerdicts DEF NativeInv, CallsInv
<1>2. CASE call' = [call EXCEPT ![c].pc = "confirm"]
  <2> DEFINE g == [call[c] EXCEPT !.pc = "confirm"]
  <2>1. call' = [call EXCEPT ![c] = g]
    BY <1>0, <1>2, Zenon
  <2>2. "confirm" \in Pcs
    BY DEF Pcs
  <2>3. /\ g \in Calls /\ g.pc = "confirm" /\ g.posts = call[c].posts /\ g.held = call[c].held
        /\ g.holding = call[c].holding /\ g.report = call[c].report
    BY <1>0, <2>2, Zenon DEF Calls
  <2> HIDE DEF g
  <2> QED BY <1>0, <1>1, <2>1, <2>3, ReadingMove
<1>3. CASE call' = call
  <2>1. call' = [call EXCEPT ![c] = call[c]]
    BY <1>0, <1>3
  <2>2. \A s \in Sides: call[c].want[s] <= market'.lastId
    BY <1>0 DEF NativeInv, CallsInv
  <2>3. GoodMove(c, call[c])
    BY <1>0, <1>1, <2>1, <2>2 DEF GoodMove
  <2> QED BY <1>0, <2>3 DEF SomeGoodMove
<1> QED BY <1>2, <1>3 DEF StoreIds

\* ConfirmPosition: a read of the position, and what it leads to.
LEMMA ConfirmPositionMoves ==
    ASSUME NativeInv, NEW c \in Callers, ConfirmPosition(c)
    PROVE  SomeGoodMove(c)
<1>0. /\ call[c].pc \in {"reader", "confirm", "grace"} /\ UNCHANGED registered
      /\ call[c] \in Calls /\ call \in [Callers -> Calls]
  BY DEF ConfirmPosition, NativeInv, CallsInv
<1>1. /\ ~call[c].holding /\ call[c].report \in Reports /\ call[c].rounds \in Nat
      /\ call[c].report = "managed" => registered' = 1
  BY <1>0, NotedVerdicts, CallIsTyped DEF NativeInv, CallsInv
<1> DEFINE pc == call[c].pc
           want == CASE pc = "grace" -> legs.id [] pc = "confirm" -> call[c].want [] OTHER -> NoId
           plans == [reader |-> "rplans", confirm |-> "cplans", grace |-> "gplans"]
           rounds == IF pc = "grace" THEN call[c].rounds + 1 ELSE call[c].rounds
           read == [call[c] EXCEPT !.rounds = rounds]
<1>2. PICK seen \in PositionRows, flat \in BOOLEAN :
        call' = CASE flat -> CallAt(c, "failed")
                  [] RowVerdict(seen, Filled, want) = "open" ->
                       [call EXCEPT ![c] = [read EXCEPT !.pc = plans[pc], !.seen = seen,
                                                        !.want = want]]
                  [] RowVerdict(seen, Filled, want) # "open" /\ pc = "reader" ->
                       Verdict(c, RowVerdict(seen, Filled, want))
                  [] OTHER -> [call EXCEPT ![c] = [read EXCEPT !.pc = "grace",
                                    !.report = RowVerdict(seen, Filled, want), !.want = NoId]]
  BY Zenon DEF ConfirmPosition
<1>3. PICK row \in {"not-open", "degraded", "open"} : row = RowVerdict(seen, Filled, want)
  BY VerdictsAreReports
<1>4. /\ want \in [Sides -> Nat] /\ seen \in Reads /\ rounds \in Nat
  BY <1>1, NothingIsTyped, CallIsTyped, PositionRowsAreReads DEF NativeInv, RowsInv
<1>5. plans[pc] \in {"rplans", "cplans", "gplans"}
  BY <1>0
<1>6. {"rplans", "cplans", "gplans", "grace", "done", "failed"} \subseteq Pcs
  BY NotedVerdicts DEF Pcs
<1> HIDE DEF want, rounds
<1>7. read \in Calls /\ read.posts = call[c].posts /\ read.held = call[c].held
      /\ read.holding = call[c].holding /\ read.report = call[c].report
  BY <1>0, <1>4, Zenon DEF Calls
<1> HIDE DEF read
<1>8. CASE call' = CallAt(c, "failed")
  <2>1. call' = [call EXCEPT ![c] = At("failed", call[c].posts, call[c].report)]
    BY <1>8, Zenon DEF CallAt
  <2> QED BY <1>1, <1>6, <2>1, LeanMove
<1>9. CASE call' = [call EXCEPT ![c] = [read EXCEPT !.pc = plans[pc], !.seen = seen,
                                                    !.want = want]]
  <2> DEFINE next == plans[pc]
             g == [read EXCEPT !.pc = next, !.seen = seen, !.want = want]
  <2>1. next \in Pcs /\ next \in {"rplans", "cplans", "gplans"}
    BY <1>5, <1>6
  <2> HIDE DEF next
  <2>2. call' = [call EXCEPT ![c] = g]
    BY <1>9, Zenon DEF next
  <2>3. /\ g \in Calls /\ g.pc = next /\ g.posts = call[c].posts /\ g.held = call[c].held
        /\ g.holding = call[c].holding /\ g.report = call[c].report
    BY <1>4, <1>7, <2>1, Zenon DEF Calls
  <2> HIDE DEF g
  <2> QED BY <1>0, <1>1, <2>1, <2>2, <2>3, ReadingMove
<1>10. CASE call' = Verdict(c, row) /\ row # "open"
  <2>1. call' = [call EXCEPT ![c] = At("done", call[c].posts, row)]
    BY <1>10, Zenon DEF Verdict
  <2>2. row \in Reports /\ row \notin {"managed", "venue"}
    BY DEF Reports
  <2> QED BY <1>6, <2>1, <2>2, LeanMove
<1>11. CASE call' = [call EXCEPT ![c] = [read EXCEPT !.pc = "grace", !.report = row,
                                                     !.want = NoId]]
  <2> DEFINE g == [read EXCEPT !.pc = "grace", !.report = row, !.want = NoId]
  <2>1. row \in Reports /\ row \notin {"managed", "venue"}
    BY DEF Reports
  <2>2. /\ g \in Calls /\ g.pc = "grace" /\ g.posts = call[c].posts /\ g.held = call[c].held
        /\ g.holding = call[c].holding /\ g.report = row
    BY <1>6, <1>7, <2>1, NothingIsTyped, Zenon DEF Calls
  <2>3. call' = [call EXCEPT ![c] = g]
    BY <1>11
  <2> HIDE DEF g
  <2> QED BY <1>0, <1>1, <2>1, <2>2, <2>3, ReadingMove
<1> QED BY <1>2, <1>3, <1>8, <1>9, <1>10, <1>11

\* ReadFails: a failed read is a failed report.
LEMMA ReadFailsMoves ==
    ASSUME NativeInv, NEW c \in Callers, ReadFails(c)
    PROVE  SomeGoodMove(c)
<1>0. /\ call[c].pc \in {"reader", "confirm", "grace", "rplans", "cplans", "gplans"}
      /\ UNCHANGED registered
      /\ call[c] \in Calls /\ call \in [Callers -> Calls] /\ call[c].rounds \in Nat
  BY CallIsTyped DEF ReadFails, NativeInv, CallsInv
<1>1. ~call[c].holding /\ "done" \in Pcs /\ "grace" \in Pcs /\ "failed" \in Reports
  BY <1>0, NotedVerdicts DEF NativeInv, CallsInv, Pcs, Reports
<1>2. CASE call' = Verdict(c, "failed")
  <2>1. call' = [call EXCEPT ![c] = At("done", call[c].posts, "failed")]
    BY <1>2, Zenon DEF Verdict
  <2> QED BY <1>1, <2>1, LeanMove
<1> DEFINE rounds == IF call[c].pc = "grace" THEN call[c].rounds + 1 ELSE call[c].rounds
           g == [call[c] EXCEPT !.pc = "grace", !.report = "failed", !.seen = Unseen,
                                !.want = NoId, !.rounds = rounds]
<1>3. CASE call' = [call EXCEPT ![c] = g]
  <2>1. rounds \in Nat
    BY <1>0
  <2> HIDE DEF rounds
  <2>2. /\ g \in Calls /\ g.pc = "grace" /\ g.posts = call[c].posts /\ g.held = call[c].held
        /\ g.holding = call[c].holding /\ g.report = "failed"
    BY <1>0, <1>1, <2>1, NothingIsTyped, Zenon DEF Calls
  <2> HIDE DEF g
  <2> QED BY <1>0, <1>1, <1>3, <2>2, ReadingMove
<1>4. call' = Verdict(c, "failed") \/ call' = [call EXCEPT ![c] = g]
  <2> DEFINE kept == [call EXCEPT ![c] = [call[c] EXCEPT
                        !.pc = "grace", !.report = "failed", !.seen = Unseen, !.want = NoId,
                        !.rounds = IF call[c].pc = "grace" THEN @ + 1 ELSE @]]
  <2>1. kept = [call EXCEPT ![c] = g]
    BY Zenon
  <2>2. call' = IF call[c].pc \in {"reader", "rplans"} THEN Verdict(c, "failed") ELSE kept
    BY Zenon DEF ReadFails
  <2> QED BY <2>1, <2>2
<1> QED BY <1>2, <1>3, <1>4

\* ConfirmPlans: a report says "venue" only while the plans rest.
LEMMA ConfirmPlansMoves ==
    ASSUME NativeInv, NEW c \in Callers, ConfirmPlans(c)
    PROVE  SomeGoodMove(c)
<1>0. /\ call[c].pc \in {"rplans", "cplans", "gplans"} /\ UNCHANGED registered
      /\ call[c] \in Calls /\ call \in [Callers -> Calls]
  BY DEF ConfirmPlans, NativeInv, CallsInv
<1>1. ~call[c].holding /\ {"done", "grace", "verified"} \subseteq Pcs
  BY <1>0, NotedVerdicts DEF NativeInv, CallsInv, Pcs
<1>2. PICK report \in {"venue", "degraded"} :
        /\ report = PlanVerdict(call[c].seen, call[c].want, call[c].stop)
        /\ call' = IF call[c].pc = "rplans" THEN Verdict(c, report)
                   ELSE IF report = "venue"
                   THEN [call EXCEPT ![c] = At("verified", @.posts, report)]
                   ELSE [call EXCEPT ![c].report = report, ![c].pc = "grace", ![c].seen = Unseen,
                                      ![c].want = NoId]
  <2>1. PlanVerdict(call[c].seen, call[c].want, call[c].stop) \in {"venue", "degraded"}
    BY VerdictsAreReports
  <2> QED BY <2>1, Zenon DEF ConfirmPlans
<1>3. report = "venue" => Rests(call[c].stop)
  BY <1>2, ConfirmedPlansRest DEF NativeInv, Rests
<1>4. report \in Reports /\ report # "managed"
  BY DEF Reports
<1>5. CASE call' = Verdict(c, report)
  <2>1. call' = [call EXCEPT ![c] = At("done", call[c].posts, report)]
    BY <1>5, Zenon DEF Verdict
  <2> QED BY <1>1, <1>3, <1>4, <2>1, LeanMove
<1>6. CASE call' = [call EXCEPT ![c] = At("verified", @.posts, report)]
  <2>1. call' = [call EXCEPT ![c] = At("verified", call[c].posts, report)]
    BY <1>6, Zenon
  <2> QED BY <1>1, <1>3, <1>4, <2>1, LeanMove
<1>7. CASE /\ report # "venue"
           /\ call' = [call EXCEPT ![c].report = report, ![c].pc = "grace", ![c].seen = Unseen,
                                   ![c].want = NoId]
  <2> DEFINE g == [call[c] EXCEPT !.report = report, !.pc = "grace", !.seen = Unseen,
                                  !.want = NoId]
  <2>1. call' = [call EXCEPT ![c] = g]
    BY <1>0, <1>7, Zenon
  <2>2. /\ g \in Calls /\ g.pc = "grace" /\ g.posts = call[c].posts /\ g.held = call[c].held
        /\ g.holding = call[c].holding /\ g.report = report
    BY <1>0, <1>1, <1>4, NothingIsTyped, Zenon DEF Calls
  <2> HIDE DEF g
  <2> QED BY <1>0, <1>1, <1>4, <1>7, <2>1, <2>2, ReadingMove
<1> QED BY <1>2, <1>5, <1>6, <1>7

\* CapabilityRead keeps a copy of the row.
LEMMA CapabilityReadMoves ==
    ASSUME NativeInv, NEW c \in Callers, CapabilityRead(c)
    PROVE  SomeGoodMove(c)
<1> DEFINE g == [call[c] EXCEPT !.held = capability, !.holding = TRUE]
<1>0. /\ call[c].pc \in DOMAIN Noted /\ UNCHANGED registered
      /\ call[c] \in Calls /\ call \in [Callers -> Calls]
      /\ capability \in Capabilities /\ capability.at <= clock.event
  BY DEF CapabilityRead, NativeInv, CallsInv, StreamInv
<1>1. call' = [call EXCEPT ![c] = g]
  BY <1>0, Zenon DEF CapabilityRead
<1>2. /\ g \in Calls /\ g.pc = call[c].pc /\ g.posts = call[c].posts /\ g.held = capability
      /\ g.report = call[c].report
  BY <1>0, Zenon DEF Calls
<1> HIDE DEF g
<1>3. call[c].report = "managed" => registered = 1
  BY DEF NativeInv, CallsInv
<1>4. GoodMove(c, g)
  BY <1>0, <1>1, <1>2, <1>3, NotedVerdicts DEF GoodMove
<1> QED BY <1>2, <1>4 DEF SomeGoodMove

\* CapabilityWrite writes it back with what the verdict decides.
LEMMA CapabilityWriteMoves ==
    ASSUME NativeInv, NEW c \in Callers, CapabilityWrite(c)
    PROVE  SomeGoodMove(c)
<1>0. /\ call[c].pc \in DOMAIN Noted /\ UNCHANGED registered /\ call[c].report \in Reports
      /\ call[c].report = "managed" => registered' = 1
  BY CallIsTyped DEF CapabilityWrite, NativeInv, CallsInv
<1>1. PICK next \in {"manage", "lane", "laneoff", "done"} :
        call' = IF next = "done" /\ call[c].pc # "verified" THEN Verdict(c, "open")
                ELSE CallAt(c, next)
  BY DEF CapabilityWrite
<1>2. {"manage", "lane", "laneoff", "done"} \subseteq Pcs /\ "open" \in Reports
  BY NotedVerdicts DEF Pcs, Reports
<1>3. CASE call' = Verdict(c, "open")
  <2>1. call' = [call EXCEPT ![c] = At("done", call[c].posts, "open")]
    BY <1>3, Zenon DEF Verdict
  <2> QED BY <1>2, <2>1, LeanMove
<1>4. CASE call' = CallAt(c, next)
  <2>1. call' = [call EXCEPT ![c] = At(next, call[c].posts, call[c].report)]
    BY <1>4, Zenon DEF CallAt
  <2> QED BY <1>0, <1>2, <2>1, LeanMove
<1> QED BY <1>1, <1>3, <1>4

\* Manage chooses between containment, the local lane and nothing.
LEMMA ManageMoves ==
    ASSUME NativeInv, NEW c \in Callers, Manage(c)
    PROVE  SomeGoodMove(c)
<1>1. PICK next \in {"done", "contain", "unmanaged", "local"} :
        call' = CallAt(c, next) /\ (next = "contain" => Containment)
  BY DEF Manage
<1>2. /\ {"done", "contain", "unmanaged", "local"} \subseteq Pcs
      /\ call[c].report \in Reports /\ (call[c].report = "managed" => registered' = 1)
  BY NotedVerdicts, CallIsTyped DEF Pcs, Manage, NativeInv, CallsInv
<1>3. call' = [call EXCEPT ![c] = At(next, call[c].posts, call[c].report)]
  BY <1>1, Zenon DEF CallAt
<1> QED BY <1>1, <1>2, <1>3, LeanMove

\* A registration that cannot be proven.
LEMMA UnprovenMoves ==
    ASSUME NativeInv, NEW c \in Callers, call' = Unproven(c),
           call[c].report = "managed" => registered' = 1
    PROVE  SomeGoodMove(c)
<1>1. {"done", "unmanaged"} \subseteq Pcs /\ "open" \in Reports /\ call[c].report \in Reports
  BY NotedVerdicts, CallIsTyped DEF Pcs, Reports
<1>2. CASE call' = CallAt(c, "unmanaged")
  <2>1. call' = [call EXCEPT ![c] = At("unmanaged", call[c].posts, call[c].report)]
    BY <1>2, Zenon DEF CallAt
  <2> QED BY <1>1, <2>1, LeanMove
<1>3. CASE call' = Verdict(c, "open")
  <2>1. call' = [call EXCEPT ![c] = At("done", call[c].posts, "open")]
    BY <1>3, Zenon DEF Verdict
  <2> QED BY <1>1, <2>1, LeanMove
<1> QED BY <1>2, <1>3 DEF Unproven

\* IdentifyPosition notes the position the fills must be of.
LEMMA IdentifyMoves ==
    ASSUME NativeInv, NEW c \in Callers, IdentifyPosition(c)
    PROVE  SomeGoodMove(c)
<1>0. /\ call[c].pc \in {"local", "lane"} /\ registered' = registered
      /\ call[c] \in Calls /\ call \in [Callers -> Calls]
      /\ call[c].report = "managed" => registered = 1
  BY DEF IdentifyPosition, NativeInv, CallsInv
<1>1. CASE call' = Unproven(c)
  BY <1>0, <1>1, UnprovenMoves
<1> DEFINE next == IF call[c].pc = "local" THEN "localfills" ELSE "lanefills"
           seen == [qty |-> market.epoch, ids |-> NoId]
           g == [call[c] EXCEPT !.pc = next, !.seen = seen]
<1>2. CASE call' = [call EXCEPT ![c] = g]
  <2>1. next \in Pcs /\ next \in {"localfills", "lanefills"} /\ ~call[c].holding
    BY <1>0, NotedVerdicts DEF Pcs, NativeInv, CallsInv
  <2>2. seen \in Reads
    BY NothingIsTyped DEF Reads, NativeInv, MarketInv, Markets
  <2> HIDE DEF next, seen
  <2>3. /\ g \in Calls /\ g.pc = next /\ g.posts = call[c].posts /\ g.held = call[c].held
        /\ g.holding = call[c].holding /\ g.report = call[c].report
    BY <1>0, <2>1, <2>2, Zenon DEF Calls
  <2> HIDE DEF g
  <2> QED BY <1>0, <1>2, <2>1, <2>3, ReadingMove
<1>3. call' = Unproven(c) \/ call' = [call EXCEPT ![c] = g]
  BY <1>0, Zenon DEF IdentifyPosition
<1> QED BY <1>1, <1>2, <1>3

\* Register hands over the position of the first epoch only.
LEMMA RegisterMoves ==
    ASSUME NativeInv, NEW c \in Callers, Register(c)
    PROVE  SomeGoodMove(c) /\ registered' \in {registered, 1}
<1>0. call[c].report = "managed" => registered = 1
  BY DEF NativeInv, CallsInv
<1>1. CASE call' = Unproven(c) /\ UNCHANGED registered
  BY <1>0, <1>1, UnprovenMoves
<1>2. CASE /\ FillsProve(c)
           /\ registered' = IF registered = 0 THEN call[c].seen.qty ELSE registered
           /\ call' = Verdict(c, IF call[c].pc = "localfills" THEN "managed" ELSE "open")
  <2>1. registered' = 1 /\ registered' \in {registered, 1}
    BY <1>2 DEF FillsProve, NativeInv, RowsInv
  <2>2. PICK v \in {"managed", "open"} : call' = Verdict(c, v)
    BY <1>2
  <2>3. call' = [call EXCEPT ![c] = At("done", call[c].posts, v)]
    BY <2>2, Zenon DEF Verdict
  <2>4. "done" \in Pcs /\ v \in Reports
    BY DEF Pcs, Reports
  <2> QED BY <2>1, <2>3, <2>4, LeanMove
<1> QED BY <1>1, <1>2 DEF Register

\* Contain claims the one emergency close.
LEMMA ContainMoves ==
    ASSUME NativeInv, NEW c \in Callers, Contain(c)
    PROVE  SomeGoodMove(c)
<1>0. /\ Containment /\ {"done", "close"} \subseteq Pcs
      /\ call[c].report \in Reports /\ (call[c].report = "managed" => registered' = 1)
  BY CallIsTyped DEF Contain, NativeInv, CallsInv, Pcs
<1>1. PICK next \in {"done", "close"} :
        /\ call' = CallAt(c, next)
        /\ next = "close" => /\ ~emergency.claimed
                             /\ emergency' = [emergency EXCEPT !.claimed = TRUE]
  BY DEF Contain
<1>2. call' = [call EXCEPT ![c] = At(next, call[c].posts, call[c].report)]
  BY <1>1, Zenon DEF CallAt
<1>3. next = "close" => ~emergency.claimed /\ emergency'.claimed
  BY <1>1 DEF NativeInv, RowsInv
<1> QED BY <1>0, <1>1, <1>2, <1>3, LeanMove

\* The other ways a call is over with what it was doing.
LEMMA PlainMoves ==
    ASSUME NativeInv, NEW c \in Callers, GraceEnds(c) \/ EmergencyClose(c) \/ Die(c)
    PROVE  SomeGoodMove(c)
<1>0. /\ {"done", "failed"} \subseteq Pcs /\ "none" \in Reports
      /\ call[c].report \in Reports /\ (call[c].report = "managed" => registered' = 1)
  BY NotedVerdicts, CallIsTyped
     DEF GraceEnds, EmergencyClose, Die, NativeInv, CallsInv, Pcs, Reports
<1>1. CASE call' = CallAt(c, "failed")
  <2>1. call' = [call EXCEPT ![c] = At("failed", call[c].posts, call[c].report)]
    BY <1>1, Zenon DEF CallAt
  <2> QED BY <1>0, <2>1, LeanMove
<1>2. CASE call' = CallAt(c, "done")
  <2>1. call' = [call EXCEPT ![c] = At("done", call[c].posts, call[c].report)]
    BY <1>2, Zenon DEF CallAt
  <2> QED BY <1>0, <2>1, LeanMove
<1>3. CASE call' = Verdict(c, "none")
  <2>1. call' = [call EXCEPT ![c] = At("done", call[c].posts, "none")]
    BY <1>3, Zenon DEF Verdict
  <2> QED BY <1>0, <2>1, LeanMove
<1> QED BY <1>1, <1>2, <1>3 DEF GraceEnds, EmergencyClose, Die

\* Every step of a call is a good move.
LEMMA CallsMoveWell ==
    ASSUME NativeInv, NEW c \in Callers, CallStep(c) \/ Die(c)
    PROVE  SomeGoodMove(c)
BY BeginMoves, RecoverMoves, PostMoves, StoreIdsMoves, ConfirmPositionMoves, ReadFailsMoves,
   ConfirmPlansMoves, CapabilityReadMoves, CapabilityWriteMoves, ManageMoves, IdentifyMoves,
   RegisterMoves, ContainMoves, PlainMoves DEF CallStep

----------------------------------------------------------------------------
(* The invariant, part by part.                                            *)

\* The record of the venue when the position is flat, smaller or opened again.
LEMMA VenueRecords ==
    ASSUME MarketInv
    PROVE  /\ FlatMarket \in Markets /\ FlatMarket.qty = 0 /\ FlatMarket.plan = NoId
           /\ FlatMarket.shown = {} /\ FlatMarket.lastId = market.lastId
           /\ \A q \in Nat: LET m == [market EXCEPT !.qty = q]
                            IN  /\ m \in Markets /\ m.qty = q /\ m.plan = market.plan
                                /\ m.shown = market.shown /\ m.lastId = market.lastId
<1>1. market \in Markets /\ 0 \in Nat /\ {} \in SUBSET Sides
  BY DEF MarketInv
<1>2. /\ FlatMarket \in Markets /\ FlatMarket.qty = 0 /\ FlatMarket.plan = NoId
      /\ FlatMarket.shown = {} /\ FlatMarket.lastId = market.lastId
  BY <1>1, NothingIsTyped, Zenon DEF FlatMarket, Markets
<1>3. ASSUME NEW q \in Nat
      PROVE  LET m == [market EXCEPT !.qty = q]
             IN  /\ m \in Markets /\ m.qty = q /\ m.plan = market.plan
                 /\ m.shown = market.shown /\ m.lastId = market.lastId
  BY <1>1, Zenon DEF Markets
<1> QED BY <1>2, <1>3

\* A flat venue has no plans.
LEMMA FlatFits ==
    ASSUME MarketInv, setup' = setup, market' = FlatMarket
    PROVE  MarketInv' /\ market'.lastId = market.lastId
<1>1. /\ market' \in Markets /\ market'.qty = 0 /\ market'.plan = NoId /\ market'.shown = {}
      /\ market'.lastId = market.lastId
  BY VenueRecords
<1>2. 0 <= Filled /\ market.lastId \in Nat /\ Filled' = Filled /\ setup' \in Setups
  BY SetupIsTyped DEF MarketInv, Markets, Filled
<1> QED BY <1>1, <1>2, NothingIsTyped DEF MarketInv

\* Nothing happened to the market.
LEMMA SameMarketFits ==
    ASSUME MarketInv, setup' = setup, market' = market
    PROVE  MarketInv' /\ market'.lastId = market.lastId
BY DEF MarketInv, Filled

\* Nor is anything lost when plans are placed on an open position.
LEMMA PlacedFits ==
    ASSUME MarketInv, setup' = setup, market.qty > 0,
           NEW which \in SUBSET Sides, NEW stop \in Stops, market' = Placed(which, stop)
    PROVE  MarketInv' /\ market'.lastId = market.lastId + 1
<1>1. /\ market' \in Markets /\ market'.qty = market.qty
      /\ market'.lastId = market.lastId + 1
      /\ \A s \in Sides: market'.plan[s] <= market.lastId + 1
      /\ \A s \in market'.shown: market'.plan[s] # 0
  BY PlacedIsTyped, Zenon
<1>2. market.qty <= Filled /\ setup' \in Setups /\ Filled' = Filled
  BY DEF MarketInv, Filled
<1> QED BY <1>1, <1>2 DEF MarketInv

\* Every step keeps the venue's part, and ids are issued in order.
LEMMA MarketStep ==
    ASSUME NativeInv, NativeNext
    PROVE  MarketInv' /\ market'.lastId \in Nat /\ market'.lastId >= market.lastId
<1>0. /\ setup' = setup /\ MarketInv /\ market \in Markets /\ market.lastId \in Nat
      /\ market.qty \in Nat /\ Filled \in Nat /\ market.plan \in [Sides -> Nat]
      /\ market.shown \in SUBSET Sides
  BY SetupIsTyped DEF NativeNext, NativeInv, MarketInv, Markets
<1> SUFFICES MarketInv' /\ market'.lastId \in {market.lastId, market.lastId + 1}
  BY <1>0
<1>1. CASE ShowPlan
  <2>1. PICK s \in Sides :
          /\ market.plan[s] # 0
          /\ market' = [market EXCEPT !.shown = @ \cup {s}]
    BY <1>1 DEF ShowPlan
  <2> DEFINE shown == market.shown \cup {s}
  <2>2. shown \in SUBSET Sides
    BY <1>0
  <2>3. \A t \in shown: market.plan[t] # 0
    BY <1>0, <2>1 DEF MarketInv
  <2>4. market' = [market EXCEPT !.shown = shown]
    BY <2>1
  <2> HIDE DEF shown
  <2>5. /\ market' \in Markets /\ market'.qty = market.qty /\ market'.plan = market.plan
        /\ market'.shown = shown /\ market'.lastId = market.lastId
    BY <1>0, <2>2, <2>4, Zenon DEF Markets
  <2> QED BY <1>0, <2>3, <2>5 DEF MarketInv, Filled
<1>2. CASE PositionEnds
  <2>1. CASE market' = FlatMarket
    BY <1>0, <2>1, FlatFits
  <2>2. CASE market' = [market EXCEPT !.qty = @ - 1] /\ market.qty > 0 /\ market.qty # 1
    <3>1. market' = [market EXCEPT !.qty = market.qty - 1] /\ market.qty - 1 \in Nat
      BY <1>0, <2>2
    <3>2. /\ market' \in Markets /\ market'.qty = market.qty - 1
          /\ market'.plan = market.plan /\ market'.shown = market.shown
          /\ market'.lastId = market.lastId
      BY <1>0, <3>1, VenueRecords, Zenon
    <3> QED BY <1>0, <2>2, <3>2 DEF MarketInv, Filled
  <2> QED BY <1>2, <2>1, <2>2 DEF PositionEnds
<1>3. CASE AnotherOpens
  <2> DEFINE m == [market EXCEPT !.qty = Filled, !.epoch = 2]
  <2>1. /\ m \in Markets /\ m.qty = Filled /\ m.plan = market.plan /\ m.shown = market.shown
        /\ m.lastId = market.lastId
    BY <1>0, Zenon DEF Markets
  <2>2. market' = m /\ market.qty = 0
    BY <1>3 DEF AnotherOpens
  <2> HIDE DEF m
  <2>3. \A s \in Sides: market.plan[s] = 0
    BY <1>0, <2>2 DEF MarketInv
  <2>4. Filled' = Filled /\ setup' \in Setups
    BY <1>0 DEF Filled, MarketInv
  <2> QED BY <1>0, <2>1, <2>2, <2>3, <2>4 DEF MarketInv
<1>4. ASSUME NEW c \in Callers, Post(c)
      PROVE  MarketInv' /\ market'.lastId \in {market.lastId, market.lastId + 1}
  <2>1. \/ market' = market
        \/ market.qty > 0 /\ market' = Placed(Sides, call[c].stop)
    BY <1>4 DEF Post
  <2>2. Sides \in SUBSET Sides /\ call[c].stop \in Stops
    BY CallIsTyped
  <2> QED BY <1>0, <2>1, <2>2, PlacedFits, SameMarketFits
<1>5. ASSUME NEW c \in Callers, EmergencyClose(c)
      PROVE  MarketInv' /\ market'.lastId \in {market.lastId, market.lastId + 1}
  BY <1>0, <1>5, FlatFits, SameMarketFits DEF EmergencyClose
<1>6. CASE RepairMutate
  <2>1. \/ market' = market
        \/ market.qty > 0 /\ market' = Placed(repair.missing, repair.stop)
        \/ market' = [market EXCEPT !.stop = "moved"]
    BY <1>6 DEF RepairMutate
  <2>2. repair.missing \in SUBSET Sides /\ repair.stop \in Stops /\ "moved" \in Stops
    BY DEF NativeInv, RowsInv, Repairs, Stops
  <2>3. ASSUME market' = [market EXCEPT !.stop = "moved"]
        PROVE  MarketInv' /\ market'.lastId = market.lastId
    <3>1. /\ market' \in Markets /\ market'.qty = market.qty /\ market'.plan = market.plan
          /\ market'.shown = market.shown /\ market'.lastId = market.lastId
      BY <1>0, <2>2, <2>3, Zenon DEF Markets
    <3> QED BY <1>0, <3>1 DEF MarketInv, Filled
  <2> QED BY <1>0, <2>1, <2>2, <2>3, PlacedFits, SameMarketFits
<1>7. CASE UNCHANGED market
  BY <1>0, <1>7, SameMarketFits
<1>8. ASSUME NEW c \in Callers, CallStep(c) \/ Die(c)
      PROVE  UNCHANGED market \/ Post(c) \/ EmergencyClose(c)
  BY <1>8 DEF CallStep, Die, Begin, Recover, StoreIds, ConfirmPosition, ReadFails, ConfirmPlans,
     GraceEnds, CapabilityRead, CapabilityWrite, Manage, IdentifyPosition, Register, Contain
<1>9. ASSUME \/ RepairRead \/ RepairPosition \/ RepairPlans
             \/ RecordEvent \/ WatchdogRead \/ WatchdogWrite \/ Tick
      PROVE  UNCHANGED market
  BY <1>9 DEF RepairRead, RepairPosition, RepairPlans, RecordEvent, WatchdogRead, WatchdogWrite,
     Tick
<1> QED BY <1>1, <1>2, <1>3, <1>4, <1>5, <1>6, <1>7, <1>8, <1>9 DEF NativeNext

\* What a step may do to the rows of the legs.
LEMMA LegsStep ==
    ASSUME NativeInv, NativeNext
    PROVE  /\ legs' \in [claimed: BOOLEAN, id: [Sides -> Nat]]
           /\ \A s \in Sides: legs'.id[s] <= market'.lastId
           /\ legs.claimed => legs'.claimed
<1>0. /\ legs \in [claimed: BOOLEAN, id: [Sides -> Nat]] /\ legs.id \in [Sides -> Nat]
      /\ market.lastId \in Nat /\ market'.lastId \in Nat /\ market'.lastId >= market.lastId
      /\ \A s \in Sides: legs.id[s] <= market.lastId
  BY MarketStep DEF NativeInv, RowsInv, MarketInv, Markets
<1>1. CASE UNCHANGED legs
  BY <1>0, <1>1
<1>2. CASE legs' = [legs EXCEPT !.claimed = TRUE]
  <2>1. /\ legs' \in [claimed: BOOLEAN, id: [Sides -> Nat]] /\ legs'.claimed
        /\ legs'.id = legs.id
    BY <1>0, <1>2, Zenon
  <2> QED BY <1>0, <2>1
<1>3. ASSUME NEW c \in Callers, StoreIds(c)
      PROVE  /\ legs' \in [claimed: BOOLEAN, id: [Sides -> Nat]]
             /\ \A s \in Sides: legs'.id[s] <= market'.lastId
             /\ legs.claimed => legs'.claimed
  <2>1. PICK s \in Sides : legs' = [legs EXCEPT !.id[s] = call[c].want[s]]
    BY <1>3, Zenon DEF StoreIds
  <2> DEFINE id == [legs.id EXCEPT ![s] = call[c].want[s]]
  <2>2. legs' = [legs EXCEPT !.id = id]
    BY <2>1
  <2>3. call[c].want \in [Sides -> Nat] /\ call[c].want[s] <= market.lastId
    BY <1>3, CallIsTyped DEF StoreIds, NativeInv, CallsInv
  <2>4. id \in [Sides -> Nat] /\ \A t \in Sides: id[t] <= market.lastId
    BY <1>0, <2>3
  <2> HIDE DEF id
  <2>5. legs' \in [claimed: BOOLEAN, id: [Sides -> Nat]] /\ legs'.id = id
        /\ legs'.claimed = legs.claimed
    BY <1>0, <2>2, <2>4, Zenon
  <2> QED BY <1>0, <2>4, <2>5
<1>4. ASSUME NEW c \in Callers, CallStep(c) \/ Die(c)
      PROVE  UNCHANGED legs \/ legs' = [legs EXCEPT !.claimed = TRUE] \/ StoreIds(c)
  BY <1>4 DEF CallStep, Die, Begin, Recover, Post, ConfirmPosition, ReadFails, ConfirmPlans,
     GraceEnds, CapabilityRead, CapabilityWrite, Manage, IdentifyPosition, Register, Contain,
     EmergencyClose
<1>5. ASSUME \/ RepairRead \/ RepairMutate \/ RepairPosition \/ RepairPlans
             \/ ShowPlan \/ PositionEnds \/ AnotherOpens
             \/ RecordEvent \/ WatchdogRead \/ WatchdogWrite \/ Tick
      PROVE  UNCHANGED legs
  BY <1>5 DEF RepairRead, RepairMutate, RepairPosition, RepairPlans, ShowPlan, PositionEnds,
     AnotherOpens, RecordEvent, WatchdogRead, WatchdogWrite, Tick
<1> QED BY <1>1, <1>2, <1>3, <1>4, <1>5 DEF NativeNext

\* The emergency row is claimed by Contain and posted under by EmergencyClose.
LEMMA EmergencyStep ==
    ASSUME NativeInv, NativeNext
    PROVE  /\ emergency' \in [claimed: BOOLEAN, closes: Nat]
           /\ emergency.claimed => emergency'.claimed
           /\ \/ emergency'.closes = emergency.closes
              \/ \E c \in Callers: /\ EmergencyClose(c)
                                   /\ emergency'.closes = emergency.closes + 1
                                   /\ emergency'.claimed = emergency.claimed
<1>0. emergency \in [claimed: BOOLEAN, closes: Nat]
  BY DEF NativeInv, RowsInv
<1>1. CASE UNCHANGED emergency
  BY <1>0, <1>1
<1>2. ASSUME emergency' = [emergency EXCEPT !.claimed = TRUE]
      PROVE  /\ emergency' \in [claimed: BOOLEAN, closes: Nat] /\ emergency'.claimed
             /\ emergency'.closes = emergency.closes
  BY <1>0, <1>2, Zenon
<1>3. ASSUME NEW c \in Callers, EmergencyClose(c)
      PROVE  /\ emergency' \in [claimed: BOOLEAN, closes: Nat]
             /\ emergency'.claimed = emergency.claimed
             /\ emergency'.closes = emergency.closes + 1
  BY <1>0, <1>3 DEF EmergencyClose
<1>4. ASSUME NEW c \in Callers, CallStep(c) \/ Die(c)
      PROVE  \/ UNCHANGED emergency \/ emergency' = [emergency EXCEPT !.claimed = TRUE]
             \/ EmergencyClose(c)
  BY <1>4 DEF CallStep, Die, Begin, Recover, Post, StoreIds, ConfirmPosition, ReadFails,
     ConfirmPlans, GraceEnds, CapabilityRead, CapabilityWrite, Manage, IdentifyPosition,
     Register, Contain
<1>5. ASSUME \/ RepairRead \/ RepairMutate \/ RepairPosition \/ RepairPlans
             \/ ShowPlan \/ PositionEnds \/ AnotherOpens
             \/ RecordEvent \/ WatchdogRead \/ WatchdogWrite \/ Tick
      PROVE  UNCHANGED emergency
  BY <1>5 DEF RepairRead, RepairMutate, RepairPosition, RepairPlans, ShowPlan, PositionEnds,
     AnotherOpens, RecordEvent, WatchdogRead, WatchdogWrite, Tick
<1> QED BY <1>1, <1>2, <1>3, <1>4, <1>5 DEF NativeNext

\* A registration is of the first epoch, and stays.
LEMMA RegisteredStep ==
    ASSUME NativeInv, NativeNext
    PROVE  registered' \in {0, 1} /\ (registered = 1 => registered' = 1)
<1>0. registered \in {0, 1}
  BY DEF NativeInv, RowsInv
<1>1. ASSUME NEW c \in Callers, Register(c)
      PROVE  registered' \in {registered, 1}
  BY <1>1, RegisterMoves
<1>2. ASSUME NEW c \in Callers, CallStep(c) \/ Die(c)
      PROVE  UNCHANGED registered \/ Register(c)
  BY <1>2 DEF CallStep, Die, Begin, Recover, Post, StoreIds, ConfirmPosition, ReadFails,
     ConfirmPlans, GraceEnds, CapabilityRead, CapabilityWrite, Manage, IdentifyPosition,
     Contain, EmergencyClose
<1>3. ASSUME \/ RepairRead \/ RepairMutate \/ RepairPosition \/ RepairPlans
             \/ ShowPlan \/ PositionEnds \/ AnotherOpens
             \/ RecordEvent \/ WatchdogRead \/ WatchdogWrite \/ Tick
      PROVE  UNCHANGED registered
  BY <1>3 DEF RepairRead, RepairMutate, RepairPosition, RepairPlans, ShowPlan, PositionEnds,
     AnotherOpens, RecordEvent, WatchdogRead, WatchdogWrite, Tick
<1> QED BY <1>0, <1>1, <1>2, <1>3 DEF NativeNext

\* The console's job keeps its record, and moves the stop of the entry only when the plans
\* rest with it.
LEMMA RepairStep ==
    ASSUME NativeInv, NativeNext
    PROVE  /\ repair' \in Repairs /\ activeStop' \in Stops
           /\ activeStop' # activeStop => Rests(repair.stop)
<1>0. /\ repair \in Repairs /\ activeStop \in Stops /\ repair.stop \in Stops /\ MarketInv
      /\ market.qty \in Nat /\ ShownIds \in [Sides -> Nat] /\ PositionRows \subseteq Reads
      /\ {"place", "modify", "position", "unproven", "plans", "confirmed"} \subseteq
            {"idle", "place", "modify", "position", "unproven", "plans", "confirmed"}
  BY PositionRowsAreReads DEF NativeInv, RowsInv, MarketInv, Markets, Repairs
<1>1. CASE RepairRead
  <2>1. PICK pc \in {"modify", "position", "place"}, stop \in {"moved", activeStop},
             missing \in SUBSET Sides :
          repair' = [repair EXCEPT !.pc = pc, !.want = ShownIds, !.missing = missing,
                                   !.qty = market.qty, !.stop = stop]
    <3>1. PICK action \in {"repair", "set_sl"} :
            repair' = [repair EXCEPT
                  !.pc = CASE action = "set_sl" -> "modify"
                           [] action = "repair" /\ {s \in Sides: ShownIds[s] = 0} = {} ->
                                "position"
                           [] OTHER -> "place",
                  !.want = ShownIds, !.missing = {s \in Sides: ShownIds[s] = 0},
                  !.qty = market.qty,
                  !.stop = IF action = "set_sl" THEN "moved" ELSE activeStop]
      BY <1>1, Zenon DEF RepairRead
    <3> DEFINE p == CASE action = "set_sl" -> "modify"
                      [] action = "repair" /\ {s \in Sides: ShownIds[s] = 0} = {} -> "position"
                      [] OTHER -> "place"
               m == {s \in Sides: ShownIds[s] = 0}
               t == IF action = "set_sl" THEN "moved" ELSE activeStop
    <3>2. p \in {"modify", "position", "place"} /\ m \in SUBSET Sides
          /\ t \in {"moved", activeStop}
      OBVIOUS
    <3>3. repair' = [repair EXCEPT !.pc = p, !.want = ShownIds, !.missing = m,
                                   !.qty = market.qty, !.stop = t]
      BY <3>1
    <3> QED BY <3>2, <3>3, Zenon
  <2>2. pc \in {"idle", "place", "modify", "position", "unproven", "plans", "confirmed"}
        /\ stop \in Stops
    BY <1>0 DEF Stops
  <2>3. repair' \in Repairs
    BY <1>0, <2>1, <2>2, Zenon DEF Repairs
  <2> QED BY <1>0, <1>1, <2>3 DEF RepairRead
<1>2. CASE RepairMutate
  <2>1. repair' = [repair EXCEPT !.pc = "position"] /\ UNCHANGED activeStop
    BY <1>2 DEF RepairMutate
  <2> QED BY <1>0, <2>1 DEF Repairs
<1>3. CASE RepairPosition
  <2>1. PICK seen \in PositionRows, pc \in {"plans", "unproven"} :
          repair' = [repair EXCEPT !.seen = seen, !.pc = pc]
    BY <1>3, Zenon DEF RepairPosition
  <2>2. repair' \in Repairs
    BY <1>0, <2>1 DEF Repairs
  <2> QED BY <1>0, <1>3, <2>2 DEF RepairPosition
<1>4. CASE RepairPlans
  <2>1. PICK pc \in {"confirmed", "unproven"} : repair' = [repair EXCEPT !.pc = pc]
    BY <1>4 DEF RepairPlans
  <2>2. repair' \in Repairs
    BY <1>0, <2>1 DEF Repairs
  <2>3. activeStop' = activeStop \/ (activeStop' = repair.stop
            /\ PlanVerdict(repair.seen, repair.want, repair.stop) = "venue")
    BY <1>4 DEF RepairPlans
  <2> QED BY <1>0, <2>2, <2>3, ConfirmedPlansRest DEF Rests
<1>5. CASE UNCHANGED <<repair, activeStop>>
  BY <1>0, <1>5
<1>6. ASSUME NEW c \in Callers, CallStep(c) \/ Die(c)
      PROVE  UNCHANGED <<repair, activeStop>>
  BY <1>6 DEF CallStep, Die, Begin, Recover, Post, StoreIds, ConfirmPosition, ReadFails,
     ConfirmPlans, GraceEnds, CapabilityRead, CapabilityWrite, Manage, IdentifyPosition,
     Register, Contain, EmergencyClose
<1>7. ASSUME \/ ShowPlan \/ PositionEnds \/ AnotherOpens
             \/ RecordEvent \/ WatchdogRead \/ WatchdogWrite \/ Tick
      PROVE  UNCHANGED <<repair, activeStop>>
  BY <1>7 DEF ShowPlan, PositionEnds, AnotherOpens, RecordEvent, WatchdogRead, WatchdogWrite,
     Tick
<1> QED BY <1>1, <1>2, <1>3, <1>4, <1>5, <1>6, <1>7 DEF NativeNext

\* RecordEvent is the only step that moves the time in the row forward, to that of an event.
LEMMA StreamStep ==
    ASSUME NativeInv, NativeNext
    PROVE  StreamInv'
<1>0. /\ clock \in [now: Nat, event: Nat] /\ clock.event <= clock.now
      /\ capability \in Capabilities /\ capability.at <= clock.event
      /\ watch \in [state: {"none", "HEALTHY", "STALE", "FAILED"}, at: Nat]
      /\ watch.at <= clock.event
      /\ \A c \in Callers: call[c].held.at <= clock.event
      /\ clock.now \in Nat /\ clock.event \in Nat /\ capability.at \in Nat /\ watch.at \in Nat
      /\ \A c \in Callers: call[c].held \in Capabilities /\ call[c].held.at \in Nat
  BY CallIsTyped DEF NativeInv, StreamInv, Capabilities
<1>1. CASE RecordEvent
  <2>1. /\ UNCHANGED <<call, watch>>
        /\ capability' = [capability EXCEPT !.stream = "HEALTHY", !.at = clock.now]
        /\ clock' = [clock EXCEPT !.event = clock.now]
    BY <1>1 DEF RecordEvent
  <2>2. capability' \in Capabilities /\ capability'.at = clock.now
    <3>1. "HEALTHY" \in {"DISABLED", "HEALTHY", "STALE", "FAILED"}
      OBVIOUS
    <3> QED BY <1>0, <2>1, <3>1, Zenon DEF Capabilities
  <2>3. clock' \in [now: Nat, event: Nat] /\ clock'.now = clock.now /\ clock'.event = clock.now
    BY <1>0, <2>1, Zenon
  <2> QED BY <1>0, <2>1, <2>2, <2>3 DEF StreamInv
<1>2. CASE WatchdogRead
  <2>1. PICK s \in {"HEALTHY", "STALE", "FAILED"} : watch' = [state |-> s, at |-> capability.at]
    BY <1>2 DEF WatchdogRead
  <2>2. watch' \in [state: {"none", "HEALTHY", "STALE", "FAILED"}, at: Nat]
        /\ watch'.at = capability.at
    BY <1>0, <2>1
  <2>3. UNCHANGED <<call, capability, clock>>
    BY <1>2 DEF WatchdogRead
  <2> QED BY <1>0, <2>2, <2>3 DEF StreamInv
<1>3. CASE WatchdogWrite
  <2>1. /\ UNCHANGED <<call, clock>> /\ watch' = NoJudgement
        /\ watch.state \in {"HEALTHY", "STALE", "FAILED"}
        /\ capability' = [capability EXCEPT !.stream = watch.state, !.at = watch.at]
    BY <1>0, <1>3 DEF WatchdogWrite
  <2>2. capability' \in Capabilities /\ capability'.at = watch.at
    <3>1. watch.state \in {"DISABLED", "HEALTHY", "STALE", "FAILED"}
      BY <2>1
    <3> QED BY <1>0, <2>1, <3>1, Zenon DEF Capabilities
  <2>3. watch' \in [state: {"none", "HEALTHY", "STALE", "FAILED"}, at: Nat] /\ watch'.at = 0
    BY <2>1 DEF NoJudgement
  <2> QED BY <1>0, <2>1, <2>2, <2>3 DEF StreamInv
<1>4. CASE Tick
  <2>1. UNCHANGED <<call, capability, watch>> /\ clock' = [clock EXCEPT !.now = clock.now + 1]
    BY <1>4 DEF Tick
  <2>2. clock.now + 1 \in Nat
    BY <1>0
  <2>3. /\ clock' \in [now: Nat, event: Nat] /\ clock'.now = clock.now + 1
        /\ clock'.event = clock.event
    BY <1>0, <2>1, <2>2, Zenon
  <2> QED BY <1>0, <2>1, <2>3 DEF StreamInv
<1>5. ASSUME NEW c \in Callers, CallStep(c) \/ Die(c)
      PROVE  StreamInv'
  <2>1. PICK g \in Calls : GoodMove(c, g)
    BY <1>5, CallsMoveWell DEF SomeGoodMove
  <2>2. \A d \in Callers: call'[d].held.at <= clock.event
    <3>1. g.held.at <= clock.event /\ call' = [call EXCEPT ![c] = g]
      BY <2>1 DEF GoodMove
    <3>2. call \in [Callers -> Calls]
      BY DEF NativeInv, CallsInv
    <3> QED BY <1>0, <3>1, <3>2
  <2>3. UNCHANGED <<clock, watch>>
    BY <1>5 DEF CallStep, Die, Begin, Recover, Post, StoreIds, ConfirmPosition, ReadFails,
       ConfirmPlans, GraceEnds, CapabilityRead, CapabilityWrite, Manage, IdentifyPosition,
       Register, Contain, EmergencyClose
  <2>4. CASE CapabilityWrite(c)
    <3>1. call[c].pc \in DOMAIN Noted
      BY <2>4 DEF CapabilityWrite, NativeInv, CallsInv
    <3>2. PICK note : note = Noted[call[c].pc] /\ capability' = Upserted(call[c].held, note)
      BY <2>4 DEF CapabilityWrite
    <3>3. /\ note.native \in {"UNKNOWN", "VERIFIED", "FAILED", "UNSUPPORTED"}
          /\ note.allowed \in {"kept", "yes", "no"}
      BY <3>1, <3>2, NotedVerdicts
    <3>4. /\ call[c].held.allowed \in BOOLEAN /\ call[c].held.at \in Nat
          /\ call[c].held.stream \in {"DISABLED", "HEALTHY", "STALE", "FAILED"}
      BY <1>0 DEF Capabilities
    <3> DEFINE allowed == CASE note.allowed = "kept" -> call[c].held.allowed
                            [] note.allowed = "yes" -> TRUE
                            [] note.allowed = "no" -> FALSE
    <3>5. allowed \in BOOLEAN
      BY <3>3, <3>4
    <3>6. capability' = [native |-> note.native, allowed |-> allowed,
                         stream |-> call[c].held.stream, at |-> call[c].held.at]
      BY <3>2, Zenon DEF Upserted
    <3> HIDE DEF allowed
    <3>7. capability' \in Capabilities /\ capability'.at = call[c].held.at
      BY <3>3, <3>4, <3>5, <3>6, Zenon DEF Capabilities
    <3>8. capability'.at <= clock.event
      BY <1>0, <3>7
    <3> QED BY <1>0, <2>2, <2>3, <3>7, <3>8 DEF StreamInv
  <2>5. CASE UNCHANGED capability
    BY <1>0, <2>2, <2>3, <2>5 DEF StreamInv
  <2>6. UNCHANGED capability \/ CapabilityWrite(c)
    BY <1>5 DEF CallStep, Die, Begin, Recover, Post, StoreIds, ConfirmPosition, ReadFails,
       ConfirmPlans, GraceEnds, CapabilityRead, Manage, IdentifyPosition, Register, Contain,
       EmergencyClose
  <2> QED BY <2>4, <2>5, <2>6
<1>6. ASSUME \/ RepairRead \/ RepairMutate \/ RepairPosition \/ RepairPlans
             \/ ShowPlan \/ PositionEnds \/ AnotherOpens
      PROVE  StreamInv'
  <2>1. UNCHANGED <<call, capability, clock, watch>>
    BY <1>6 DEF RepairRead, RepairMutate, RepairPosition, RepairPlans, ShowPlan, PositionEnds,
       AnotherOpens
  <2> QED BY <1>0, <2>1 DEF StreamInv
<1> QED BY <1>1, <1>2, <1>3, <1>4, <1>5, <1>6 DEF NativeNext

\* The part about the records of the calls.
LEMMA CallsStep ==
    ASSUME NativeInv, NativeNext
    PROVE  CallsInv'
<1>0. /\ call \in [Callers -> Calls] /\ CallsInv
      /\ market.lastId \in Nat /\ market'.lastId \in Nat /\ market'.lastId >= market.lastId
      /\ registered = 1 => registered' = 1
      /\ Containment' = Containment /\ setup' = setup
      /\ MaxPosts \in Nat
  BY MarketStep, RegisteredStep
     DEF NativeInv, CallsInv, MarketInv, Markets, NativeNext, Containment
<1>1. ASSUME NEW d \in Callers, call'[d] = call[d]
      PROVE  /\ call'[d].pc = "begin" => call'[d].posts = 0
             /\ call'[d].posts <= MaxPosts
             /\ call'[d].pc = "post" => call'[d].posts < MaxPosts
             /\ call'[d].pc = "ack" => \A s \in Sides: call'[d].want[s] <= market'.lastId
             /\ call'[d].holding => call'[d].pc \in DOMAIN Noted
             /\ call'[d].pc \in {"contain", "close"} => Containment'
             /\ call'[d].report = "managed" => registered' = 1
  <2>1. call[d].pc = "ack" => \A s \in Sides: call[d].want[s] <= market'.lastId
    <3>1. call[d].want \in [Sides -> Nat]
      BY CallIsTyped
    <3> QED BY <1>0, <3>1 DEF CallsInv
  <2> QED BY <1>0, <1>1, <2>1 DEF CallsInv
<1>2. CASE UNCHANGED call
  BY <1>0, <1>1, <1>2 DEF CallsInv
<1>3. ASSUME NEW c \in Callers, CallStep(c) \/ Die(c)
      PROVE  CallsInv'
  <2>1. PICK g \in Calls : GoodMove(c, g)
    BY <1>3, CallsMoveWell DEF SomeGoodMove
  <2>2. /\ call' \in [Callers -> Calls] /\ call'[c] = g
        /\ \A d \in Callers \ {c}: call'[d] = call[d]
    BY <1>0, <2>1 DEF GoodMove
  <2>3. g.posts <= MaxPosts
    BY <1>0, <2>1, CallIsTyped DEF GoodMove, CallsInv
  <2>4. /\ g.pc # "begin"
        /\ g.pc = "post" => g.posts < MaxPosts
        /\ g.pc = "ack" => \A s \in Sides: g.want[s] <= market'.lastId
        /\ g.holding => g.pc \in DOMAIN Noted
        /\ g.pc \in {"contain", "close"} => Containment'
        /\ g.report = "managed" => registered' = 1
    BY <1>0, <2>1 DEF GoodMove
  <2> QED BY <1>1, <2>2, <2>3, <2>4 DEF CallsInv
<1>4. ASSUME \/ RepairRead \/ RepairMutate \/ RepairPosition \/ RepairPlans
             \/ ShowPlan \/ PositionEnds \/ AnotherOpens
             \/ RecordEvent \/ WatchdogRead \/ WatchdogWrite \/ Tick
      PROVE  UNCHANGED call
  BY <1>4 DEF RepairRead, RepairMutate, RepairPosition, RepairPlans, ShowPlan, PositionEnds,
     AnotherOpens, RecordEvent, WatchdogRead, WatchdogWrite, Tick
<1> QED BY <1>2, <1>3, <1>4 DEF NativeNext

\* The part about the holders: the legs are claimed by whoever POSTs the plans, the emergency
\* row by whoever POSTs the close.
LEMMA HoldersStep ==
    ASSUME NativeInv, NativeNext
    PROVE  HoldersInv'
<1>0. /\ call \in [Callers -> Calls] /\ CallsInv /\ HoldersInv
      /\ legs.claimed => legs'.claimed
      /\ emergency.claimed => emergency'.claimed
      /\ emergency.closes \in Nat
      /\ Containment' = Containment
  BY LegsStep, EmergencyStep DEF NativeInv, CallsInv, NativeNext, Containment, RowsInv
<1>1. CASE UNCHANGED call
  <2>1. emergency'.closes = emergency.closes
    <3>1. ASSUME NEW c \in Callers, EmergencyClose(c)
          PROVE  FALSE
      <4>1. call' = [call EXCEPT ![c] = At("done", call[c].posts, call[c].report)]
        BY <3>1, Zenon DEF EmergencyClose, CallAt
      <4>2. call'[c].pc = "done"
        BY <1>0, <4>1, Zenon DEF At
      <4> QED BY <1>1, <3>1, <4>2 DEF EmergencyClose
    <3> QED BY <3>1, EmergencyStep
  <2>2. emergency'.claimed \/ ~emergency.claimed
    BY <1>0
  <2> QED BY <1>0, <1>1, <2>1, <2>2 DEF HoldersInv, Posting
<1>2. ASSUME NEW c \in Callers, CallStep(c) \/ Die(c)
      PROVE  HoldersInv'
  <2>1. PICK g \in Calls : GoodMove(c, g)
    BY <1>2, CallsMoveWell DEF SomeGoodMove
  <2>2. /\ call'[c] = g /\ \A d \in Callers \ {c}: call'[d] = call[d]
        /\ g.posts \in Nat /\ call[c].posts \in Nat
    BY <1>0, <2>1, CallIsTyped DEF GoodMove, Calls
  <2> DEFINE posts(d) == call[d].posts > 0 \/ call[d].pc = "post"
             now(d) == call'[d].posts > 0 \/ call'[d].pc = "post"
             first == call[c].pc = "begin" /\ ~legs.claimed
  <2>3. now(c) => legs'.claimed /\ (posts(c) \/ first)
    <3>1. call[c].pc = "begin" => call[c].posts = 0
      BY <1>0 DEF CallsInv
    <3>2. posts(c) => legs.claimed
      BY <1>0 DEF HoldersInv, Posting
    <3> QED BY <1>0, <2>1, <2>2, <3>1, <3>2 DEF GoodMove
  <2>4. \A d \in Callers: posts(d) => legs.claimed
    BY <1>0 DEF HoldersInv, Posting
  <2>5. \A d, e \in Callers: posts(d) /\ posts(e) => d = e
    BY <1>0, Zenon DEF HoldersInv, Posting
  <2>6. \A d \in Callers \ {c}: now(d) => posts(d)
    BY <2>2
  <2> HIDE DEF posts, now
  <2>7. /\ \A d \in Callers: now(d) => legs'.claimed
        /\ \A d, e \in Callers: now(d) /\ now(e) => d = e
    <3>1. \A d \in Callers: now(d) => posts(d) \/ (d = c /\ first)
      BY <2>3, <2>6
    <3>2. first => \A d \in Callers: ~posts(d)
      BY <2>4
    <3> HIDE DEF first
    <3>3. \A d \in Callers: now(d) => legs'.claimed
      BY <1>0, <2>3, <2>4, <2>6
    <3>4. \A d, e \in Callers: now(d) /\ now(e) => d = e
      BY <2>5, <3>1, <3>2
    <3> QED BY <3>3, <3>4
  <2>8. /\ \A d \in Callers: Posting(d)' => legs'.claimed
        /\ \A d, e \in Callers: Posting(d)' /\ Posting(e)' => d = e
    BY <2>7 DEF now, Posting
  <2> DEFINE mayClose(d) == call[d].pc = "close"
             closeNow(d) == call'[d].pc = "close"
  <2>9. /\ closeNow(c) => ~emergency.claimed /\ emergency'.claimed
        /\ \A d \in Callers \ {c}: closeNow(d) => mayClose(d)
        /\ \A d \in Callers: mayClose(d) => emergency.claimed /\ emergency.closes = 0
        /\ \A d, e \in Callers: mayClose(d) /\ mayClose(e) => d = e
        /\ ~emergency.claimed => emergency.closes = 0
        /\ emergency.closes <= 1
        /\ emergency.closes > 0 => Containment
    BY <1>0, <2>1, <2>2 DEF GoodMove, HoldersInv
  <2>10. CASE emergency'.closes = emergency.closes
    <3>1. /\ \A d \in Callers: closeNow(d) => emergency'.claimed /\ emergency'.closes = 0
          /\ \A d, e \in Callers: closeNow(d) /\ closeNow(e) => d = e
      <4> HIDE DEF mayClose, closeNow
      <4> QED BY <1>0, <2>9, <2>10
    <3>2. /\ ~emergency'.claimed => emergency'.closes = 0
          /\ emergency'.closes <= 1 /\ (emergency'.closes > 0 => Containment')
      BY <1>0, <2>9, <2>10
    <3> QED BY <2>8, <3>1, <3>2 DEF HoldersInv, closeNow
  <2>11. CASE emergency'.closes # emergency.closes
    <3>1. PICK d \in Callers : /\ EmergencyClose(d) /\ emergency'.closes = emergency.closes + 1
                               /\ emergency'.claimed = emergency.claimed
      BY <2>11, EmergencyStep
    <3>2. call[d].pc = "close" /\ emergency.claimed /\ emergency.closes = 0 /\ Containment
      BY <1>0, <3>1 DEF EmergencyClose, HoldersInv, CallsInv
    <3>3. \A e \in Callers: ~closeNow(e)
      <4>1. call' = [call EXCEPT ![d] = At("done", call[d].posts, call[d].report)]
        BY <3>1, Zenon DEF EmergencyClose, CallAt
      <4>2. call'[d].pc = "done" /\ \A e \in Callers \ {d}: call'[e] = call[e]
        BY <1>0, <4>1, Zenon DEF At
      <4>3. \A e \in Callers \ {d}: call[e].pc # "close"
        BY <1>0, <3>2, Zenon DEF HoldersInv
      <4> QED BY <4>2, <4>3
    <3> QED BY <1>0, <2>8, <3>1, <3>2, <3>3 DEF HoldersInv
  <2> QED BY <2>10, <2>11
<1>3. ASSUME \/ RepairRead \/ RepairMutate \/ RepairPosition \/ RepairPlans
             \/ ShowPlan \/ PositionEnds \/ AnotherOpens
             \/ RecordEvent \/ WatchdogRead \/ WatchdogWrite \/ Tick
      PROVE  UNCHANGED call
  BY <1>3 DEF RepairRead, RepairMutate, RepairPosition, RepairPlans, ShowPlan, PositionEnds,
     AnotherOpens, RecordEvent, WatchdogRead, WatchdogWrite, Tick
<1> QED BY <1>1, <1>2, <1>3 DEF NativeNext

----------------------------------------------------------------------------
(* The theorems.                                                           *)

\* The invariant holds initially.
LEMMA NativeStarts == NativeInit => NativeInv
<1> SUFFICES ASSUME NativeInit PROVE NativeInv
  OBVIOUS
<1>1. /\ setup \in Setups /\ Filled \in Nat /\ Containment \in BOOLEAN
      /\ {"begin"} \subseteq Pcs /\ "none" \in Reports /\ "planned" \in Stops
  BY DEF NativeInit, Filled, Containment, Pcs, Reports, Stops
<1>2. MarketInv
  <2>1. market = [qty |-> Filled, epoch |-> 1, plan |-> NoId, shown |-> {}, stop |-> "planned",
                  lastId |-> 0]
    BY DEF NativeInit
  <2>2. market \in Markets
    <3>1. 1 \in {1, 2} /\ {} \in SUBSET Sides /\ 0 \in Nat
      OBVIOUS
    <3> QED BY <1>1, <2>1, <3>1, NothingIsTyped, Zenon DEF Markets
  <2> QED BY <1>1, <2>1, <2>2, NothingIsTyped DEF MarketInv
<1>3. RowsInv
  <2>1. repair \in Repairs
    <3>1. "idle" \in {"idle", "place", "modify", "position", "unproven", "plans", "confirmed"}
          /\ {} \in SUBSET Sides /\ 0 \in Nat
      OBVIOUS
    <3> QED BY <1>1, <3>1, NothingIsTyped, Zenon DEF NativeInit, Repairs
  <2> QED BY <1>1, <2>1, NothingIsTyped DEF RowsInv, NativeInit
<1>4. \A c \in Callers: /\ call[c] \in Calls /\ call[c].pc = "begin" /\ call[c].posts = 0
                        /\ call[c].report = "none" /\ call[c].held.at = 0 /\ ~call[c].holding
  <2>1. \A c \in Callers: call[c] = At("begin", 0, "none")
    BY DEF NativeInit
  <2>2. 0 \in Nat
    OBVIOUS
  <2>3. LET k == At("begin", 0, "none")
        IN  /\ k \in Calls /\ k.pc = "begin" /\ k.posts = 0
            /\ k.report = "none" /\ k.held.at = 0 /\ ~k.holding
    BY <1>1, <2>2, AtIsTyped
  <2> QED BY <2>1, <2>3
<1>5. StreamInv
  BY <1>4, NothingIsTyped DEF StreamInv, NativeInit, NoJudgement
<1>6. CallsInv
  <2>1. call \in [Callers -> Calls]
    BY <1>4 DEF NativeInit
  <2> QED BY <1>4, <2>1 DEF CallsInv
<1>7. HoldersInv
  BY <1>4 DEF HoldersInv, Posting, NativeInit
<1> QED BY <1>2, <1>3, <1>5, <1>6, <1>7 DEF NativeInv

\* Every step keeps it.
LEMMA NativeStep == NativeInv /\ [NativeNext]_nativeVars => NativeInv'
<1> SUFFICES ASSUME NativeInv, [NativeNext]_nativeVars PROVE NativeInv'
  OBVIOUS
<1>1. CASE NativeNext
  <2>1. MarketInv'
    BY <1>1, MarketStep
  <2>2. RowsInv'
    BY <1>1, LegsStep, EmergencyStep, RegisteredStep, RepairStep DEF RowsInv
  <2> QED BY <1>1, <2>1, <2>2, StreamStep, CallsStep, HoldersStep DEF NativeInv
<1>2. CASE UNCHANGED nativeVars
  BY <1>2 DEF nativeVars, NativeInv, MarketInv, RowsInv, StreamInv, CallsInv, HoldersInv, Posting,
     Filled, Containment
<1> QED BY <1>1, <1>2

\* The inductive invariant of the plans at the venue, their rows and the calls.
THEOREM NativeInvariant == NativeSpec => []NativeInv
BY NativeStarts, NativeStep, PTL DEF NativeSpec

\* Types, and that no id is expected that the venue never issued.
THEOREM NativeTypeCorrect == NativeSpec => []NativeTypeOK
<1>1. NativeInv => NativeTypeOK
  <2> SUFFICES ASSUME NativeInv PROVE NativeTypeOK
    OBVIOUS
  <2>1. /\ market.qty \in 0..Filled /\ market.epoch \in {1, 2} /\ market.shown \subseteq Sides
        /\ market.plan \in [Sides -> 0..market.lastId]
        /\ \A s \in market.shown: market.plan[s] # 0
    BY SetupIsTyped DEF NativeInv, MarketInv, Markets
  <2>2. legs.claimed \in BOOLEAN /\ legs.id \in [Sides -> 0..market.lastId]
    BY DEF NativeInv, MarketInv, Markets, RowsInv
  <2>3. \A c \in Callers: call[c].pc \in Pcs /\ call[c].posts \in 0..MaxPosts
    BY CallIsTyped DEF NativeInv, CallsInv
  <2>4. capability.at \in 0..clock.now /\ registered \in 0..2
    BY DEF NativeInv, StreamInv, Capabilities, RowsInv
  <2> QED BY <2>1, <2>2, <2>3, <2>4 DEF NativeTypeOK
<1> QED BY <1>1, NativeInvariant, PTL

\* The local lane is given only the position this entry opened, and the verdict that says so
\* has its row (_fallback_identity, register_fallback).
THEOREM LocalLaneIsOurs == NativeSpec => []LocalIsOurs
<1>1. NativeInv => LocalIsOurs
  BY DEF NativeInv, RowsInv, CallsInv, LocalIsOurs
<1> QED BY <1>1, NativeInvariant, PTL

\* One call POSTs the plans, within its attempts, and one the emergency close, however many
\* run, read, die and are repeated (claim_protection, _contain).
THEOREM OneCallMutates == NativeSpec => []OneHolderMutates
<1>1. NativeInv => OneHolderMutates
  <2> SUFFICES ASSUME NativeInv PROVE OneHolderMutates
    OBVIOUS
  <2> DEFINE S == {c \in Callers: call[c].posts > 0}
  <2>1. \A c, d \in S: c = d
    BY DEF NativeInv, HoldersInv, Posting
  <2>2. Cardinality(S) <= 1
    <3>1. CASE S = {}
      BY <3>1, FS_EmptySet
    <3>2. CASE S # {}
      <4>1. PICK c \in S : TRUE
        BY <3>2
      <4>2. S = {c}
        BY <2>1, <4>1
      <4>3. Cardinality({c}) = 1
        BY FS_Singleton
      <4> HIDE DEF S
      <4> QED BY <4>2, <4>3
    <3> QED BY <3>1, <3>2
  <2>3. \A c \in Callers: call[c].posts <= MaxPosts
    BY DEF NativeInv, CallsInv
  <2>4. emergency.closes <= IF Containment THEN 1 ELSE 0
    BY DEF NativeInv, HoldersInv, RowsInv
  <2> QED BY <2>2, <2>3, <2>4 DEF OneHolderMutates
<1> QED BY <1>1, NativeInvariant, PTL

\* An entry is admitted on the stream only within the stale time of a real event, whoever
\* wrote the row last and from however old a copy (_persist_capability, the watchdog).
THEOREM StreamAdmitsOnEvents == NativeSpec => []AdmissionIsFresh
<1>1. NativeInv => AdmissionIsFresh
  BY DEF NativeInv, StreamInv, Capabilities, AdmissionIsFresh, AdmittedByStream, FreshAt
<1> QED BY <1>1, NativeInvariant, PTL

\* A verdict of protection, and a moved stop, are of plans that rest at the venue in the very
\* step that reads them (confirm_native_protection, _protection_readback).
THEOREM VerdictsAreTrue == NativeSpec => ReportIsTrue
<1>1. NativeInv /\ [NativeNext]_nativeVars =>
        [/\ \A c \in Callers:
               call'[c].report = "venue" /\ call[c].report # "venue" => Rests(call[c].stop)
         /\ activeStop' # activeStop => Rests(repair.stop)]_nativeVars
  <2> SUFFICES ASSUME NativeInv, NativeNext
               PROVE  /\ \A c \in Callers: call'[c].report = "venue" /\ call[c].report # "venue"
                                             => Rests(call[c].stop)
                      /\ activeStop' # activeStop => Rests(repair.stop)
    OBVIOUS
  <2>1. ASSUME NEW c \in Callers, CallStep(c) \/ Die(c),
               NEW d \in Callers, call'[d].report = "venue", call[d].report # "venue"
        PROVE  Rests(call[d].stop)
    <3>1. PICK g \in Calls : GoodMove(c, g)
      BY <2>1, CallsMoveWell DEF SomeGoodMove
    <3>2. /\ call' = [call EXCEPT ![c] = g] /\ call \in [Callers -> Calls]
          /\ g.report = "venue" /\ call[c].report # "venue" => Rests(call[c].stop)
      BY <3>1 DEF GoodMove, NativeInv, CallsInv
    <3>3. c = d
      BY <2>1, <3>2
    <3> QED BY <2>1, <3>2, <3>3
  <2>2. ASSUME \/ RepairRead \/ RepairMutate \/ RepairPosition \/ RepairPlans
               \/ ShowPlan \/ PositionEnds \/ AnotherOpens
               \/ RecordEvent \/ WatchdogRead \/ WatchdogWrite \/ Tick
        PROVE  UNCHANGED call
    BY <2>2 DEF RepairRead, RepairMutate, RepairPosition, RepairPlans, ShowPlan, PositionEnds,
       AnotherOpens, RecordEvent, WatchdogRead, WatchdogWrite, Tick
  <2>3. activeStop' # activeStop => Rests(repair.stop)
    BY RepairStep
  <2> QED BY <2>1, <2>2, <2>3 DEF NativeNext
<1> QED BY <1>1, NativeInvariant, PTL DEF NativeSpec, ReportIsTrue, Rests

=============================================================================
