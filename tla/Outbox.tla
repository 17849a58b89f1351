------------------------------- MODULE Outbox -------------------------------
(***************************************************************************)
(* The notification sender: the Telegram outbox (notifications.py), the    *)
(* web push ledger filled from it (web_push.py) and the loop that serves   *)
(* both (notification_service.py).                                         *)
(*                                                                         *)
(* A row is claimed with a fresh token and a lease, and settled only by    *)
(* the holder of the token.  Every claim adds one to attempts, so the      *)
(* number of the claim stands for its token.  A provider call is a step of *)
(* its own, and a process may stop between any two steps.                  *)
(***************************************************************************)
EXTENDS Naturals, FiniteSets

CONSTANTS
    Notes,         \* notifications, numbered in the order of their creation
    Subs,          \* push subscriptions
    Chat,          \* the Telegram chat
    Senders,       \* sender processes: one, and another while it is replaced
    MaxAttempts,   \* NOTIFICATION_MAX_ATTEMPTS
    PushAttempts,  \* WEB_PUSH_MAX_ATTEMPTS
    BatchSize,     \* WEB_PUSH_BATCH_SIZE
    MaxClaims,     \* bound: claims of a row that are told apart, see NextNumber
    MaxStops,      \* bound: times a process stops in the middle of its work
    MaxSlow        \* bound: leases that lapse while their holder is at work

ASSUME OutboxAssumption ==
    /\ Notes \subseteq Nat /\ IsFiniteSet(Notes) /\ IsFiniteSet(Subs) /\ Chat \notin Subs
    /\ IsFiniteSet(Senders)
    /\ {MaxAttempts, PushAttempts, BatchSize} \subseteq Nat \ {0}
    /\ MaxClaims \in Nat /\ MaxClaims >= MaxAttempts /\ MaxClaims >= PushAttempts
    /\ {MaxStops, MaxSlow} \subseteq Nat

VARIABLES
    row,       \* notifications_outbox (the rows of Chat) and web_push_deliveries
    kind,      \* what is in a payload: no object, something filtered, a card, or an
               \* object that cannot be rendered
    sub,       \* table web_push_subscriptions
    sender,    \* what each process holds: claims as pairs of a key and a token
    stops, slow,
    got,       \* history: how often a card or a push arrived
    doubt      \* history: how often the sender could not know, or was too slow

outboxVars == <<row, kind, sub, sender, stops, slow, got, doubt>>

Card(n) == <<n, Chat>>
Cards == {Card(n): n \in Notes}
Pushes == Notes \X Subs
Keys == Cards \cup Pushes

\* The formatter raises NotificationPayloadError for the one, any other error for the other.
Unrendered == {"invalid", "broken"}
Kinds == {"malformed", "quiet", "card"} \cup Unrendered
Settled == {"sent", "failed"}
Row == [state: {"none", "pending"} \cup Settled, claimed: BOOLEAN, lapsed: BOOLEAN,
        due: BOOLEAN, attempts: Nat]
NoRow == [state |-> "none", claimed |-> FALSE, lapsed |-> FALSE, due |-> TRUE, attempts |-> 0]
NewRow == [NoRow EXCEPT !.state = "pending"]
AtStart == [pc |-> "claim", item |-> <<>>, answer |-> "none", batch |-> {}]

-----------------------------------------------------------------------------
(* One row: both tables are claimed and settled in the same way *)

\* Fault: a claim whose lease has lapsed is not taken over.
ClaimableUnclaimed(r) == r.state = "pending" /\ r.due /\ ~r.claimed

\* The WHERE of claim and of claim_due.
Claimable(r) ==
    /\ r.state = "pending"
    /\ r.due
    /\ r.claimed => r.lapsed

Lowest(S) == CHOOSE n \in S: \A m \in S: n <= m
Fewest(a, b) == IF a < b THEN a ELSE b

\* The numbers of the claims of k that somebody works under: the row's, or older ones.
InHand(k) ==
    {item[2]: item \in {i \in UNION {sender[p].batch \cup {sender[p].item}: p \in Senders}:
                        i # <<>> /\ i[1] = k}}

\* attempts + 1.  Beyond MaxClaims, where no limit is left to reach, the numbers of claims
\* that nobody holds are given again.
NextNumber(k) ==
    LET next == row[k].attempts + 1
    IN  Lowest({n \in Fewest(MaxClaims, next)..next: \A t \in InHand(k): t < n})

Claimed(r, number) == [r EXCEPT !.claimed = TRUE, !.lapsed = FALSE, !.attempts = number]

\* The WHERE of mark_sent, mark_retry and mark_failed.
Owned(r, token) == r.state = "pending" /\ r.claimed /\ r.attempts = token

Released(r, state, due) ==
    [r EXCEPT !.state = state, !.claimed = FALSE, !.lapsed = FALSE, !.due = due]

\* Fault: a retryable error is booked as a delivery.
MarkedBlindly(r, token, answer, limit) ==
    IF Owned(r, token) THEN Released(r, "sent", r.due) ELSE r

\* What the answer of the provider makes of the row; nothing if the claim is lost.
Marked(r, token, answer, limit) ==
    CASE ~Owned(r, token) -> r
      [] Owned(r, token) /\ answer = "ok" -> Released(r, "sent", r.due)
      [] Owned(r, token) /\ answer = "retry" /\ token < limit ->
            Released(r, "pending", FALSE)
      [] OTHER -> Released(r, "failed", r.due)

-----------------------------------------------------------------------------
(* The Telegram lane: NotificationWorker.run_once *)

ClaimableNotes == {n \in Notes: Claimable(row[Card(n)])}

\* claim: the oldest row; a payload that is no object is failed in the same transaction.
Claim(p) ==
    LET n == Lowest(ClaimableNotes)
        mine == Claimed(row[Card(n)], NextNumber(Card(n)))
    IN  /\ sender[p].pc = "claim"
        /\ ClaimableNotes # {}
        /\ IF kind[n] = "malformed"
           THEN /\ row' = [row EXCEPT ![Card(n)] = Released(mine, "failed", mine.due)]
                /\ sender' = [sender EXCEPT ![p].pc = "due"]
           ELSE /\ row' = [row EXCEPT ![Card(n)] = mine]
                /\ sender' = [sender EXCEPT ![p].pc = "fanout",
                                            ![p].item = <<Card(n), mine.attempts>>]
        /\ UNCHANGED <<kind, sub, stops, slow, got, doubt>>

ClaimNothing(p) ==
    /\ sender[p].pc = "claim"
    /\ ClaimableNotes = {}
    /\ sender' = [sender EXCEPT ![p].pc = "due"]
    /\ UNCHANGED <<row, kind, sub, stops, slow, got, doubt>>

\* fan_out: ON CONFLICT DO NOTHING
FannedOut(k) == IF row[k].state = "none" THEN NewRow ELSE row[k]

\* fan_out: one row per enabled subscription, once; an error is ignored.
\* should_deliver_to_telegram: what is filtered counts as sent.
FanOut(p) ==
    LET n == sender[p].item[1][1]
    IN  /\ sender[p].pc = "fanout"
        /\ \/ row' = [k \in Keys |->
                        IF k \in {n} \X {s \in Subs: sub[s] = "enabled"}
                        THEN FannedOut(k) ELSE row[k]]
           \/ UNCHANGED row
        /\ sender' = [sender EXCEPT ![p].pc = IF kind[n] = "quiet" THEN "mark" ELSE "send",
                                    ![p].answer = IF kind[n] = "quiet" THEN "ok" ELSE "none"]
        /\ UNCHANGED <<kind, sub, stops, slow, got, doubt>>

\* The senders' classes of answers.  "lost" is an accepted message whose acceptance was not
\* learned; "timeout" is one that outlived the push lane's own timeout, which is none of
\* the errors it retries.
Arrives(reply) == reply \in {"ok", "lost", "timeout"}
Classified(reply) == CASE reply = "lost" -> "retry"
                       [] reply = "timeout" -> "refused"
                       [] OTHER -> reply

Answered(k, reply) ==
    /\ got' = [got EXCEPT ![k] = IF Arrives(reply) THEN @ + 1 ELSE @]
    /\ doubt' = [doubt EXCEPT ![k] = IF reply \in {"lost", "timeout"} THEN @ + 1 ELSE @]

\* TelegramBotSender.send under its timeout, of a card that renders.
Send(p) ==
    /\ sender[p].pc = "send"
    /\ kind[sender[p].item[1][1]] \notin Unrendered
    /\ \E reply \in {"ok", "lost", "retry", "refused"}:
          /\ Answered(sender[p].item[1], reply)
          /\ sender' = [sender EXCEPT ![p].pc = "mark", ![p].answer = Classified(reply)]
    /\ UNCHANGED <<row, kind, sub, stops, slow>>

\* format_notification_html raises: run_once catches NotificationDeliveryError alone, and the
\* loop of the service nothing, so the process ends and is started again.  The row stays
\* claimed.
RenderFails(p) ==
    /\ sender[p].pc = "send"
    /\ kind[sender[p].item[1][1]] \in Unrendered
    /\ sender' = [sender EXCEPT ![p] = AtStart]
    /\ UNCHANGED <<row, kind, sub, stops, slow, got, doubt>>

Mark(p) ==
    LET s == sender[p]
    IN  /\ s.pc = "mark"
        /\ row' = [row EXCEPT ![s.item[1]] = Marked(@, s.item[2], s.answer, MaxAttempts)]
        /\ sender' = [sender EXCEPT ![p] = [AtStart EXCEPT !.pc = "due"]]
        /\ UNCHANGED <<kind, sub, stops, slow, got, doubt>>

-----------------------------------------------------------------------------
(* The push lane: WebPushDeliveryWorker.run_once *)

DuePushes == {k \in Pushes: Claimable(row[k])}

\* claim_due: a batch under one lease.  Rows of one fan-out share their created_at, and
\* which of them come first is not fixed.
ClaimDue(p) ==
    /\ sender[p].pc = "due"
    /\ \E B \in SUBSET DuePushes:
          /\ Cardinality(B) = Fewest(BatchSize, Cardinality(DuePushes))
          /\ row' = [k \in Keys |-> IF k \in B THEN Claimed(row[k], NextNumber(k)) ELSE row[k]]
          /\ sender' = [sender EXCEPT ![p].pc = IF B = {} THEN "claim" ELSE "batch",
                                      ![p].batch = {<<k, NextNumber(k)>>: k \in B}]
    /\ UNCHANGED <<kind, sub, stops, slow, got, doubt>>

\* One POST of the batch, of a message that renders.
PushSend(p) ==
    /\ sender[p].pc = "batch"
    /\ \E item \in sender[p].batch,
          reply \in {"ok", "lost", "retry", "gone", "refused", "timeout"}:
          /\ kind[item[1][1]] \notin Unrendered
          /\ Answered(item[1], reply)
          /\ sender' = [sender EXCEPT
                ![p].pc = IF reply = "gone" THEN "disable" ELSE "pushmark",
                ![p].item = item, ![p].answer = Classified(reply)]
    /\ UNCHANGED <<row, kind, sub, stops, slow>>

\* build_push_message raises.  NotificationPayloadError fails the row; any other error leaves
\* run_once, and the loop of the service goes on without the rest of the batch.
PushRenderFails(p) ==
    /\ sender[p].pc = "batch"
    /\ \E item \in sender[p].batch:
          \/ /\ kind[item[1][1]] = "invalid"
             /\ sender' = [sender EXCEPT ![p].pc = "pushmark", ![p].item = item,
                                         ![p].answer = "refused"]
          \/ /\ kind[item[1][1]] = "broken"
             /\ sender' = [sender EXCEPT ![p] = AtStart]
    /\ UNCHANGED <<row, kind, sub, stops, slow, got, doubt>>

\* disable_subscription, in a transaction of its own before the mark.
Disable(p) ==
    /\ sender[p].pc = "disable"
    /\ sub' = [sub EXCEPT ![sender[p].item[1][2]] = "disabled"]
    /\ sender' = [sender EXCEPT ![p].pc = "pushmark"]
    /\ UNCHANGED <<row, kind, stops, slow, got, doubt>>

PushMark(p) ==
    LET s == sender[p]
        left == s.batch \ {s.item}
    IN  /\ s.pc = "pushmark"
        /\ row' = [row EXCEPT ![s.item[1]] = Marked(@, s.item[2], s.answer, PushAttempts)]
        /\ sender' = [sender EXCEPT
              ![p] = [AtStart EXCEPT !.pc = IF left = {} THEN "claim" ELSE "batch",
                                     !.batch = left]]
        /\ UNCHANGED <<kind, sub, stops, slow, got, doubt>>

\* prune_finished: rows of thirty days, when nobody is at work on their notification.
Prunable(k) ==
    /\ row[k].state \in Settled
    /\ row[Card(k[1])].state \in Settled
    /\ k[1] \notin {sender[p].item[1][1]: p \in {q \in Senders: sender[q].item # <<>>}}

Prune(p) ==
    /\ sender[p].pc = "claim"
    /\ \E k \in Pushes:
          /\ Prunable(k)
          /\ row' = [row EXCEPT ![k] = NoRow]
    /\ UNCHANGED <<kind, sub, sender, stops, slow, got, doubt>>

-----------------------------------------------------------------------------
(* Failure and time *)

\* The claims process p works on.
Holds(p, k) ==
    \E item \in sender[p].batch \cup {sender[p].item}:
        item # <<>> /\ item[1] = k /\ Owned(row[k], item[2])

\* The process stops, or the store of the push lane raises and the loop goes on with the
\* next round: either way what it holds is forgotten until the leases lapse.
Stop(p) ==
    LET unbooked == sender[p].pc \in {"mark", "pushmark"} /\ sender[p].answer = "ok"
    IN  /\ stops < MaxStops
        /\ sender[p].pc # "claim"
        /\ stops' = stops + 1
        /\ doubt' = IF unbooked THEN [doubt EXCEPT ![sender[p].item[1]] = @ + 1] ELSE doubt
        /\ sender' = [sender EXCEPT ![p] = AtStart]
        /\ UNCHANGED <<row, kind, sub, slow, got>>

\* A lease lapses; while its holder is at work, only because that is slow.
Lapse(k) ==
    /\ row[k].claimed /\ ~row[k].lapsed
    /\ row' = [row EXCEPT ![k].lapsed = TRUE]
    /\ IF \E p \in Senders: Holds(p, k)
       THEN /\ slow < MaxSlow
            /\ slow' = slow + 1
            /\ doubt' = [doubt EXCEPT ![k] = @ + 1]
       ELSE UNCHANGED <<slow, doubt>>
    /\ UNCHANGED <<kind, sub, sender, stops, got>>

\* next_attempt_at comes.
FallDue(k) ==
    /\ ~row[k].due
    /\ row' = [row EXCEPT ![k].due = TRUE]
    /\ UNCHANGED <<kind, sub, sender, stops, slow, got, doubt>>

-----------------------------------------------------------------------------
(* Other processes *)

\* enqueue_notification, and every other INSERT: one row per dedup key.
Enqueue(n) ==
    /\ row[Card(n)].state = "none"
    /\ row' = [row EXCEPT ![Card(n)] = NewRow]
    /\ \E kd \in Kinds: kind' = [kind EXCEPT ![n] = kd]
    /\ UNCHANGED <<sub, sender, stops, slow, got, doubt>>

\* push_subscribe renews the row of an endpoint it knows.
Subscribe(s) ==
    /\ sub[s] # "enabled"
    /\ sub' = [sub EXCEPT ![s] = "enabled"]
    /\ UNCHANGED <<row, kind, sender, stops, slow, got, doubt>>

\* push_remove
Unsubscribe(s) ==
    /\ sub[s] = "enabled"
    /\ sub' = [sub EXCEPT ![s] = "disabled"]
    /\ UNCHANGED <<row, kind, sender, stops, slow, got, doubt>>

-----------------------------------------------------------------------------
OutboxInit ==
    /\ row = [k \in Keys |-> NoRow]
    /\ kind = [n \in Notes |-> "card"]
    /\ sub = [s \in Subs |-> "none"]
    /\ sender = [p \in Senders |-> AtStart]
    /\ stops = 0 /\ slow = 0
    /\ got = [k \in Keys |-> 0]
    /\ doubt = [k \in Keys |-> 0]

SenderStep(p) ==
    \/ Claim(p) \/ ClaimNothing(p) \/ FanOut(p) \/ Send(p) \/ RenderFails(p) \/ Mark(p)
    \/ ClaimDue(p) \/ PushSend(p) \/ PushRenderFails(p) \/ Disable(p) \/ PushMark(p)

OutboxNext ==
    \/ \E p \in Senders: SenderStep(p) \/ Prune(p) \/ Stop(p)
    \/ \E k \in Keys: Lapse(k) \/ FallDue(k)
    \/ \E n \in Notes: Enqueue(n)
    \/ \E s \in Subs: Subscribe(s) \/ Unsubscribe(s)

\* The loop runs for ever, the container is restarted, and time passes.
OutboxFairness ==
    /\ \A p \in Senders: WF_outboxVars(SenderStep(p))
    /\ \A k \in Keys: WF_outboxVars(Lapse(k)) /\ WF_outboxVars(FallDue(k))

OutboxSpec == OutboxInit /\ [][OutboxNext]_outboxVars /\ OutboxFairness

-----------------------------------------------------------------------------
(* Correctness *)

\* Type invariant.  A claim is of a pending row.
OutboxTypeOK ==
    /\ row \in [Keys -> Row]
    /\ kind \in [Notes -> Kinds]
    /\ sub \in [Subs -> {"none", "enabled", "disabled"}]
    /\ \A k \in Keys: row[k].claimed => row[k].state = "pending"

SentHasArrived ==
    \A k \in Keys: row[k].state = "sent" => (got[k] > 0 \/ (k \in Cards /\ kind[k[1]] = "quiet"))
DuplicateNeedsDoubt == \A k \in Keys: got[k] <= 1 + doubt[k]

\* What is booked as sent has arrived, whichever process booked it and however late
\* (mark_sent and the fence of _update_claimed); and nobody gets a message twice unless the
\* sender could not know that it had arrived, or lost its lease while it worked.
DeliveryIsHonest == SentHasArrived /\ DuplicateNeedsDoubt

NonePending == \A k \in Keys: row[k].state # "pending"

\* While every payload can be rendered, every notification and every push ends sent or
\* failed: nothing stays claimed by a process that is gone, nothing is retried for ever,
\* and the queues run empty together.
RenderedRowsSettle ==
    [](\A n \in Notes: kind[n] \notin Unrendered) => []<>NonePending

\* notifications.py:59: a malformed payload is "durably retired, not delivered".  It is not
\* when the formatter is the one to find out: the sender ends with the row claimed, claims
\* it again when the lease has lapsed, and ends again.
EveryRowSettles == []<>NonePending

====
