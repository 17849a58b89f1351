---------------------------- MODULE OutboxProofs ----------------------------
(***************************************************************************)
(* Proofs about Outbox, for any notifications, subscriptions, senders,     *)
(* limits, batch size, stops and lapses.                                   *)
(*                                                                         *)
(* A duplicate is counted for each key by itself: a delivery that already  *)
(* arrived, and every sender that still has the key to send, must together *)
(* be covered by the occasions on which a sender could not know.  A step   *)
(* changes one sender and what its key's row says; the lemmas of the       *)
(* second part each treat one kind of change to one key, the third part    *)
(* finds the kind of every action.                                         *)
(***************************************************************************)
EXTENDS Outbox, FiniteSetTheorems, WellFoundedInduction, TLAPS

USE OutboxAssumption

-----------------------------------------------------------------------------
(* The inductive invariant.                                                *)

\* The places of a sender.
Pcs == {"claim", "due", "fanout", "send", "mark", "batch", "disable", "pushmark"}

\* The classes of answers.
Answers == {"none", "ok", "retry", "refused", "gone"}

\* A claim: a key and the number that stands for its token.
Items == Keys \X Nat

\* The record of a sender.
SenderRecords == [pc: Pcs, item: {<<>>} \cup Items, answer: Answers, batch: SUBSET Items]

\* Sender p holds the claim number t of key k.
Mine(p, k, t) == <<k, t>> \in sender[p].batch \/ <<k, t>> = sender[p].item

\* It has made the call for key k, and waits to book the answer.
Made(p, k) ==
    /\ sender[p].pc \in {"mark", "disable", "pushmark"}
    /\ \E t \in Nat: sender[p].item = <<k, t>>

\* It was told that k arrived, or k need not arrive.
Told(p, k) ==
    /\ sender[p].pc \in {"mark", "pushmark"} /\ sender[p].answer = "ok"
    /\ \E t \in Nat: sender[p].item = <<k, t>>

\* It may still make the call for key k.
Todo(p, k) == ~Made(p, k) /\ \E t \in Nat: Mine(p, k, t)

\* How many senders may.
Unsent(k) == Cardinality({p \in Senders: Todo(p, k)})

\* Its claim is the one the row is under, and the delivery is neither refused nor in doubt.
Sure(p, k) ==
    /\ \E t \in Nat: Mine(p, k, t) /\ Owned(row[k], t)
    /\ Todo(p, k) \/ Told(p, k)

\* What need not be sent again.
Arrived(k) == got[k] > 0 \/ (k \in Cards /\ kind[k[1]] = "quiet")

\* Nothing was done about k yet.
Fresh(k) == got[k] = 0 /\ \A p \in Senders, t \in Nat: ~Mine(p, k, t)

\* The card of push k is settled and nobody is about to fan it out: k is not written again.
Dead(k) ==
    /\ row[Card(k[1])].state \in Settled
    /\ \A p \in Senders: ~(/\ sender[p].pc = "fanout"
                           /\ \E t \in Nat: sender[p].item = <<Card(k[1]), t>>)

\* What the place of a sender says of its record.
SenderFits(s) ==
    /\ s.pc \in {"claim", "due"} => s.item = <<>> /\ s.batch = {}
    /\ s.pc \in {"fanout", "send", "mark"} =>
          s.batch = {} /\ \E n \in Notes, t \in Nat: s.item = <<Card(n), t>>
    /\ s.pc = "batch" => s.item = <<>>
    /\ s.pc \in {"disable", "pushmark"} => s.item \in s.batch
    /\ \A it \in s.batch: it[1] \in Pushes
    /\ \A k \in Keys, t, u \in Nat: <<k, t>> \in s.batch /\ <<k, u>> \in s.batch => t = u
    /\ s.pc = "disable" => s.answer # "ok"

\* Types.
TablesFit ==
    /\ row \in [Keys -> Row]
    /\ kind \in [Notes -> Kinds]
    /\ got \in [Keys -> Nat] /\ doubt \in [Keys -> Nat]
    /\ sender \in [Senders -> SenderRecords]
    /\ \A p \in Senders: SenderFits(sender[p])

\* A claim is numbered by its row, and has one holder.
Numbered(k) ==
    /\ row[k].claimed => row[k].state = "pending"
    /\ \A p \in Senders, t \in Nat:
          Mine(p, k, t) /\ row[k].state # "none" => t <= row[k].attempts
    /\ \A p, q \in Senders, t \in Nat: Mine(p, k, t) /\ Mine(q, k, t) => p = q
    /\ \A p \in Senders, t, u \in Nat: Mine(p, k, t) /\ Mine(p, k, u) => t = u

\* What arrived and what may still be sent is covered by the doubts, but for one; and for
\* all of it when a row can be claimed, or its holder is not sure of a delivery.
Covered(k) ==
    /\ got[k] + Unsent(k) <= 1 + doubt[k]
    /\ row[k].state = "pending" /\ (row[k].claimed => row[k].lapsed) =>
          got[k] + Unsent(k) <= doubt[k]
    /\ row[k].claimed /\ got[k] + Unsent(k) > doubt[k] => \E p \in Senders: Sure(p, k)

\* A row that is missing was never written, or will not be again.
Missing(k) == row[k].state = "none" => Fresh(k) \/ (k \in Pushes /\ Dead(k))

\* What is booked, and what is about to be booked, has arrived.
Booked(k) ==
    /\ row[k].state = "sent" => Arrived(k)
    /\ \A p \in Senders: Told(p, k) => Arrived(k)

KeyInv(k) == Numbered(k) /\ Covered(k) /\ Missing(k) /\ Booked(k)

OutboxInv == TablesFit /\ \A k \in Keys: KeyInv(k)

-----------------------------------------------------------------------------
(* Facts about the data.                                                   *)

\* A card is no push, and both are keys.
LEMMA CardsAndPushes ==
    /\ \A n \in Notes: Card(n) \in Keys /\ Card(n) \in Cards /\ Card(n)[1] = n
    /\ \A k \in Pushes: k \in Keys /\ k \notin Cards /\ k[1] \in Notes /\ k[2] \in Subs
    /\ \A k \in Cards: k \notin Pushes /\ k \in Keys /\ \E n \in Notes: k = Card(n)
    /\ \A k \in Keys: k \in Cards \/ k \in Pushes
BY DEF Cards, Card, Pushes, Keys

\* There is a lowest among numbers.
LEMMA LowestExists ==
    ASSUME NEW S \in SUBSET Nat, S # {}
    PROVE  Lowest(S) \in S
<1>1. PICK n \in S : \A k \in S : ~ (<<k, n>> \in OpToRel(<, Nat))
  BY NatLessThanWellFounded, WFMin
<1>2. \A k \in S : ~ (k < n)
  BY <1>1 DEF OpToRel
<1>3. \E m \in S : \A k \in S : m <= k
  BY <1>2
<1> QED BY <1>3 DEF Lowest

\* A claimed row is of the number it is claimed under.
LEMMA ClaimedRow ==
    ASSUME NEW r \in Row, NEW a \in Nat
    PROVE  /\ Claimed(r, a) \in Row /\ Claimed(r, a).state = r.state /\ Claimed(r, a).claimed
           /\ ~Claimed(r, a).lapsed /\ Claimed(r, a).attempts = a /\ Claimed(r, a).due = r.due
BY Zenon DEF Claimed, Row

\* The record of one sender, by its fields.
LEMMA SenderFields ==
    ASSUME TablesFit, NEW p \in Senders
    PROVE  /\ sender \in [Senders -> SenderRecords]
           /\ sender[p] \in SenderRecords /\ SenderFits(sender[p])
           /\ sender[p].pc \in Pcs /\ sender[p].item \in {<<>>} \cup Items
           /\ sender[p].answer \in Answers /\ sender[p].batch \in SUBSET Items
BY DEF TablesFit, SenderRecords

\* No sender holds the next number of a row, nor one beyond it.
LEMMA NumberIsFresh ==
    ASSUME TablesFit, NEW k \in Keys, KeyInv(k), row[k].state # "none"
    PROVE  /\ NextNumber(k) \in Nat
           /\ \A q \in Senders, t \in Nat: Mine(q, k, t) => t < NextNumber(k)
<1> DEFINE next == row[k].attempts + 1
           S == {n \in Fewest(MaxClaims, next)..next: \A t \in InHand(k): t < n}
<1>1. row[k].attempts \in Nat /\ next \in Nat /\ Fewest(MaxClaims, next) \in Nat
      /\ Fewest(MaxClaims, next) <= next
  BY DEF TablesFit, Row, Fewest
<1>2. \A q \in Senders, t \in Nat: Mine(q, k, t) => t < next
  BY <1>1 DEF KeyInv, Numbered
<1>3. ASSUME NEW t \in InHand(k) PROVE t < next
  <2>0. PICK q \in Senders : \E i \in sender[q].batch \cup {sender[q].item} :
          i # <<>> /\ i[1] = k /\ i[2] = t
    BY DEF InHand
  <2>1. PICK i \in sender[q].batch \cup {sender[q].item} :
          i # <<>> /\ i[1] = k /\ i[2] = t
    BY <2>0
  <2>2. i \in Items
    BY <2>1, SenderFields
  <2>3. t \in Nat /\ i = <<k, t>>
    BY <2>1, <2>2 DEF Items
  <2>4. Mine(q, k, t)
    BY <2>1, <2>3 DEF Mine
  <2> QED BY <1>2, <2>3, <2>4
<1>4. ASSUME NEW q \in Senders, NEW t \in Nat, Mine(q, k, t) PROVE t \in InHand(k)
  <2>1. PICK item : item = <<k, t>>
    OBVIOUS
  <2>2. item # <<>> /\ item[1] = k /\ item[2] = t
    BY <2>1
  <2>3. item \in UNION {sender[p].batch \cup {sender[p].item}: p \in Senders}
    BY <1>4, <2>1 DEF Mine
  <2> QED BY <2>2, <2>3 DEF InHand
<1>5. next \in S /\ S \in SUBSET Nat
  BY <1>1, <1>3
<1>6. Lowest(S) \in S
  BY <1>5, LowestExists
<1>7. NextNumber(k) \in S
  BY <1>6 DEF NextNumber
<1> QED BY <1>4, <1>5, <1>7

\* A released row keeps its number.
LEMMA ReleasedRow ==
    ASSUME NEW r \in Row, NEW state \in {"none", "pending"} \cup Settled, NEW due \in BOOLEAN
    PROVE  /\ Released(r, state, due) \in Row /\ Released(r, state, due).state = state
           /\ ~Released(r, state, due).claimed
           /\ Released(r, state, due).attempts = r.attempts
BY Zenon DEF Released, Row

\* What booking an answer makes of a row.
LEMMA MarkedRow ==
    ASSUME NEW r \in Row, NEW token \in Nat, NEW answer \in Answers, NEW limit
    PROVE  /\ Marked(r, token, answer, limit) \in Row
           /\ Marked(r, token, answer, limit).attempts = r.attempts
           /\ ~Owned(r, token) => Marked(r, token, answer, limit) = r
           /\ Owned(r, token) =>
                 /\ ~Marked(r, token, answer, limit).claimed
                 /\ IF answer = "ok" THEN Marked(r, token, answer, limit).state = "sent"
                    ELSE Marked(r, token, answer, limit).state \in {"pending", "failed"}
<1>0. r.due \in BOOLEAN /\ {"sent", "failed"} \subseteq Settled
  BY DEF Row, Settled
<1>1. CASE ~Owned(r, token)
  BY <1>1 DEF Marked
<1>2. CASE Owned(r, token) /\ answer = "ok"
  <2>1. Marked(r, token, answer, limit) = Released(r, "sent", r.due)
    BY <1>2 DEF Marked
  <2> QED BY <1>0, <1>2, <2>1, ReleasedRow
<1>3. CASE Owned(r, token) /\ answer # "ok"
  <2>1. PICK state \in {"pending", "failed"}, due \in BOOLEAN :
          Marked(r, token, answer, limit) = Released(r, state, due)
    BY <1>0, <1>3 DEF Marked
  <2>2. state \in {"none", "pending"} \cup Settled
    BY <1>0
  <2>3. LET m == Released(r, state, due)
        IN  m \in Row /\ m.state = state /\ ~m.claimed /\ m.attempts = r.attempts
    BY <2>2, ReleasedRow
  <2> QED BY <1>3, <2>1, <2>3
<1> QED BY <1>1, <1>2, <1>3

\* The rows before and after an INSERT.
LEMMA NewRows ==
    /\ NoRow \in Row /\ NoRow.state = "none" /\ ~NoRow.claimed
    /\ NewRow \in Row /\ NewRow.state = "pending" /\ ~NewRow.claimed
<1>1. NoRow \in Row /\ NoRow.state = "none" /\ ~NoRow.claimed
  BY DEF NoRow, Row
<1>2. NewRow \in Row /\ NewRow.state = "pending" /\ ~NewRow.claimed
  BY <1>1, Zenon DEF NewRow, Row
<1> QED BY <1>1, <1>2

\* One sender at a time changes the number of those who may still send.
LEMMA UnsentMoves ==
    ASSUME NEW k, NEW p \in Senders,
           \A q \in Senders \ {p}: Todo(q, k)' <=> Todo(q, k)
    PROVE  /\ Unsent(k) \in Nat /\ Unsent(k)' \in Nat
           /\ (Todo(p, k)' <=> Todo(p, k)) => Unsent(k)' = Unsent(k)
           /\ Todo(p, k)' /\ ~Todo(p, k) => Unsent(k)' = Unsent(k) + 1
           /\ ~Todo(p, k)' /\ Todo(p, k) => Unsent(k)' + 1 = Unsent(k)
<1> DEFINE U == {q \in Senders: Todo(q, k)}
           V == {q \in Senders: Todo(q, k)'}
<1>1. IsFiniteSet(U) /\ IsFiniteSet(V)
  BY FS_Subset
<1>2. Cardinality(U) \in Nat /\ Cardinality(V) \in Nat
  BY <1>1, FS_CardinalityType
<1>3. Unsent(k) = Cardinality(U) /\ Unsent(k)' = Cardinality(V)
  BY DEF Unsent
<1>4. ASSUME Todo(p, k)' <=> Todo(p, k) PROVE U = V
  BY <1>4
<1>5. ASSUME Todo(p, k)', ~Todo(p, k) PROVE V = U \cup {p} /\ p \notin U
  BY <1>5
<1>6. ASSUME ~Todo(p, k)', Todo(p, k) PROVE U = V \cup {p} /\ p \notin V
  BY <1>6
<1> HIDE DEF U, V
<1>7. \A S: IsFiniteSet(S) /\ p \notin S => Cardinality(S \cup {p}) = Cardinality(S) + 1
  BY FS_AddElement
<1> QED BY <1>1, <1>2, <1>3, <1>4, <1>5, <1>6, <1>7

-----------------------------------------------------------------------------
(* What one step does to one key.  In these lemmas p is the sender that    *)
(* moves, if one does; what the others hold stays.                         *)

\* Sender q stands to key k as before.
SameFor(q, k) ==
    /\ \A t \in Nat: Mine(q, k, t)' <=> Mine(q, k, t)
    /\ Todo(q, k)' <=> Todo(q, k)
    /\ Told(q, k)' <=> Told(q, k)

\* The facts of one key that a step may not disturb.
OnlyBy(p, k) ==
    /\ \A q \in Senders \ {p}: SameFor(q, k)
    /\ \A t \in Nat: Mine(p, k, t)' => Mine(p, k, t)
    /\ k \in Pushes /\ Dead(k) => Dead(k)'
    /\ row'[k] \in Row /\ got'[k] \in Nat /\ doubt'[k] \in Nat

\* A sender makes its call, drops what it held, or does nothing about k.  The row stays.
LEMMA RowStays ==
    ASSUME TablesFit, NEW k \in Keys, KeyInv(k), NEW p \in Senders, OnlyBy(p, k),
           row'[k] = row[k],
           got'[k] \in {got[k], got[k] + 1}, doubt'[k] \in {doubt[k], doubt[k] + 1},
           Todo(p, k)' => Todo(p, k),
           got'[k] # got[k] => Todo(p, k) /\ ~Todo(p, k)',
           Told(p, k)' => Arrived(k)',
           Arrived(k) => Arrived(k)',
           Sure(p, k) => \/ Sure(p, k)'
                         \/ doubt'[k] = doubt[k] + 1
                         \/ Todo(p, k) /\ ~Todo(p, k)' /\ got'[k] = got[k]
    PROVE  KeyInv(k)'
<1>0. row[k] \in Row /\ got[k] \in Nat /\ doubt[k] \in Nat
  BY DEF TablesFit
<1>1. Numbered(k)'
  <2>1. \A q \in Senders, t \in Nat: Mine(q, k, t)' => Mine(q, k, t)
    BY DEF OnlyBy, SameFor
  <2> QED BY <2>1 DEF KeyInv, Numbered
<1>2. /\ Unsent(k) \in Nat /\ Unsent(k)' \in Nat
      /\ Todo(p, k) <=> Todo(p, k)' => Unsent(k)' = Unsent(k)
      /\ Todo(p, k) /\ ~Todo(p, k)' => Unsent(k)' + 1 = Unsent(k)
  BY UnsentMoves DEF OnlyBy, SameFor
<1>3. got'[k] + Unsent(k)' <= got[k] + Unsent(k)
  BY <1>0, <1>2
<1>4. Covered(k)'
  <2>1. /\ got'[k] + Unsent(k)' <= 1 + doubt'[k]
        /\ row'[k].state = "pending" /\ (row'[k].claimed => row'[k].lapsed) =>
              got'[k] + Unsent(k)' <= doubt'[k]
    BY <1>0, <1>2, <1>3 DEF KeyInv, Covered
  <2>2. ASSUME row'[k].claimed, got'[k] + Unsent(k)' > doubt'[k]
        PROVE  \E q \in Senders: Sure(q, k)'
    <3>1. got[k] + Unsent(k) > doubt[k]
      BY <1>0, <1>2, <1>3, <2>2
    <3>2. PICK q \in Senders : Sure(q, k)
      BY <2>2, <3>1 DEF KeyInv, Covered
    <3>3. CASE q # p
      <4>1. SameFor(q, k)
        BY <3>3 DEF OnlyBy
      <4>2. Sure(q, k)'
        BY <3>2, <4>1 DEF Sure, SameFor
      <4> QED BY <4>2
    <3>4. CASE q = p
      <4>1. doubt'[k] # doubt[k] + 1
        BY <1>0, <1>2, <1>3, <2>2 DEF KeyInv, Covered
      <4>2. ~(Todo(p, k) /\ ~Todo(p, k)' /\ got'[k] = got[k])
        BY <1>0, <1>2, <2>2 DEF KeyInv, Covered
      <4> QED BY <3>2, <3>4, <4>1, <4>2
    <3> QED BY <3>3, <3>4
  <2> QED BY <2>1, <2>2 DEF Covered
<1>5. Missing(k)'
  <2>1. ASSUME Fresh(k) PROVE Fresh(k)'
    <3>1. \A q \in Senders, t \in Nat: ~Mine(q, k, t)'
      BY <2>1 DEF OnlyBy, SameFor, Fresh
    <3>2. ~Todo(p, k)
      BY <2>1 DEF Fresh, Todo
    <3> QED BY <2>1, <3>1, <3>2 DEF Fresh
  <2> QED BY <2>1 DEF KeyInv, Missing, OnlyBy
<1>6. Booked(k)'
  <2>1. \A q \in Senders \ {p}: Told(q, k)' => Arrived(k)'
    BY DEF KeyInv, Booked, OnlyBy, SameFor
  <2>2. row'[k].state = "sent" => Arrived(k)'
    BY DEF KeyInv, Booked
  <2> QED BY <2>1, <2>2 DEF Booked
<1> QED BY <1>1, <1>4, <1>5, <1>6 DEF KeyInv

\* Nothing happens to k, and nobody's view of it changes.
LEMMA KeyStays ==
    ASSUME TablesFit, NEW k \in Keys, KeyInv(k), \A q \in Senders: SameFor(q, k),
           row'[k] = row[k], got'[k] = got[k], doubt'[k] = doubt[k],
           Arrived(k) => Arrived(k)',
           k \in Pushes /\ Dead(k) => Dead(k)'
    PROVE  KeyInv(k)'
<1>0. row[k] \in Row /\ got[k] \in Nat /\ doubt[k] \in Nat
  BY DEF TablesFit
<1>1. \A q \in Senders: (Todo(q, k)' <=> Todo(q, k)) /\ (Sure(q, k) => Sure(q, k)')
  BY DEF SameFor, Sure
<1>2. Unsent(k)' = Unsent(k)
  BY <1>1 DEF Unsent
<1>3. Numbered(k)'
  BY DEF KeyInv, Numbered, SameFor
<1>4. Covered(k)'
  BY <1>0, <1>1, <1>2 DEF KeyInv, Covered
<1>5. Missing(k)'
  BY DEF KeyInv, Missing, SameFor, Fresh
<1>6. Booked(k)'
  BY DEF KeyInv, Booked, SameFor
<1> QED BY <1>3, <1>4, <1>5, <1>6 DEF KeyInv

\* A claimable row is claimed, by a sender that held nothing of it.
LEMMA RowClaimed ==
    ASSUME TablesFit, NEW k \in Keys, KeyInv(k), NEW p \in Senders,
           \A q \in Senders \ {p}: SameFor(q, k),
           k \in Pushes /\ Dead(k) => Dead(k)',
           NEW a \in Nat,
           \A q \in Senders, t \in Nat: Mine(q, k, t) => t < a,
           Claimable(row[k]), row'[k] = Claimed(row[k], a),
           got'[k] = got[k], doubt'[k] = doubt[k],
           \A t \in Nat: ~Mine(p, k, t) /\ (Mine(p, k, t)' <=> t = a),
           Todo(p, k)', ~Told(p, k)',
           Arrived(k) => Arrived(k)'
    PROVE  KeyInv(k)'
<1>0. row[k] \in Row /\ got[k] \in Nat /\ doubt[k] \in Nat /\ row[k].attempts \in Nat
  BY DEF TablesFit, Row
<1>1. /\ row[k].state = "pending" /\ (row[k].claimed => row[k].lapsed)
      /\ row'[k] \in Row /\ row'[k].state = "pending" /\ row'[k].claimed /\ ~row'[k].lapsed
      /\ row'[k].attempts = a
  <2>1. PICK r \in Row : r = row[k]
    BY <1>0
  <2>2. LET m == Claimed(r, a)
        IN  m \in Row /\ m.state = r.state /\ m.claimed /\ ~m.lapsed /\ m.attempts = a
    BY ClaimedRow
  <2> QED BY <2>1, <2>2 DEF Claimable
<1>2. ~Todo(p, k)
  BY DEF Todo
<1>3. /\ Unsent(k) \in Nat /\ Unsent(k)' = Unsent(k) + 1
  BY <1>2, UnsentMoves DEF SameFor
<1>4. Numbered(k)'
  <2>1. \A q \in Senders \ {p}, t \in Nat: Mine(q, k, t)' => t < a
    BY <1>1 DEF SameFor
  <2>2. \A q \in Senders, t \in Nat: Mine(q, k, t)' => t <= a
    BY <1>0, <2>1
  <2>3. \A q, u \in Senders, t \in Nat: Mine(q, k, t)' /\ Mine(u, k, t)' => q = u
    <3> SUFFICES ASSUME NEW q \in Senders, NEW u \in Senders, NEW t \in Nat,
                        Mine(q, k, t)', Mine(u, k, t)', q # u
                 PROVE  FALSE
      OBVIOUS
    <3>1. CASE q # p /\ u # p
      BY <3>1 DEF SameFor, KeyInv, Numbered
    <3>2. CASE q = p \/ u = p
      BY <1>0, <2>1, <3>2
    <3> QED BY <3>1, <3>2
  <2>4. \A q \in Senders, t, u \in Nat: Mine(q, k, t)' /\ Mine(q, k, u)' => t = u
    <3> SUFFICES ASSUME NEW q \in Senders, NEW t \in Nat, NEW u \in Nat,
                        Mine(q, k, t)', Mine(q, k, u)'
                 PROVE  t = u
      OBVIOUS
    <3>1. CASE q # p
      BY <3>1 DEF SameFor, KeyInv, Numbered
    <3>2. CASE q = p
      BY <3>2
    <3> QED BY <3>1, <3>2
  <2> QED BY <1>1, <2>2, <2>3, <2>4 DEF Numbered
<1>5. Covered(k)'
  <2>1. got[k] + Unsent(k) <= doubt[k]
    BY <1>1 DEF KeyInv, Covered
  <2>2. Sure(p, k)'
    <3>1. PICK t \in Nat : t = a
      BY <1>0
    <3>2. Mine(p, k, t)'
      BY <3>1
    <3>3. Owned(row[k], t)'
      BY <1>1, <3>1 DEF Owned
    <3> QED BY <3>2, <3>3 DEF Sure
  <2> QED BY <1>0, <1>1, <1>3, <2>1, <2>2 DEF Covered
<1>6. Missing(k)'
  BY <1>1 DEF Missing
<1>7. Booked(k)'
  BY <1>1 DEF Booked, KeyInv, SameFor
<1> QED BY <1>4, <1>5, <1>6, <1>7 DEF KeyInv

\* Sender p books its answer under claim t, and drops it.
LEMMA RowMarked ==
    ASSUME TablesFit, NEW k \in Keys, KeyInv(k), NEW p \in Senders, NEW t \in Nat,
           NEW answer \in Answers, NEW limit,
           \A q \in Senders \ {p}: SameFor(q, k),
           k \in Pushes /\ Dead(k) => Dead(k)',
           Mine(p, k, t), Made(p, k), answer = "ok" <=> Told(p, k),
           row'[k] = Marked(row[k], t, answer, limit),
           got'[k] = got[k], doubt'[k] = doubt[k],
           \A u \in Nat: ~Mine(p, k, u)', ~Told(p, k)',
           Arrived(k) => Arrived(k)'
    PROVE  KeyInv(k)'
<1>0. row[k] \in Row /\ got[k] \in Nat /\ doubt[k] \in Nat
  BY DEF TablesFit
<1>1. ~Todo(p, k) /\ ~Todo(p, k)'
  BY DEF Todo
<1>2. Unsent(k) \in Nat /\ Unsent(k)' = Unsent(k)
  BY <1>1, UnsentMoves DEF SameFor
<1>3. CASE ~Owned(row[k], t)
  <2>1. row'[k] = row[k]
    BY <1>0, <1>3, MarkedRow
  <2>2. ~Sure(p, k)
    BY <1>3 DEF Sure, KeyInv, Numbered
  <2>3. OnlyBy(p, k)
    BY <1>0, <2>1 DEF OnlyBy
  <2> QED BY <1>0, <1>1, <2>1, <2>2, <2>3, RowStays
<1>4. CASE Owned(row[k], t)
  <2>1. /\ row[k].state = "pending" /\ row[k].claimed /\ row[k].attempts = t
        /\ row'[k].attempts = t /\ ~row'[k].claimed
        /\ IF answer = "ok" THEN row'[k].state = "sent"
           ELSE row'[k].state \in {"pending", "failed"}
    BY <1>0, <1>4, MarkedRow DEF Owned
  <2>2. answer # "ok" => got[k] + Unsent(k) <= doubt[k]
    <3> SUFFICES ASSUME answer # "ok", got[k] + Unsent(k) > doubt[k] PROVE FALSE
      BY <1>0, <1>2
    <3>1. PICK q \in Senders : Sure(q, k)
      BY <2>1 DEF KeyInv, Covered
    <3>2. Mine(q, k, t)
      BY <2>1, <3>1 DEF Sure, Owned
    <3>3. q = p
      BY <3>2 DEF KeyInv, Numbered
    <3> QED BY <1>1, <3>1, <3>3 DEF Sure
  <2>3. Numbered(k)'
    <3>1. \A q \in Senders, u \in Nat: Mine(q, k, u)' => Mine(q, k, u)
      BY DEF SameFor
    <3> QED BY <2>1, <3>1 DEF KeyInv, Numbered
  <2>4. Covered(k)'
    BY <1>0, <1>2, <2>1, <2>2 DEF KeyInv, Covered
  <2>5. Missing(k)'
    BY <2>1 DEF Missing
  <2>6. Booked(k)'
    BY <2>1 DEF Booked, KeyInv, SameFor
  <2> QED BY <2>3, <2>4, <2>5, <2>6 DEF KeyInv
<1> QED BY <1>3, <1>4

\* A row ends although nobody was sent it: a payload that is no object.
LEMMA RowRefused ==
    ASSUME TablesFit, NEW k \in Keys, KeyInv(k), \A q \in Senders: SameFor(q, k),
           k \in Pushes /\ Dead(k) => Dead(k)',
           row[k].state = "pending", row'[k].state = "failed", ~row'[k].claimed,
           row'[k].attempts \in Nat,
           \A q \in Senders, t \in Nat: Mine(q, k, t) => t < row'[k].attempts,
           got'[k] = got[k], doubt'[k] = doubt[k],
           Arrived(k) => Arrived(k)'
    PROVE  KeyInv(k)'
<1>0. row[k] \in Row /\ got[k] \in Nat /\ doubt[k] \in Nat /\ row[k].attempts \in Nat
  BY DEF TablesFit, Row
<1>1. Unsent(k)' = Unsent(k)
  BY DEF SameFor, Unsent
<1>2. Numbered(k)'
  <2>2. \A q \in Senders, t \in Nat: Mine(q, k, t)' => t <= row'[k].attempts
    BY DEF SameFor
  <2> QED BY <2>2 DEF SameFor, KeyInv, Numbered
<1>3. Covered(k)'
  BY <1>1 DEF KeyInv, Covered
<1>4. Missing(k)' /\ Booked(k)'
  BY DEF Missing, KeyInv, Booked, SameFor
<1> QED BY <1>2, <1>3, <1>4 DEF KeyInv

\* A lease lapses: a doubt when its holder is at work.
LEMMA RowLapses ==
    ASSUME TablesFit, NEW k \in Keys, KeyInv(k), \A q \in Senders: SameFor(q, k),
           k \in Pushes /\ Dead(k) => Dead(k)',
           row[k].claimed, ~row[k].lapsed,
           row'[k] = [row[k] EXCEPT !.lapsed = TRUE],
           got'[k] = got[k], doubt'[k] \in {doubt[k], doubt[k] + 1},
           (\E q \in Senders: Sure(q, k)) => doubt'[k] = doubt[k] + 1,
           Arrived(k) => Arrived(k)'
    PROVE  KeyInv(k)'
<1>0. row[k] \in Row /\ got[k] \in Nat /\ doubt[k] \in Nat
  BY DEF TablesFit
<1>1. /\ row'[k].state = row[k].state /\ row'[k].claimed /\ row'[k].lapsed
      /\ row'[k].attempts = row[k].attempts
  BY <1>0, Zenon DEF Row
<1>2. Unsent(k)' = Unsent(k)
  BY DEF SameFor, Unsent
<1>3. Unsent(k) \in Nat
  <2>1. IsFiniteSet({q \in Senders: Todo(q, k)})
    BY FS_Subset
  <2> QED BY <2>1, FS_CardinalityType DEF Unsent
<1>4. got'[k] + Unsent(k)' <= doubt'[k]
  BY <1>0, <1>2, <1>3 DEF KeyInv, Covered
<1>5. Numbered(k)'
  BY <1>1 DEF KeyInv, Numbered, SameFor
<1>6. Covered(k)'
  <2>1. doubt'[k] \in Nat
    BY <1>0
  <2> QED BY <1>0, <1>1, <1>2, <1>3, <1>4, <2>1 DEF Covered
<1>7. Missing(k)' /\ Booked(k)'
  BY <1>1 DEF Missing, KeyInv, Numbered, Booked, SameFor
<1> QED BY <1>5, <1>6, <1>7 DEF KeyInv

\* A row that was never written is written.
LEMMA RowWritten ==
    ASSUME TablesFit, NEW k \in Keys, KeyInv(k), \A q \in Senders: SameFor(q, k),
           row[k].state = "none", Fresh(k), row'[k] = NewRow,
           got'[k] = got[k], doubt'[k] = doubt[k]
    PROVE  KeyInv(k)'
<1>0. got[k] = 0 /\ doubt[k] \in Nat /\ \A q \in Senders, t \in Nat: ~Mine(q, k, t)
  BY DEF TablesFit, Fresh
<1>1. row'[k].state = "pending" /\ ~row'[k].claimed
  BY NewRows
<1>2. \A q \in Senders, t \in Nat: ~Mine(q, k, t)'
  BY <1>0 DEF SameFor
<1>3. \A q \in Senders: ~Todo(q, k)' /\ ~Told(q, k)'
  BY <1>2 DEF Todo, Told, Mine
<1>4. Unsent(k)' = 0
  <2>1. {q \in Senders: Todo(q, k)'} = {}
    BY <1>3
  <2> QED BY <2>1, FS_EmptySet DEF Unsent
<1> QED BY <1>0, <1>1, <1>2, <1>3, <1>4 DEF KeyInv, Numbered, Covered, Missing, Booked

\* Nothing but the time of the next attempt changes.
LEMMA RowFallsDue ==
    ASSUME TablesFit, NEW k \in Keys, KeyInv(k), \A q \in Senders: SameFor(q, k),
           k \in Pushes /\ Dead(k) => Dead(k)',
           row'[k] = [row[k] EXCEPT !.due = TRUE],
           got'[k] = got[k], doubt'[k] = doubt[k],
           Arrived(k) => Arrived(k)'
    PROVE  KeyInv(k)'
<1>0. row[k] \in Row
  BY DEF TablesFit
<1>1. /\ row'[k].state = row[k].state /\ row'[k].claimed = row[k].claimed
      /\ row'[k].lapsed = row[k].lapsed /\ row'[k].attempts = row[k].attempts
  BY <1>0, Zenon DEF Row
<1>2. \A q \in Senders: /\ Todo(q, k)' <=> Todo(q, k)
                        /\ Sure(q, k) => Sure(q, k)'
  BY <1>1 DEF SameFor, Sure, Owned
<1>3. Unsent(k)' = Unsent(k)
  BY <1>2 DEF Unsent
<1>4. Numbered(k)' /\ Covered(k)'
  BY <1>1, <1>2, <1>3 DEF KeyInv, Numbered, Covered, SameFor
<1>5. Missing(k)' /\ Booked(k)'
  BY <1>1 DEF KeyInv, Missing, Booked, Fresh, SameFor
<1> QED BY <1>4, <1>5 DEF KeyInv

\* A push is pruned with its card settled and nobody at work on its notification.
LEMMA RowPruned ==
    ASSUME TablesFit, NEW k \in Pushes, KeyInv(k), \A q \in Senders: SameFor(q, k),
           Dead(k)', row[k].state \in Settled, row'[k] = NoRow,
           got'[k] = got[k], doubt'[k] = doubt[k]
    PROVE  KeyInv(k)'
<1>1. row'[k].state = "none" /\ ~row'[k].claimed
  BY NewRows
<1>2. Unsent(k)' = Unsent(k)
  BY DEF SameFor, Unsent
<1>3. Numbered(k)' /\ Covered(k)'
  BY <1>1, <1>2 DEF KeyInv, Numbered, Covered, SameFor
<1>4. Arrived(k) => Arrived(k)'
  BY CardsAndPushes DEF Arrived
<1>5. Missing(k)' /\ Booked(k)'
  BY <1>1, <1>4 DEF KeyInv, Missing, Booked, SameFor
<1> QED BY <1>3, <1>5 DEF KeyInv

-----------------------------------------------------------------------------
(* What the actions share.                                                 *)

\* A sender whose record stays stands to every key as before.
LEMMA SameSender ==
    ASSUME NEW q, NEW k, sender'[q] = sender[q]
    PROVE  SameFor(q, k)
BY DEF SameFor, Mine, Todo, Told, Made

\* A sender that holds nothing of a key, before and after.
LEMMA Unconcerned ==
    ASSUME NEW q, NEW k, \A t \in Nat: ~Mine(q, k, t) /\ ~Mine(q, k, t)'
    PROVE  SameFor(q, k)
BY DEF SameFor, Mine, Todo, Told, Made

\* What arrived stays so while no notification is written.
LEMMA ArrivedStays ==
    ASSUME NEW k \in Keys, kind' = kind, got[k] \in Nat, got'[k] \in Nat, got'[k] >= got[k]
    PROVE  Arrived(k) => Arrived(k)'
BY DEF Arrived

\* One sender's record changes.
LEMMA SenderMoves ==
    ASSUME TablesFit, NEW p \in Senders, NEW g \in SenderRecords, SenderFits(g),
           sender' = [sender EXCEPT ![p] = g]
    PROVE  /\ sender' \in [Senders -> SenderRecords] /\ \A q \in Senders: SenderFits(sender'[q])
           /\ sender'[p] = g
           /\ \A q \in Senders \ {p}: sender'[q] = sender[q]
           /\ \A q \in Senders \ {p}, k \in Keys: SameFor(q, k)
<1>1. /\ sender' \in [Senders -> SenderRecords] /\ sender'[p] = g
      /\ \A q \in Senders \ {p}: sender'[q] = sender[q]
  BY DEF TablesFit
<1>2. \A q \in Senders: SenderFits(sender'[q])
  BY <1>1 DEF TablesFit
<1> QED BY <1>1, <1>2, SameSender

\* A settled card stays settled, and only a pending one is taken to be fanned out.
LEMMA DeadStays ==
    ASSUME TablesFit, NEW k \in Pushes, Dead(k), NEW p \in Senders,
           \A q \in Senders \ {p}: sender'[q] = sender[q],
           \A c \in Cards: row[c].state \in Settled => row'[c].state \in Settled,
           \A t \in Nat: sender'[p].pc = "fanout" /\ sender'[p].item = <<Card(k[1]), t>> =>
               \/ sender[p].pc = "fanout" /\ sender[p].item = <<Card(k[1]), t>>
               \/ row[Card(k[1])].state = "pending"
    PROVE  Dead(k)'
<1>1. Card(k[1]) \in Cards
  BY CardsAndPushes
<1>2. row[Card(k[1])].state # "pending"
  BY DEF Dead, Settled
<1> QED BY <1>1, <1>2 DEF Dead

\* The tables are whole, and the senders, when rows and counts are.
LEMMA TablesStay ==
    ASSUME row' \in [Keys -> Row], kind' \in [Notes -> Kinds],
           got' \in [Keys -> Nat], doubt' \in [Keys -> Nat],
           sender' \in [Senders -> SenderRecords], \A q \in Senders: SenderFits(sender'[q])
    PROVE  TablesFit'
BY DEF TablesFit

-----------------------------------------------------------------------------
(* The Telegram lane.                                                      *)

\* Claim: the oldest claimable row, which is failed at once when its payload is no object.
LEMMA ClaimKeeps ==
    ASSUME OutboxInv, NEW p \in Senders, Claim(p)
    PROVE  OutboxInv'
<1>0. /\ TablesFit /\ \A k \in Keys: KeyInv(k) /\ row[k] \in Row /\ got[k] \in Nat
      /\ UNCHANGED <<kind, got, doubt>>
      /\ row \in [Keys -> Row]
      /\ sender[p].pc = "claim" /\ sender[p].item = <<>> /\ sender[p].batch = {}
      /\ sender \in [Senders -> SenderRecords] /\ sender[p] \in SenderRecords
  BY SenderFields DEF OutboxInv, TablesFit, Claim, SenderFits
<1>1. PICK n \in Notes :
        LET mine == Claimed(row[Card(n)], NextNumber(Card(n)))
        IN  /\ Claimable(row[Card(n)])
            /\ \/ /\ row' = [row EXCEPT ![Card(n)] = Released(mine, "failed", mine.due)]
                  /\ sender' = [sender EXCEPT ![p].pc = "due"]
               \/ /\ row' = [row EXCEPT ![Card(n)] = mine]
                  /\ sender' = [sender EXCEPT ![p].pc = "fanout",
                                              ![p].item = <<Card(n), mine.attempts>>]
  <2>1. Lowest(ClaimableNotes) \in ClaimableNotes
    <3>1. ClaimableNotes \in SUBSET Nat /\ ClaimableNotes # {}
      BY DEF Claim, ClaimableNotes
    <3> QED BY <3>1, LowestExists
  <2>2. PICK n \in Notes : n = Lowest(ClaimableNotes) /\ Claimable(row[Card(n)])
    BY <2>1 DEF ClaimableNotes
  <2> QED BY <2>2, Zenon DEF Claim
<1>2. PICK c \in Cards : c = Card(n) /\ c \in Keys
  BY CardsAndPushes
<1>3. PICK r \in Row : r = row[c]
  BY <1>0, <1>2
<1>4. PICK a \in Nat : /\ a = NextNumber(c)
                       /\ \A q \in Senders, t \in Nat: Mine(q, c, t) => t < a
  <2>1. row[c].state # "none"
    BY <1>1, <1>2 DEF Claimable
  <2> QED BY <1>0, <1>2, <2>1, NumberIsFresh
<1>5. /\ Claimed(r, a) \in Row /\ Claimed(r, a).state = r.state /\ Claimed(r, a).attempts = a
      /\ r.state = "pending" /\ Claimed(r, a).due \in BOOLEAN
  BY <1>1, <1>2, <1>3, <1>4, ClaimedRow DEF Claimable, Row
<1>6. \A k \in Keys: Arrived(k) => Arrived(k)'
  BY <1>0, ArrivedStays
<1>7. \A k \in Keys, t \in Nat: ~Mine(p, k, t)
  BY <1>0 DEF Mine
<1>8. CASE /\ row' = [row EXCEPT ![c] = Released(Claimed(r, a), "failed", Claimed(r, a).due)]
           /\ sender' = [sender EXCEPT ![p].pc = "due"]
  <2> DEFINE g == [sender[p] EXCEPT !.pc = "due"]
             m == Released(Claimed(r, a), "failed", Claimed(r, a).due)
  <2>1. "due" \in Pcs /\ "failed" \in {"none", "pending"} \cup Settled /\ "failed" \in Settled
    BY DEF Pcs, Settled
  <2>2. g \in SenderRecords /\ g.pc = "due" /\ g.item = <<>> /\ g.batch = {}
    BY <1>0, <2>1, Zenon DEF SenderRecords
  <2>3. sender' = [sender EXCEPT ![p] = g]
    BY <1>0, <1>8, Zenon
  <2> HIDE DEF g
  <2>4. SenderFits(g)
    BY <2>2 DEF SenderFits
  <2>5. /\ sender' \in [Senders -> SenderRecords] /\ \A q \in Senders: SenderFits(sender'[q])
        /\ sender'[p] = g /\ \A q \in Senders \ {p}: sender'[q] = sender[q]
        /\ \A q \in Senders \ {p}, k \in Keys: SameFor(q, k)
    BY <1>0, <2>2, <2>3, <2>4, SenderMoves
  <2>6. m \in Row /\ m.state = "failed" /\ ~m.claimed /\ m.attempts = a
    BY <1>5, <2>1, ReleasedRow
  <2>7. row' \in [Keys -> Row] /\ row'[c] = m /\ \A k \in Keys \ {c}: row'[k] = row[k]
    BY <1>0, <1>2, <1>8, <2>6
  <2> HIDE DEF m
  <2>8. \A q \in Senders, k \in Keys: SameFor(q, k)
    <3>1. ASSUME NEW k \in Keys, NEW t \in Nat
          PROVE  ~Mine(p, k, t)'
      <4>1. <<k, t>> # <<>>
        OBVIOUS
      <4> QED BY <2>2, <2>5, <4>1 DEF Mine
    <3> QED BY <1>7, <2>5, <3>1, Unconcerned
  <2>9. \A k \in Pushes: Dead(k) => Dead(k)'
    <3>1. \A d \in Cards: row[d].state \in Settled => row'[d].state \in Settled
      BY <1>2, <2>1, <2>6, <2>7, CardsAndPushes
    <3>2. sender'[p].pc # "fanout"
      BY <2>2, <2>5
    <3> QED BY <1>0, <2>5, <3>1, <3>2, DeadStays
  <2>10. KeyInv(c)'
    <3>1. /\ row[c].state = "pending" /\ row'[c].state = "failed" /\ ~row'[c].claimed
          /\ row'[c].attempts = a /\ row'[c].attempts \in Nat
          /\ got'[c] = got[c] /\ doubt'[c] = doubt[c]
      BY <1>0, <1>2, <1>3, <1>4, <1>5, <2>6, <2>7
    <3> QED BY <1>0, <1>2, <1>4, <1>6, <2>8, <2>9, <3>1, RowRefused
  <2>11. \A k \in Keys \ {c}: KeyInv(k)'
    BY <1>0, <1>6, <2>7, <2>8, <2>9, KeyStays
  <2>12. TablesFit'
    BY <1>0, <2>5, <2>7, TablesStay DEF TablesFit
  <2> QED BY <2>10, <2>11, <2>12 DEF OutboxInv
<1>9. CASE /\ row' = [row EXCEPT ![c] = Claimed(r, a)]
           /\ sender' = [sender EXCEPT ![p].pc = "fanout", ![p].item = <<c, a>>]
  <2> DEFINE g == [sender[p] EXCEPT !.pc = "fanout", !.item = <<c, a>>]
  <2>1. "fanout" \in Pcs /\ <<c, a>> \in {<<>>} \cup Items
    BY <1>2, <1>4 DEF Pcs, Items
  <2>2. g \in SenderRecords /\ g.pc = "fanout" /\ g.item = <<c, a>> /\ g.batch = {}
    BY <1>0, <2>1, Zenon DEF SenderRecords
  <2>3. sender' = [sender EXCEPT ![p] = g]
    BY <1>0, <1>9, Zenon
  <2> HIDE DEF g
  <2>4. SenderFits(g)
    BY <1>2, <1>4, <2>2 DEF SenderFits
  <2>5. /\ sender' \in [Senders -> SenderRecords] /\ \A q \in Senders: SenderFits(sender'[q])
        /\ sender'[p] = g /\ \A q \in Senders \ {p}: sender'[q] = sender[q]
        /\ \A q \in Senders \ {p}, k \in Keys: SameFor(q, k)
    BY <1>0, <2>2, <2>3, <2>4, SenderMoves
  <2>7. /\ row' \in [Keys -> Row] /\ row'[c] = Claimed(r, a)
        /\ \A k \in Keys \ {c}: row'[k] = row[k]
    BY <1>0, <1>2, <1>5, <1>9
  <2>8. \A k \in Keys \ {c}, q \in Senders: SameFor(q, k)
    <3>1. ASSUME NEW k \in Keys \ {c}, NEW t \in Nat
          PROVE  ~Mine(p, k, t)'
      <4>1. <<k, t>> # <<c, a>>
        OBVIOUS
      <4> QED BY <2>2, <2>5, <4>1 DEF Mine
    <3> QED BY <1>7, <2>5, <3>1, Unconcerned
  <2>9. \A k \in Pushes: Dead(k) => Dead(k)'
    <3>1. \A d \in Cards: row[d].state \in Settled => row'[d].state \in Settled
      BY <1>2, <1>3, <1>5, <2>7, CardsAndPushes
    <3>2. \A d \in Cards, t \in Nat: sender'[p].item = <<d, t>> => row[d].state = "pending"
      BY <1>3, <1>5, <2>2, <2>5
    <3>3. \A k \in Pushes: Card(k[1]) \in Cards
      BY CardsAndPushes
    <3> QED BY <1>0, <2>5, <3>1, <3>2, <3>3, DeadStays
  <2>10. KeyInv(c)'
    <3>1. \A t \in Nat: ~Mine(p, c, t) /\ (Mine(p, c, t)' <=> t = a)
      <4>1. \A t \in Nat: <<c, t>> = <<c, a>> <=> t = a
        OBVIOUS
      <4> QED BY <1>2, <1>7, <2>2, <2>5, <4>1 DEF Mine
    <3>2. Todo(p, c)' /\ ~Told(p, c)'
      <4>1. Mine(p, c, a)'
        BY <2>2, <2>5 DEF Mine
      <4> QED BY <1>4, <2>2, <2>5, <4>1 DEF Todo, Told, Made
    <3>3. /\ Claimable(row[c]) /\ row'[c] = Claimed(row[c], a)
          /\ \A q \in Senders, t \in Nat: Mine(q, c, t) => t < a
      BY <1>1, <1>2, <1>3, <1>4, <2>7
    <3> QED BY <1>0, <1>2, <1>6, <2>5, <2>9, <3>1, <3>2, <3>3, RowClaimed
  <2>11. \A k \in Keys \ {c}: KeyInv(k)'
    BY <1>0, <1>6, <2>7, <2>8, <2>9, KeyStays
  <2>12. TablesFit'
    BY <1>0, <2>5, <2>7, TablesStay DEF TablesFit
  <2> QED BY <2>10, <2>11, <2>12 DEF OutboxInv
<1> QED BY <1>1, <1>2, <1>3, <1>4, <1>5, <1>8, <1>9

\* ClaimNothing: on to the push lane.
LEMMA ClaimNothingKeeps ==
    ASSUME OutboxInv, NEW p \in Senders, ClaimNothing(p)
    PROVE  OutboxInv'
<1>0. /\ TablesFit /\ (\A k \in Keys: KeyInv(k) /\ got[k] \in Nat)
      /\ UNCHANGED <<row, kind, got, doubt>>
      /\ sender[p].pc = "claim" /\ sender[p].item = <<>> /\ sender[p].batch = {}
      /\ sender \in [Senders -> SenderRecords] /\ sender[p] \in SenderRecords
      /\ sender' = [sender EXCEPT ![p].pc = "due"]
  BY SenderFields DEF OutboxInv, TablesFit, ClaimNothing, SenderFits
<1> DEFINE g == [sender[p] EXCEPT !.pc = "due"]
<1>1. "due" \in Pcs
  BY DEF Pcs
<1>2. g \in SenderRecords /\ g.pc = "due" /\ g.item = <<>> /\ g.batch = {}
  BY <1>0, <1>1, Zenon DEF SenderRecords
<1>3. sender' = [sender EXCEPT ![p] = g]
  BY <1>0, Zenon
<1> HIDE DEF g
<1>4. SenderFits(g)
  BY <1>2 DEF SenderFits
<1>5. /\ sender' \in [Senders -> SenderRecords] /\ \A q \in Senders: SenderFits(sender'[q])
      /\ sender'[p] = g /\ \A q \in Senders \ {p}: sender'[q] = sender[q]
      /\ \A q \in Senders \ {p}, k \in Keys: SameFor(q, k)
  BY <1>0, <1>2, <1>3, <1>4, SenderMoves
<1>6. \A k \in Keys: SameFor(p, k)
  <2>1. \A k \in Keys, t \in Nat: <<k, t>> # <<>>
    OBVIOUS
  <2>2. \A k \in Keys, t \in Nat: ~Mine(p, k, t) /\ ~Mine(p, k, t)'
    BY <1>0, <1>2, <1>5, <2>1 DEF Mine
  <2> QED BY <2>2, Unconcerned
<1>7. \A k \in Pushes: Dead(k) => Dead(k)'
  BY <1>0, <1>2, <1>5, DeadStays
<1>8. \A k \in Keys: Arrived(k) => Arrived(k)'
  BY <1>0, ArrivedStays
<1>9. \A k \in Keys: KeyInv(k)'
  BY <1>0, <1>5, <1>6, <1>7, <1>8, KeyStays
<1>10. TablesFit'
  BY <1>0, <1>5, TablesStay DEF TablesFit
<1> QED BY <1>9, <1>10 DEF OutboxInv

\* What a sender at work on a card holds.
LEMMA CardInHand ==
    ASSUME TablesFit, NEW p \in Senders, sender[p].pc \in {"fanout", "send", "mark"}
    PROVE  \E n \in Notes, t \in Nat:
              /\ sender[p].item = <<Card(n), t>> /\ sender[p].batch = {}
              /\ \A k \in Keys, u \in Nat: Mine(p, k, u) <=> k = Card(n) /\ u = t
<1>1. PICK n \in Notes, t \in Nat : sender[p].item = <<Card(n), t>> /\ sender[p].batch = {}
  BY SenderFields DEF SenderFits
<1>2. ASSUME NEW k \in Keys, NEW u \in Nat
      PROVE  Mine(p, k, u) <=> k = Card(n) /\ u = t
  <2>1. <<k, u>> = <<Card(n), t>> <=> k = Card(n) /\ u = t
    OBVIOUS
  <2> QED BY <1>1, <2>1 DEF Mine
<1> QED BY <1>1, <1>2

\* FanOut: a push that is missing is written for the first time, for the card is in hand.
LEMMA FanOutKeeps ==
    ASSUME OutboxInv, NEW p \in Senders, FanOut(p)
    PROVE  OutboxInv'
<1>0. /\ TablesFit /\ (\A k \in Keys: KeyInv(k) /\ row[k] \in Row /\ got[k] \in Nat)
      /\ (\A k \in Keys: doubt[k] \in Nat)
      /\ UNCHANGED <<kind, got, doubt>> /\ row \in [Keys -> Row]
      /\ sender[p].pc = "fanout"
      /\ sender \in [Senders -> SenderRecords] /\ sender[p] \in SenderRecords
  BY SenderFields DEF OutboxInv, TablesFit, FanOut
<1>1. PICK n \in Notes, t \in Nat :
        /\ sender[p].item = <<Card(n), t>> /\ sender[p].batch = {}
        /\ \A k \in Keys, u \in Nat: Mine(p, k, u) <=> k = Card(n) /\ u = t
  BY <1>0, CardInHand
<1>2. PICK c \in Cards : c = Card(n) /\ c \in Keys /\ c[1] = n
  BY CardsAndPushes
<1> DEFINE quiet == kind[n] = "quiet"
           pc == IF quiet THEN "mark" ELSE "send"
           answer == IF quiet THEN "ok" ELSE "none"
           g == [sender[p] EXCEPT !.pc = pc, !.answer = answer]
<1>3. sender' = [sender EXCEPT ![p] = g]
  <2>1. sender[p].item[1][1] = n
    BY <1>1, <1>2
  <2> QED BY <1>0, <2>1, Zenon DEF FanOut
<1>4. pc \in Pcs /\ pc \in {"mark", "send"} /\ answer \in Answers
      /\ (quiet => pc = "mark" /\ answer = "ok") /\ (~quiet => pc = "send")
  BY DEF Pcs, Answers
<1> HIDE DEF pc, answer
<1>5. /\ g \in SenderRecords /\ g.pc = pc /\ g.answer = answer /\ g.item = <<c, t>>
      /\ g.batch = {}
  BY <1>0, <1>1, <1>2, <1>4, Zenon DEF SenderRecords
<1> HIDE DEF g
<1>6. SenderFits(g)
  BY <1>2, <1>4, <1>5 DEF SenderFits
<1>7. /\ sender' \in [Senders -> SenderRecords] /\ \A q \in Senders: SenderFits(sender'[q])
      /\ sender'[p] = g /\ \A q \in Senders \ {p}: sender'[q] = sender[q]
      /\ \A q \in Senders \ {p}, k \in Keys: SameFor(q, k)
  BY <1>0, <1>3, <1>5, <1>6, SenderMoves
<1>8. \A k \in Keys, u \in Nat: Mine(p, k, u)' <=> Mine(p, k, u)
  BY <1>1, <1>2, <1>5, <1>7 DEF Mine
<1>9. \A k \in Keys \ {c}: SameFor(p, k)
  <2>1. \A k \in Keys \ {c}, u \in Nat: ~Mine(p, k, u) /\ ~Mine(p, k, u)'
    BY <1>1, <1>2, <1>8
  <2> QED BY <2>1, Unconcerned
<1>10. PICK W \in SUBSET Pushes :
        /\ \A k \in W: k[1] = n
        /\ row' = [k \in Keys |-> IF k \in W THEN FannedOut(k) ELSE row[k]]
  <2>1. CASE UNCHANGED row
    <3> DEFINE W == {k \in Pushes: FALSE}
    <3>1. W \in SUBSET Pushes /\ \A k \in W: k[1] = n
      OBVIOUS
    <3>2. row' = [k \in Keys |-> IF k \in W THEN FannedOut(k) ELSE row[k]]
      BY <1>0, <2>1
    <3> HIDE DEF W
    <3> QED BY <3>1, <3>2
  <2>2. CASE row' = [k \in Keys |-> IF k \in {n} \X {s \in Subs: sub[s] = "enabled"}
                                    THEN FannedOut(k) ELSE row[k]]
    <3> DEFINE W == {n} \X {s \in Subs: sub[s] = "enabled"}
    <3>1. W \in SUBSET Pushes /\ \A k \in W: k[1] = n
      BY DEF Pushes
    <3> QED BY <2>2, <3>1
  <2>3. sender[p].item[1][1] = n
    BY <1>1, <1>2
  <2> QED BY <2>1, <2>2, <2>3 DEF FanOut
<1>11. /\ \A k \in Keys: \/ row'[k] = row[k]
                         \/ k \in W /\ row[k].state = "none" /\ row'[k] = NewRow
       /\ row' \in [Keys -> Row] /\ row'[c] = row[c]
  <2>1. \A k \in Keys: \/ row'[k] = row[k]
                       \/ k \in W /\ row[k].state = "none" /\ row'[k] = NewRow
    BY <1>10 DEF FannedOut
  <2>2. \A k \in Keys: row'[k] \in Row
    BY <1>0, <2>1, NewRows
  <2>3. row' \in [Keys -> Row]
    BY <1>10, <2>2
  <2>4. row'[c] = row[c]
    BY <1>2, <1>10, CardsAndPushes
  <2> QED BY <2>1, <2>3, <2>4
<1>12. \A k \in Keys: Arrived(k) => Arrived(k)'
  BY <1>0, ArrivedStays
<1>13. \A k \in Pushes: Dead(k) => Dead(k)'
  <2>1. \A d \in Cards: row'[d] = row[d]
    BY <1>10, CardsAndPushes
  <2>2. sender'[p].pc # "fanout"
    BY <1>4, <1>5, <1>7
  <2> QED BY <1>0, <1>7, <2>1, <2>2, DeadStays
<1>14. ASSUME NEW k \in Keys, k # c PROVE KeyInv(k)'
  <2>1. \A q \in Senders: SameFor(q, k)
    BY <1>7, <1>9, <1>14
  <2>2. CASE row'[k] = row[k]
    BY <1>0, <1>12, <1>13, <2>1, <2>2, KeyStays
  <2>3. CASE k \in W /\ row[k].state = "none" /\ row'[k] = NewRow
    <3>1. ~Dead(k)
      <4>1. k[1] = n
        BY <1>10, <2>3
      <4> QED BY <1>0, <1>1, <4>1 DEF Dead
    <3>2. Fresh(k)
      BY <1>0, <2>3, <3>1 DEF KeyInv, Missing
    <3> QED BY <1>0, <2>1, <2>3, <3>2, RowWritten
  <2> QED BY <1>11, <2>2, <2>3
<1>15. KeyInv(c)'
  <2>1. Todo(p, c)
    BY <1>0, <1>1, <1>2 DEF Todo, Made
  <2>2. Told(p, c)' => Arrived(c)'
    <3>1. Told(p, c)' => quiet
      BY <1>4, <1>5, <1>7 DEF Told
    <3> QED BY <1>0, <1>2, <3>1 DEF Arrived
  <2>3. OnlyBy(p, c)
    BY <1>0, <1>2, <1>7, <1>8, <1>11, <1>13 DEF OnlyBy
  <2>4. Sure(p, c) => Sure(p, c)' \/ (Todo(p, c) /\ ~Todo(p, c)' /\ got'[c] = got[c])
    <3>1. row'[c] = row[c] /\ got'[c] = got[c]
      BY <1>0, <1>11
    <3>2. CASE Todo(p, c)'
      BY <1>2, <1>8, <3>1, <3>2 DEF Sure
    <3> QED BY <2>1, <3>1, <3>2
  <2> QED BY <1>0, <1>2, <1>11, <1>12, <2>1, <2>2, <2>3, <2>4, RowStays
<1>16. TablesFit'
  BY <1>0, <1>7, <1>11, TablesStay DEF TablesFit
<1> QED BY <1>14, <1>15, <1>16 DEF OutboxInv

-----------------------------------------------------------------------------
(* The provider call and the booking of its answer, in both lanes.         *)

\* What a provider's answer adds to the counts.
LEMMA AnswerCounts ==
    ASSUME TablesFit, NEW k \in Keys, NEW reply, Answered(k, reply)
    PROVE  /\ got' \in [Keys -> Nat] /\ doubt' \in [Keys -> Nat]
           /\ \A j \in Keys \ {k}: got'[j] = got[j] /\ doubt'[j] = doubt[j]
           /\ got'[k] = IF Arrives(reply) THEN got[k] + 1 ELSE got[k]
           /\ doubt'[k] = IF reply \in {"lost", "timeout"} THEN doubt[k] + 1 ELSE doubt[k]
BY DEF TablesFit, Answered

\* A sender makes its call for key k: what was to do is done, and told, refused or doubted.
LEMMA CallKeeps ==
    ASSUME OutboxInv, NEW p \in Senders, NEW k \in Keys, NEW t \in Nat,
           sender[p].pc \in {"send", "batch"}, Mine(p, k, t),
           sender[p].item \in {<<>>, <<k, t>>},
           NEW reply, Answered(k, reply), UNCHANGED <<row, kind>>,
           NEW g \in SenderRecords, SenderFits(g), sender' = [sender EXCEPT ![p] = g],
           g.item = <<k, t>>, g.batch = sender[p].batch,
           g.pc \in {"mark", "disable", "pushmark"}, g.answer = Classified(reply)
    PROVE  OutboxInv'
<1>0. /\ TablesFit /\ (\A j \in Keys: KeyInv(j) /\ row[j] \in Row)
      /\ (\A j \in Keys: got[j] \in Nat /\ doubt[j] \in Nat)
  BY DEF OutboxInv, TablesFit
<1>1. /\ sender' \in [Senders -> SenderRecords] /\ \A q \in Senders: SenderFits(sender'[q])
      /\ sender'[p] = g /\ \A q \in Senders \ {p}: sender'[q] = sender[q]
      /\ \A q \in Senders \ {p}, j \in Keys: SameFor(q, j)
  BY <1>0, SenderMoves
<1>2. /\ got' \in [Keys -> Nat] /\ doubt' \in [Keys -> Nat]
      /\ \A j \in Keys \ {k}: got'[j] = got[j] /\ doubt'[j] = doubt[j]
      /\ got'[k] = IF Arrives(reply) THEN got[k] + 1 ELSE got[k]
      /\ doubt'[k] = IF reply \in {"lost", "timeout"} THEN doubt[k] + 1 ELSE doubt[k]
  BY <1>0, AnswerCounts
<1>3. \A j \in Keys, u \in Nat: Mine(p, j, u)' <=> Mine(p, j, u)
  <2> SUFFICES ASSUME NEW j \in Keys, NEW u \in Nat
               PROVE  Mine(p, j, u)' <=> Mine(p, j, u)
    OBVIOUS
  <2>1. <<j, u>> # <<>> /\ (<<j, u>> = <<k, t>> <=> j = k /\ u = t)
    OBVIOUS
  <2>2. Mine(p, j, u)' <=> <<j, u>> \in sender[p].batch \/ <<j, u>> = <<k, t>>
    BY <1>1 DEF Mine
  <2>3. CASE j = k /\ u = t
    BY <2>2, <2>3
  <2>4. CASE ~(j = k /\ u = t)
    BY <2>1, <2>2, <2>4 DEF Mine
  <2> QED BY <2>3, <2>4
<1>4. \A j \in Keys: ~Made(p, j) /\ ~Told(p, j)
  BY DEF Made, Told
<1>5. ASSUME NEW j \in Keys, j # k PROVE KeyInv(j)'
  <2>1. \A u \in Nat: <<k, t>> # <<j, u>>
    BY <1>5
  <2>2. ~Made(p, j)' /\ ~Told(p, j)'
    BY <1>1, <2>1 DEF Made, Told
  <2>3. SameFor(p, j)
    BY <1>3, <1>4, <2>2 DEF SameFor, Todo
  <2>4. j \in Pushes /\ Dead(j) => Dead(j)'
    BY <1>0, <1>1, DeadStays
  <2>5. Arrived(j) => Arrived(j)'
    BY <1>0, <1>2, <1>5 DEF Arrived
  <2> QED BY <1>0, <1>1, <1>2, <1>5, <2>3, <2>4, <2>5, KeyStays
<1>6. KeyInv(k)'
  <2>1. Made(p, k)' /\ ~Todo(p, k)'
    BY <1>1 DEF Made, Todo
  <2>2. Todo(p, k)
    BY <1>4 DEF Todo
  <2>3. k \in Pushes /\ Dead(k) => Dead(k)'
    BY <1>0, <1>1, DeadStays
  <2>4. OnlyBy(p, k)
    BY <1>0, <1>1, <1>2, <1>3, <2>3 DEF OnlyBy
  <2>5. Told(p, k)' => reply = "ok"
    BY <1>1 DEF Told, Classified
  <2>6. Told(p, k)' => Arrived(k)'
    BY <1>0, <1>2, <2>5 DEF Arrived, Arrives
  <2>7. Arrived(k) => Arrived(k)'
    BY <1>0, <1>2 DEF Arrived
  <2>8. ASSUME Sure(p, k)
        PROVE  \/ Sure(p, k)' \/ doubt'[k] = doubt[k] + 1
               \/ Todo(p, k) /\ ~Todo(p, k)' /\ got'[k] = got[k]
    <3>1. CASE reply \in {"lost", "timeout"}
      BY <1>2, <3>1
    <3>2. CASE reply \notin {"ok", "lost", "timeout"}
      BY <1>2, <2>1, <2>2, <3>2 DEF Arrives
    <3>3. CASE reply = "ok"
      <4>1. g.answer = "ok"
        BY <3>3 DEF Classified
      <4>2. Told(p, k)' \/ sender'[p].pc = "disable"
        BY <1>1, <4>1 DEF Told
      <4>3. Told(p, k)'
        BY <1>1, <4>1, <4>2 DEF SenderFits
      <4> QED BY <1>3, <2>8, <4>3 DEF Sure
    <3> QED BY <3>1, <3>2, <3>3
  <2> QED BY <1>0, <1>2, <2>1, <2>2, <2>4, <2>6, <2>7, <2>8, RowStays
<1>7. TablesFit'
  BY <1>0, <1>1, <1>2, TablesStay DEF TablesFit
<1> QED BY <1>5, <1>6, <1>7 DEF OutboxInv

\* A sender books the answer for key k under its claim, and lets go of it.
LEMMA BookKeeps ==
    ASSUME OutboxInv, NEW p \in Senders, NEW k \in Keys, NEW t \in Nat,
           NEW limit \in Nat,
           sender[p].pc \in {"mark", "pushmark"}, sender[p].item = <<k, t>>,
           row' = [row EXCEPT ![k] = Marked(row[k], t, sender[p].answer, limit)],
           UNCHANGED <<kind, got, doubt>>,
           NEW g \in SenderRecords, SenderFits(g), sender' = [sender EXCEPT ![p] = g],
           g.item = <<>>, g.batch = sender[p].batch \ {<<k, t>>},
           g.pc \in {"due", "claim", "batch"}
    PROVE  OutboxInv'
<1>0. /\ TablesFit /\ (\A j \in Keys: KeyInv(j) /\ row[j] \in Row)
      /\ (\A j \in Keys: got[j] \in Nat /\ doubt[j] \in Nat)
      /\ row \in [Keys -> Row] /\ sender[p].answer \in Answers
  BY SenderFields DEF OutboxInv, TablesFit
<1>1. /\ sender' \in [Senders -> SenderRecords] /\ \A q \in Senders: SenderFits(sender'[q])
      /\ sender'[p] = g /\ \A q \in Senders \ {p}: sender'[q] = sender[q]
      /\ \A q \in Senders \ {p}, j \in Keys: SameFor(q, j)
  BY <1>0, SenderMoves
<1>2. PICK answer \in Answers, m \in Row :
        answer = sender[p].answer /\ m = Marked(row[k], t, answer, limit)
  BY <1>0, MarkedRow
<1>3. row' \in [Keys -> Row] /\ row'[k] = m /\ \A j \in Keys \ {k}: row'[j] = row[j]
  BY <1>0, <1>2
<1>4. Mine(p, k, t) /\ Made(p, k) /\ (answer = "ok" <=> Told(p, k))
  BY <1>2 DEF Mine, Made, Told
<1>5. \A j \in Keys: ~Told(p, j)' /\ ~Made(p, j)'
  BY <1>1 DEF Told, Made
<1>6. \A u \in Nat: ~Mine(p, k, u)'
  <2> SUFFICES ASSUME NEW u \in Nat, Mine(p, k, u)' PROVE FALSE
    OBVIOUS
  <2>1. <<k, u>> # <<>>
    OBVIOUS
  <2>2. <<k, u>> \in sender[p].batch /\ <<k, u>> # <<k, t>>
    BY <1>1, <2>1 DEF Mine
  <2>3. Mine(p, k, u)
    BY <2>2 DEF Mine
  <2>4. u = t
    BY <1>0, <1>4, <2>3 DEF KeyInv, Numbered
  <2> QED BY <2>2, <2>4
<1>7. \A j \in Keys: Arrived(j) => Arrived(j)'
  BY <1>0, ArrivedStays
<1>8. \A j \in Pushes: Dead(j) => Dead(j)'
  <2>1. ASSUME NEW c \in Cards, row[c].state \in Settled PROVE row'[c].state \in Settled
    <3>1. c = k => ~Owned(row[k], t)
      BY <2>1 DEF Owned, Settled
    <3>2. row'[c] = row[c]
      BY <1>0, <1>2, <1>3, <3>1, MarkedRow, CardsAndPushes
    <3> QED BY <2>1, <3>2
  <2>2. sender'[p].pc # "fanout"
    BY <1>1
  <2> QED BY <1>0, <1>1, <2>1, <2>2, DeadStays
<1>9. ASSUME NEW j \in Keys, j # k PROVE KeyInv(j)'
  <2>1. \A u \in Nat: <<j, u>> # <<k, t>> /\ <<j, u>> # <<>>
    BY <1>9
  <2>2. \A u \in Nat: Mine(p, j, u)' <=> Mine(p, j, u)
    BY <1>1, <2>1 DEF Mine
  <2>3. ~Made(p, j) /\ ~Told(p, j)
    BY <2>1 DEF Made, Told
  <2>4. SameFor(p, j)
    BY <1>5, <2>2, <2>3 DEF SameFor, Todo
  <2> QED BY <1>0, <1>1, <1>3, <1>7, <1>8, <1>9, <2>4, KeyStays
<1>10. KeyInv(k)'
  BY <1>0, <1>1, <1>2, <1>3, <1>4, <1>5, <1>6, <1>7, <1>8, RowMarked
<1>11. TablesFit'
  BY <1>0, <1>1, <1>3, TablesStay DEF TablesFit
<1> QED BY <1>9, <1>10, <1>11 DEF OutboxInv

\* Send: the Telegram call for the card in hand.
LEMMA SendKeeps ==
    ASSUME OutboxInv, NEW p \in Senders, Send(p)
    PROVE  OutboxInv'
<1>0. TablesFit /\ sender[p].pc = "send" /\ UNCHANGED <<row, kind>>
  BY DEF OutboxInv, Send
<1>1. PICK n \in Notes, t \in Nat :
        /\ sender[p].item = <<Card(n), t>> /\ sender[p].batch = {}
        /\ \A k \in Keys, u \in Nat: Mine(p, k, u) <=> k = Card(n) /\ u = t
  BY <1>0, CardInHand
<1>2. PICK c \in Keys : c = Card(n)
  BY CardsAndPushes
<1>3. PICK reply \in {"ok", "lost", "retry", "refused"} :
        /\ Answered(c, reply)
        /\ sender' = [sender EXCEPT ![p].pc = "mark", ![p].answer = Classified(reply)]
  <2>1. sender[p].item[1] = c
    BY <1>1, <1>2
  <2> QED BY <2>1, Zenon DEF Send
<1>4. PICK answer \in Answers : answer = Classified(reply)
  BY DEF Classified, Answers
<1> DEFINE g == [sender[p] EXCEPT !.pc = "mark", !.answer = answer]
<1>5. sender \in [Senders -> SenderRecords] /\ sender[p] \in SenderRecords /\ "mark" \in Pcs
  BY <1>0, SenderFields DEF Pcs
<1>6. sender' = [sender EXCEPT ![p] = g]
  BY <1>3, <1>4, <1>5, Zenon
<1>7. /\ g \in SenderRecords /\ g.pc = "mark" /\ g.answer = answer /\ g.item = <<c, t>>
      /\ g.batch = {}
  BY <1>1, <1>2, <1>5, Zenon DEF SenderRecords
<1> HIDE DEF g
<1>8. SenderFits(g)
  BY <1>2, <1>7 DEF SenderFits
<1>9. Mine(p, c, t) /\ sender[p].item \in {<<>>, <<c, t>>} /\ g.batch = sender[p].batch
  BY <1>1, <1>2, <1>7
<1>10. /\ sender[p].pc \in {"send", "batch"} /\ g.pc \in {"mark", "disable", "pushmark"}
       /\ g.answer = Classified(reply) /\ Answered(c, reply) /\ g.item = <<c, t>>
  BY <1>0, <1>3, <1>4, <1>7
<1> QED BY <1>0, <1>6, <1>7, <1>8, <1>9, <1>10, CallKeeps, Zenon

\* Mark: the answer of the Telegram call.
LEMMA MarkKeeps ==
    ASSUME OutboxInv, NEW p \in Senders, Mark(p)
    PROVE  OutboxInv'
<1>0. TablesFit /\ sender[p].pc = "mark" /\ UNCHANGED <<kind, got, doubt>>
  BY DEF OutboxInv, Mark
<1>1. PICK n \in Notes, t \in Nat : sender[p].item = <<Card(n), t>> /\ sender[p].batch = {}
  BY <1>0, CardInHand
<1>2. PICK c \in Keys : c = Card(n)
  BY CardsAndPushes
<1>3. /\ row' = [row EXCEPT ![c] = Marked(row[c], t, sender[p].answer, MaxAttempts)]
      /\ sender' = [sender EXCEPT ![p] = [AtStart EXCEPT !.pc = "due"]]
  <2>1. sender[p].item[1] = c /\ sender[p].item[2] = t
    BY <1>1, <1>2
  <2>2. row \in [Keys -> Row]
    BY <1>0 DEF TablesFit
  <2> QED BY <2>1, <2>2 DEF Mark
<1> DEFINE g == [AtStart EXCEPT !.pc = "due"]
<1>4. g \in SenderRecords /\ g.pc = "due" /\ g.item = <<>> /\ g.batch = {}
  BY DEF AtStart, SenderRecords, Pcs, Answers
<1>5. sender' = [sender EXCEPT ![p] = g]
  BY <1>3
<1> HIDE DEF g
<1>6. SenderFits(g)
  BY <1>4 DEF SenderFits
<1>7. g.batch = sender[p].batch \ {<<c, t>>}
  BY <1>1, <1>4
<1>8. /\ sender[p].pc \in {"mark", "pushmark"} /\ g.pc \in {"due", "claim", "batch"}
      /\ sender[p].item = <<c, t>> /\ g.item = <<>>
  BY <1>0, <1>1, <1>2, <1>4
<1>9. row' = [row EXCEPT ![c] = Marked(row[c], t, sender[p].answer, MaxAttempts)]
  BY <1>3
<1>10. g \in SenderRecords /\ UNCHANGED <<kind, got, doubt>> /\ MaxAttempts \in Nat
  BY <1>0, <1>4
<1> QED BY <1>5, <1>6, <1>7, <1>8, <1>9, <1>10, BookKeeps, Zenon

-----------------------------------------------------------------------------
(* The push lane.                                                          *)

\* ClaimDue: every push of the batch is claimed, and held by nobody else.
LEMMA ClaimDueKeeps ==
    ASSUME OutboxInv, NEW p \in Senders, ClaimDue(p)
    PROVE  OutboxInv'
<1>0. /\ TablesFit /\ (\A k \in Keys: KeyInv(k) /\ row[k] \in Row /\ row[k].attempts \in Nat)
      /\ (\A k \in Keys: got[k] \in Nat)
      /\ UNCHANGED <<kind, got, doubt>> /\ row \in [Keys -> Row]
      /\ sender[p].pc = "due" /\ sender[p].item = <<>> /\ sender[p].batch = {}
      /\ sender \in [Senders -> SenderRecords] /\ sender[p] \in SenderRecords
  BY SenderFields DEF OutboxInv, TablesFit, ClaimDue, SenderFits, Row
<1>1. PICK B \in SUBSET DuePushes :
        /\ row' = [k \in Keys |-> IF k \in B THEN Claimed(row[k], NextNumber(k)) ELSE row[k]]
        /\ sender' = [sender EXCEPT ![p].pc = IF B = {} THEN "claim" ELSE "batch",
                                    ![p].batch = {<<k, NextNumber(k)>>: k \in B}]
  BY DEF ClaimDue
<1>2. \A k \in B: /\ k \in Pushes /\ k \in Keys /\ Claimable(row[k])
                   /\ NextNumber(k) \in Nat
                   /\ \A q \in Senders, t \in Nat: Mine(q, k, t) => t < NextNumber(k)
  BY <1>0, CardsAndPushes, NumberIsFresh DEF DuePushes, Claimable
<1> DEFINE pc == IF B = {} THEN "claim" ELSE "batch"
           batch == {<<k, NextNumber(k)>>: k \in B}
           g == [sender[p] EXCEPT !.pc = pc, !.batch = batch]
<1>3. sender' = [sender EXCEPT ![p] = g]
  BY <1>0, <1>1, Zenon
<1>4. \A k \in Keys, t \in Nat: <<k, t>> \in batch <=> k \in B /\ t = NextNumber(k)
  OBVIOUS
<1>5. batch \in SUBSET Items /\ (\A it \in batch: it[1] \in Pushes) /\ (B = {} => batch = {})
  BY <1>0, <1>2 DEF Items
<1>6. pc \in Pcs /\ pc \in {"claim", "batch"} /\ (pc = "claim" => B = {})
  BY DEF Pcs
<1> HIDE DEF pc, batch
<1>7. g \in SenderRecords /\ g.pc = pc /\ g.batch = batch /\ g.item = <<>>
  BY <1>0, <1>5, <1>6, Zenon DEF SenderRecords
<1> HIDE DEF g
<1>8. SenderFits(g)
  BY <1>4, <1>5, <1>6, <1>7 DEF SenderFits
<1>9. /\ sender' \in [Senders -> SenderRecords] /\ \A q \in Senders: SenderFits(sender'[q])
      /\ sender'[p] = g /\ \A q \in Senders \ {p}: sender'[q] = sender[q]
      /\ \A q \in Senders \ {p}, k \in Keys: SameFor(q, k)
  BY <1>0, <1>3, <1>7, <1>8, SenderMoves
<1>10. ASSUME NEW k \in Keys, NEW t \in Nat
       PROVE  ~Mine(p, k, t) /\ (Mine(p, k, t)' <=> k \in B /\ t = NextNumber(k))
  <2>1. <<k, t>> # <<>>
    OBVIOUS
  <2> QED BY <1>0, <1>4, <1>7, <1>9, <2>1 DEF Mine
<1>11. /\ \A k \in Keys: row'[k] = IF k \in B THEN Claimed(row[k], NextNumber(k)) ELSE row[k]
       /\ row' \in [Keys -> Row]
  BY <1>0, <1>1, <1>2, ClaimedRow
<1>12. \A k \in Keys: Arrived(k) => Arrived(k)'
  BY <1>0, ArrivedStays
<1>13. \A k \in Pushes: Dead(k) => Dead(k)'
  <2>1. \A c \in Cards: row'[c] = row[c]
    BY <1>2, <1>11, CardsAndPushes
  <2>2. sender'[p].pc # "fanout"
    BY <1>6, <1>7, <1>9
  <2> QED BY <1>0, <1>9, <2>1, <2>2, DeadStays
<1>14. ASSUME NEW k \in B PROVE KeyInv(k)'
  <2>1. k \in Keys /\ Claimable(row[k]) /\ row'[k] = Claimed(row[k], NextNumber(k))
    BY <1>2, <1>11
  <2>2. \A t \in Nat: ~Mine(p, k, t) /\ (Mine(p, k, t)' <=> t = NextNumber(k))
    BY <1>10, <2>1
  <2>3. Todo(p, k)' /\ ~Told(p, k)'
    <3>1. PICK t \in Nat : t = NextNumber(k)
      BY <1>2
    <3>2. Mine(p, k, t)'
      BY <2>2, <3>1
    <3> QED BY <1>6, <1>7, <1>9, <3>2 DEF Todo, Told, Made
  <2> QED BY <1>0, <1>2, <1>9, <1>12, <1>13, <2>1, <2>2, <2>3, RowClaimed
<1>15. ASSUME NEW k \in Keys, k \notin B PROVE KeyInv(k)'
  <2>1. \A t \in Nat: ~Mine(p, k, t) /\ ~Mine(p, k, t)'
    BY <1>10, <1>15
  <2>2. \A q \in Senders: SameFor(q, k)
    BY <1>9, <2>1, Unconcerned
  <2> QED BY <1>0, <1>11, <1>12, <1>13, <1>15, <2>2, KeyStays
<1>16. TablesFit'
  BY <1>0, <1>9, <1>11, TablesStay DEF TablesFit
<1> QED BY <1>14, <1>15, <1>16 DEF OutboxInv

\* PushSend: one call of the batch.
LEMMA PushSendKeeps ==
    ASSUME OutboxInv, NEW p \in Senders, PushSend(p)
    PROVE  OutboxInv'
<1>0. /\ TablesFit /\ sender[p].pc = "batch" /\ UNCHANGED <<row, kind>>
      /\ sender[p].item = <<>> /\ SenderFits(sender[p]) /\ sender[p].batch \in SUBSET Items
      /\ sender \in [Senders -> SenderRecords] /\ sender[p] \in SenderRecords
  BY SenderFields DEF OutboxInv, PushSend, SenderFits
<1>1. PICK item \in sender[p].batch,
           reply \in {"ok", "lost", "retry", "gone", "refused", "timeout"} :
        /\ Answered(item[1], reply)
        /\ sender' = [sender EXCEPT
              ![p].pc = IF reply = "gone" THEN "disable" ELSE "pushmark",
              ![p].item = item, ![p].answer = Classified(reply)]
  BY DEF PushSend
<1>2. PICK k \in Keys, t \in Nat : item = <<k, t>> /\ item \in Items /\ item[1] = k
  BY <1>0 DEF Items
<1>3. PICK answer \in Answers : answer = Classified(reply)
  BY DEF Classified, Answers
<1> DEFINE pc == IF reply = "gone" THEN "disable" ELSE "pushmark"
           g == [sender[p] EXCEPT !.pc = pc, !.item = item, !.answer = answer]
<1>4. sender' = [sender EXCEPT ![p] = g]
  BY <1>0, <1>1, <1>3, Zenon
<1>5. /\ pc \in Pcs /\ pc \in {"disable", "pushmark"} /\ (pc = "disable" => answer # "ok")
      /\ item \in {<<>>} \cup Items
  BY <1>2, <1>3 DEF Pcs, Classified
<1> HIDE DEF pc
<1>6. /\ g \in SenderRecords /\ g.pc = pc /\ g.item = item /\ g.answer = answer
      /\ g.batch = sender[p].batch
  BY <1>0, <1>5, Zenon DEF SenderRecords
<1> HIDE DEF g
<1>7. SenderFits(g)
  BY <1>0, <1>1, <1>5, <1>6 DEF SenderFits
<1>8. Mine(p, k, t)
  BY <1>1, <1>2 DEF Mine
<1>9. /\ sender[p].pc \in {"send", "batch"} /\ g.pc \in {"mark", "disable", "pushmark"}
      /\ g.answer = Classified(reply) /\ Answered(k, reply) /\ g.item = <<k, t>>
      /\ sender[p].item \in {<<>>, <<k, t>>}
  BY <1>0, <1>1, <1>2, <1>3, <1>5, <1>6
<1> QED BY <1>0, <1>4, <1>6, <1>7, <1>8, <1>9, CallKeeps, Zenon

\* Disable: the answer was that the subscription is gone, which is no delivery.
LEMMA DisableKeeps ==
    ASSUME OutboxInv, NEW p \in Senders, Disable(p)
    PROVE  OutboxInv'
<1>0. /\ TablesFit /\ (\A k \in Keys: KeyInv(k) /\ got[k] \in Nat)
      /\ sender[p].pc = "disable" /\ UNCHANGED <<row, kind, got, doubt>>
      /\ SenderFits(sender[p])
      /\ sender \in [Senders -> SenderRecords] /\ sender[p] \in SenderRecords
      /\ sender' = [sender EXCEPT ![p].pc = "pushmark"]
  BY SenderFields DEF OutboxInv, TablesFit, Disable
<1> DEFINE g == [sender[p] EXCEPT !.pc = "pushmark"]
<1>1. "pushmark" \in Pcs
  BY DEF Pcs
<1>2. /\ g \in SenderRecords /\ g.pc = "pushmark" /\ g.item = sender[p].item
      /\ g.batch = sender[p].batch /\ g.answer = sender[p].answer
  BY <1>0, <1>1, Zenon DEF SenderRecords
<1>3. sender' = [sender EXCEPT ![p] = g]
  BY <1>0, Zenon
<1> HIDE DEF g
<1>4. SenderFits(g) /\ g.answer # "ok"
  BY <1>0, <1>2 DEF SenderFits
<1>5. /\ sender' \in [Senders -> SenderRecords] /\ \A q \in Senders: SenderFits(sender'[q])
      /\ sender'[p] = g /\ \A q \in Senders \ {p}: sender'[q] = sender[q]
      /\ \A q \in Senders \ {p}, k \in Keys: SameFor(q, k)
  BY <1>0, <1>2, <1>3, <1>4, SenderMoves
<1>6. \A k \in Keys: SameFor(p, k)
  BY <1>0, <1>2, <1>4, <1>5 DEF SameFor, Mine, Todo, Told, Made
<1>7. \A k \in Pushes: Dead(k) => Dead(k)'
  BY <1>0, <1>2, <1>5, DeadStays
<1>8. \A k \in Keys: Arrived(k) => Arrived(k)'
  BY <1>0, ArrivedStays
<1>9. \A k \in Keys: KeyInv(k)'
  BY <1>0, <1>5, <1>6, <1>7, <1>8, KeyStays
<1>10. TablesFit'
  BY <1>0, <1>5, TablesStay DEF TablesFit
<1> QED BY <1>9, <1>10 DEF OutboxInv

\* PushMark: the answer of one call of the batch.
LEMMA PushMarkKeeps ==
    ASSUME OutboxInv, NEW p \in Senders, PushMark(p)
    PROVE  OutboxInv'
<1>0. /\ TablesFit /\ sender[p].pc = "pushmark" /\ UNCHANGED <<kind, got, doubt>>
      /\ SenderFits(sender[p]) /\ sender[p].batch \in SUBSET Items
      /\ sender[p].item \in sender[p].batch
  BY SenderFields DEF OutboxInv, PushMark, SenderFits
<1>1. PICK k \in Keys, t \in Nat : sender[p].item = <<k, t>>
  BY <1>0 DEF Items
<1> DEFINE left == sender[p].batch \ {<<k, t>>}
           pc == IF left = {} THEN "claim" ELSE "batch"
           g == [AtStart EXCEPT !.pc = pc, !.batch = left]
<1>2. /\ row' = [row EXCEPT ![k] = Marked(row[k], t, sender[p].answer, PushAttempts)]
      /\ sender' = [sender EXCEPT ![p] = g]
  <2>1. sender[p].item[1] = k /\ sender[p].item[2] = t
    BY <1>1
  <2>2. row \in [Keys -> Row]
    BY <1>0 DEF TablesFit
  <2> QED BY <1>1, <2>1, <2>2 DEF PushMark
<1>3. /\ pc \in Pcs /\ pc \in {"claim", "batch"} /\ (pc = "claim" => left = {})
      /\ left \in SUBSET Items
  BY <1>0 DEF Pcs
<1>4. AtStart \in SenderRecords /\ AtStart.item = <<>>
  BY DEF AtStart, SenderRecords, Pcs, Answers
<1> HIDE DEF pc, left
<1>5. g \in SenderRecords /\ g.pc = pc /\ g.item = <<>> /\ g.batch = left
  BY <1>3, <1>4, Zenon DEF SenderRecords
<1> HIDE DEF g
<1>6. left \subseteq sender[p].batch
  BY DEF left
<1>7. SenderFits(g)
  BY <1>0, <1>3, <1>5, <1>6 DEF SenderFits
<1>8. g.batch = sender[p].batch \ {<<k, t>>}
  BY <1>5 DEF left
<1>9. /\ sender[p].pc \in {"mark", "pushmark"} /\ g.pc \in {"due", "claim", "batch"}
      /\ sender[p].item = <<k, t>> /\ g.item = <<>>
  BY <1>0, <1>1, <1>3, <1>5
<1>10. sender' = [sender EXCEPT ![p] = g]
  BY <1>2
<1>11. row' = [row EXCEPT ![k] = Marked(row[k], t, sender[p].answer, PushAttempts)]
  BY <1>2
<1>12. g \in SenderRecords /\ UNCHANGED <<kind, got, doubt>> /\ PushAttempts \in Nat
  BY <1>0, <1>5
<1> QED BY <1>7, <1>8, <1>9, <1>10, <1>11, <1>12, BookKeeps, Zenon

-----------------------------------------------------------------------------
(* Failure, time and the other processes.                                  *)

\* A process ends: what it held is dropped, and a delivery it was told of is in doubt.
LEMMA DropKeeps ==
    ASSUME OutboxInv, NEW p \in Senders, sender' = [sender EXCEPT ![p] = AtStart],
           UNCHANGED <<row, kind, got>>, doubt' \in [Keys -> Nat],
           \A k \in Keys: doubt'[k] \in {doubt[k], doubt[k] + 1},
           \A k \in Keys: Told(p, k) => doubt'[k] = doubt[k] + 1
    PROVE  OutboxInv'
<1>0. /\ TablesFit /\ (\A k \in Keys: KeyInv(k) /\ row[k] \in Row /\ got[k] \in Nat)
      /\ (\A k \in Keys: doubt[k] \in Nat)
  BY DEF OutboxInv, TablesFit
<1>1. /\ AtStart \in SenderRecords /\ AtStart.pc = "claim" /\ AtStart.item = <<>>
      /\ AtStart.batch = {}
  BY DEF AtStart, SenderRecords, Pcs, Answers
<1>2. SenderFits(AtStart)
  BY <1>1 DEF SenderFits
<1>3. /\ sender' \in [Senders -> SenderRecords] /\ \A q \in Senders: SenderFits(sender'[q])
      /\ sender'[p] = AtStart /\ \A q \in Senders \ {p}: sender'[q] = sender[q]
      /\ \A q \in Senders \ {p}, k \in Keys: SameFor(q, k)
  BY <1>0, <1>1, <1>2, SenderMoves
<1>4. \A k \in Keys, t \in Nat: ~Mine(p, k, t)'
  <2>1. \A k \in Keys, t \in Nat: <<k, t>> # <<>>
    OBVIOUS
  <2> QED BY <1>1, <1>3, <2>1 DEF Mine
<1>5. \A k \in Keys: ~Todo(p, k)' /\ ~Told(p, k)'
  BY <1>1, <1>3, <1>4 DEF Todo, Told
<1>6. \A k \in Keys: Arrived(k) => Arrived(k)'
  BY <1>0, ArrivedStays
<1>7. \A k \in Pushes: Dead(k) => Dead(k)'
  BY <1>0, <1>1, <1>3, DeadStays
<1>8. ASSUME NEW k \in Keys PROVE KeyInv(k)'
  <2>1. OnlyBy(p, k)
    BY <1>0, <1>3, <1>4, <1>7 DEF OnlyBy
  <2>2. Sure(p, k) => \/ doubt'[k] = doubt[k] + 1
                      \/ Todo(p, k) /\ ~Todo(p, k)' /\ got'[k] = got[k]
    BY <1>0, <1>5 DEF Sure
  <2> QED BY <1>0, <1>5, <1>6, <2>1, <2>2, RowStays
<1>9. TablesFit'
  BY <1>0, <1>3, TablesStay DEF TablesFit
<1> QED BY <1>8, <1>9 DEF OutboxInv

\* Stop: the process ends wherever it is.
LEMMA StopKeeps ==
    ASSUME OutboxInv, NEW p \in Senders, Stop(p)
    PROVE  OutboxInv'
<1>0. /\ TablesFit /\ (\A k \in Keys: doubt[k] \in Nat) /\ doubt \in [Keys -> Nat]
      /\ UNCHANGED <<row, kind, got>>
      /\ SenderFits(sender[p]) /\ sender[p].item \in {<<>>} \cup Items
      /\ sender[p].batch \in SUBSET Items
      /\ sender' = [sender EXCEPT ![p] = AtStart]
  BY SenderFields DEF OutboxInv, TablesFit, Stop
<1>1. /\ doubt' \in [Keys -> Nat]
      /\ \A k \in Keys: doubt'[k] \in {doubt[k], doubt[k] + 1}
      /\ \A k \in Keys: Told(p, k) => doubt'[k] = doubt[k] + 1
  <2>1. CASE sender[p].pc \in {"mark", "pushmark"} /\ sender[p].answer = "ok"
    <3>1. sender[p].item \in Items
      <4>1. CASE sender[p].pc = "mark"
        <5>1. PICK n \in Notes, t \in Nat : sender[p].item = <<Card(n), t>>
          BY <1>0, <4>1, CardInHand
        <5> QED BY <5>1, CardsAndPushes DEF Items
      <4>2. CASE sender[p].pc = "pushmark"
        BY <1>0, <4>2 DEF SenderFits
      <4> QED BY <2>1, <4>1, <4>2
    <3>2. PICK k \in Keys, t \in Nat : sender[p].item = <<k, t>>
      BY <3>1 DEF Items
    <3>3. doubt' = [doubt EXCEPT ![k] = @ + 1]
      <4>1. sender[p].item[1] = k
        BY <3>2
      <4> QED BY <2>1, <4>1 DEF Stop
    <3>4. \A j \in Keys: Told(p, j) => j = k
      BY <3>2 DEF Told
    <3> QED BY <1>0, <3>3, <3>4
  <2>2. CASE ~(sender[p].pc \in {"mark", "pushmark"} /\ sender[p].answer = "ok")
    BY <1>0, <2>2 DEF Stop, Told
  <2> QED BY <2>1, <2>2
<1> QED BY <1>0, <1>1, DropKeeps

\* RenderFails: the process ends before the call.
LEMMA RenderFailsKeeps ==
    ASSUME OutboxInv, NEW p \in Senders, RenderFails(p)
    PROVE  OutboxInv'
<1>1. doubt' \in [Keys -> Nat] /\ \A k \in Keys: doubt'[k] = doubt[k]
  BY DEF RenderFails, OutboxInv, TablesFit
<1>2. \A k \in Keys: ~Told(p, k)
  BY DEF RenderFails, Told
<1> QED BY <1>1, <1>2, DropKeeps DEF RenderFails

\* PushRenderFails: a refused payload is booked like a refused call, and any other error
\* ends the round.
LEMMA PushRenderFailsKeeps ==
    ASSUME OutboxInv, NEW p \in Senders, PushRenderFails(p)
    PROVE  OutboxInv'
<1>0. /\ TablesFit /\ sender[p].pc = "batch" /\ UNCHANGED <<row, kind, got, doubt>>
      /\ sender[p].item = <<>> /\ SenderFits(sender[p]) /\ sender[p].batch \in SUBSET Items
      /\ sender \in [Senders -> SenderRecords] /\ sender[p] \in SenderRecords
      /\ got \in [Keys -> Nat] /\ doubt \in [Keys -> Nat]
  BY SenderFields DEF OutboxInv, TablesFit, PushRenderFails, SenderFits
<1>1. CASE sender' = [sender EXCEPT ![p] = AtStart]
  <2>1. \A k \in Keys: ~Told(p, k)
    BY <1>0 DEF Told
  <2> QED BY <1>0, <1>1, <2>1, DropKeeps
<1>2. ASSUME NEW item \in sender[p].batch,
             sender' = [sender EXCEPT ![p].pc = "pushmark", ![p].item = item,
                                      ![p].answer = "refused"]
      PROVE  OutboxInv'
  <2>1. PICK k \in Keys, t \in Nat : item = <<k, t>> /\ item \in Items
    BY <1>0 DEF Items
  <2> DEFINE g == [sender[p] EXCEPT !.pc = "pushmark", !.item = item, !.answer = "refused"]
  <2>2. sender' = [sender EXCEPT ![p] = g]
    BY <1>0, <1>2, Zenon
  <2>3. "pushmark" \in Pcs /\ "refused" \in Answers /\ item \in {<<>>} \cup Items
    BY <2>1 DEF Pcs, Answers
  <2>4. /\ g \in SenderRecords /\ g.pc = "pushmark" /\ g.item = item
        /\ g.answer = "refused" /\ g.batch = sender[p].batch
    BY <1>0, <2>3, Zenon DEF SenderRecords
  <2> HIDE DEF g
  <2>5. SenderFits(g)
    BY <1>0, <1>2, <2>4 DEF SenderFits
  <2>6. Answered(k, "refused") /\ Classified("refused") = "refused"
    BY <1>0, <2>1 DEF Answered, Arrives, Classified
  <2>7. Mine(p, k, t)
    BY <1>2, <2>1 DEF Mine
  <2>8. /\ sender[p].pc \in {"send", "batch"} /\ sender[p].item \in {<<>>, <<k, t>>}
        /\ g.pc \in {"mark", "disable", "pushmark"} /\ g.item = <<k, t>>
        /\ g.answer = Classified("refused")
    BY <1>0, <2>1, <2>4, <2>6
  <2> QED BY <1>0, <2>2, <2>4, <2>5, <2>6, <2>7, <2>8, CallKeeps, Zenon
<1> QED BY <1>1, <1>2 DEF PushRenderFails

\* While nobody moves, every sender stands to every key as before, and a card that is
\* settled is dead.
LEMMA NobodyMoves ==
    ASSUME TablesFit, sender' = sender,
           \A c \in Cards: row[c].state \in Settled => row'[c].state \in Settled
    PROVE  /\ \A q \in Senders, k \in Keys: SameFor(q, k)
           /\ \A k \in Pushes: Dead(k) => Dead(k)'
           /\ sender' \in [Senders -> SenderRecords] /\ \A q \in Senders: SenderFits(sender'[q])
<1>1. \A q \in Senders, k \in Keys: SameFor(q, k)
  BY SameSender
<1>2. \A k \in Pushes: Dead(k) => Dead(k)'
  BY CardsAndPushes DEF Dead
<1> QED BY <1>1, <1>2 DEF TablesFit

\* What concerns no row: the subscriptions, and the bounds.
LEMMA NothingKeeps ==
    ASSUME OutboxInv, UNCHANGED <<row, kind, sender, got, doubt>>
    PROVE  OutboxInv'
<1>0. TablesFit /\ (\A k \in Keys: KeyInv(k) /\ got[k] \in Nat)
  BY DEF OutboxInv, TablesFit
<1>1. /\ \A q \in Senders, k \in Keys: SameFor(q, k)
      /\ \A k \in Pushes: Dead(k) => Dead(k)'
      /\ sender' \in [Senders -> SenderRecords] /\ \A q \in Senders: SenderFits(sender'[q])
  BY <1>0, NobodyMoves
<1>2. \A k \in Keys: KeyInv(k)'
  BY <1>0, <1>1, ArrivedStays, KeyStays
<1>3. TablesFit'
  BY <1>0, <1>1, TablesStay DEF TablesFit
<1> QED BY <1>2, <1>3 DEF OutboxInv

\* Prune: the rule of prune_finished is what makes the key of a pruned push dead.
LEMMA PruneKeeps ==
    ASSUME OutboxInv, NEW p \in Senders, Prune(p)
    PROVE  OutboxInv'
<1>0. /\ TablesFit /\ (\A k \in Keys: KeyInv(k) /\ got[k] \in Nat)
      /\ UNCHANGED <<kind, sender, got, doubt>> /\ row \in [Keys -> Row]
  BY DEF OutboxInv, TablesFit, Prune
<1>1. PICK k \in Pushes : Prunable(k) /\ row' = [row EXCEPT ![k] = NoRow]
  BY DEF Prune
<1>2. /\ row' \in [Keys -> Row] /\ row'[k] = NoRow /\ \A j \in Keys \ {k}: row'[j] = row[j]
      /\ k \in Keys /\ \A c \in Cards: row'[c] = row[c]
  BY <1>0, <1>1, NewRows, CardsAndPushes
<1>3. /\ \A q \in Senders, j \in Keys: SameFor(q, j)
      /\ \A j \in Pushes: Dead(j) => Dead(j)'
      /\ sender' \in [Senders -> SenderRecords] /\ \A q \in Senders: SenderFits(sender'[q])
  BY <1>0, <1>2, NobodyMoves
<1>4. Dead(k)
  <2>1. ASSUME NEW q \in Senders, NEW t \in Nat, sender[q].item = <<Card(k[1]), t>>
        PROVE  FALSE
    <3>1. sender[q].item # <<>> /\ sender[q].item[1] = Card(k[1])
      BY <2>1
    <3>2. sender[q].item[1][1] = k[1]
      BY <3>1, CardsAndPushes
    <3> QED BY <1>1, <3>1, <3>2 DEF Prunable
  <2> QED BY <1>1, <2>1 DEF Dead, Prunable
<1>5. KeyInv(k)'
  BY <1>0, <1>1, <1>2, <1>3, <1>4, RowPruned DEF Prunable
<1>6. \A j \in Keys \ {k}: KeyInv(j)'
  BY <1>0, <1>2, <1>3, ArrivedStays, KeyStays
<1>7. TablesFit'
  BY <1>0, <1>2, <1>3, TablesStay DEF TablesFit
<1> QED BY <1>5, <1>6, <1>7 DEF OutboxInv

\* Lapse: the doubt is counted for the holder that was sure.
LEMMA LapseKeeps ==
    ASSUME OutboxInv, NEW k \in Keys, Lapse(k)
    PROVE  OutboxInv'
<1>0. /\ TablesFit /\ (\A j \in Keys: KeyInv(j) /\ row[j] \in Row /\ got[j] \in Nat)
      /\ UNCHANGED <<kind, sender, got>> /\ row \in [Keys -> Row]
      /\ (\A j \in Keys: doubt[j] \in Nat) /\ doubt \in [Keys -> Nat]
      /\ row[k].claimed /\ ~row[k].lapsed /\ row' = [row EXCEPT ![k].lapsed = TRUE]
  BY DEF OutboxInv, TablesFit, Lapse
<1> DEFINE m == [row[k] EXCEPT !.lapsed = TRUE]
<1>1. m \in Row /\ m.state = row[k].state
  BY <1>0, Zenon DEF Row
<1>2. /\ row' \in [Keys -> Row] /\ row'[k] = m /\ \A j \in Keys \ {k}: row'[j] = row[j]
  BY <1>0, <1>1
<1>3. \A c \in Cards: row'[c].state = row[c].state
  BY <1>1, <1>2, CardsAndPushes
<1>4. /\ \A q \in Senders, j \in Keys: SameFor(q, j)
      /\ \A j \in Pushes: Dead(j) => Dead(j)'
      /\ sender' \in [Senders -> SenderRecords] /\ \A q \in Senders: SenderFits(sender'[q])
  BY <1>0, <1>3, NobodyMoves
<1>5. ASSUME NEW q \in Senders, Sure(q, k) PROVE Holds(q, k)
  <2>1. PICK t \in Nat : Mine(q, k, t) /\ Owned(row[k], t)
    BY <1>5 DEF Sure
  <2>2. PICK item : item = <<k, t>>
    OBVIOUS
  <2>3. item # <<>> /\ item[1] = k /\ item[2] = t
    BY <2>2
  <2>4. item \in sender[q].batch \cup {sender[q].item}
    BY <2>1, <2>2 DEF Mine
  <2> QED BY <2>1, <2>3, <2>4 DEF Holds
<1>6. /\ doubt' \in [Keys -> Nat] /\ doubt'[k] \in {doubt[k], doubt[k] + 1}
      /\ \A j \in Keys \ {k}: doubt'[j] = doubt[j]
      /\ (\E q \in Senders: Sure(q, k)) => doubt'[k] = doubt[k] + 1
  <2>1. CASE \E q \in Senders: Holds(q, k)
    <3>1. doubt' = [doubt EXCEPT ![k] = @ + 1]
      BY <2>1 DEF Lapse
    <3> QED BY <1>0, <3>1
  <2>2. CASE ~\E q \in Senders: Holds(q, k)
    <3>1. doubt' = doubt
      BY <2>2 DEF Lapse
    <3> QED BY <1>0, <1>5, <2>2, <3>1
  <2> QED BY <2>1, <2>2
<1>7. \A j \in Keys: Arrived(j) => Arrived(j)'
  BY <1>0, ArrivedStays
<1>8. KeyInv(k)'
  BY <1>0, <1>2, <1>4, <1>6, <1>7, RowLapses
<1>9. \A j \in Keys \ {k}: KeyInv(j)'
  BY <1>0, <1>2, <1>4, <1>6, <1>7, KeyStays
<1>10. TablesFit'
  BY <1>0, <1>2, <1>4, <1>6, TablesStay DEF TablesFit
<1> QED BY <1>8, <1>9, <1>10 DEF OutboxInv

\* FallDue: the time of the next attempt comes.
LEMMA FallDueKeeps ==
    ASSUME OutboxInv, NEW k \in Keys, FallDue(k)
    PROVE  OutboxInv'
<1>0. /\ TablesFit /\ (\A j \in Keys: KeyInv(j) /\ row[j] \in Row /\ got[j] \in Nat)
      /\ UNCHANGED <<kind, sender, got, doubt>> /\ row \in [Keys -> Row]
      /\ row' = [row EXCEPT ![k].due = TRUE]
  BY DEF OutboxInv, TablesFit, FallDue
<1> DEFINE m == [row[k] EXCEPT !.due = TRUE]
<1>1. m \in Row /\ m.state = row[k].state
  BY <1>0, Zenon DEF Row
<1>2. /\ row' \in [Keys -> Row] /\ row'[k] = m /\ \A j \in Keys \ {k}: row'[j] = row[j]
  BY <1>0, <1>1
<1>3. \A c \in Cards: row'[c].state = row[c].state
  BY <1>1, <1>2, CardsAndPushes
<1>4. /\ \A q \in Senders, j \in Keys: SameFor(q, j)
      /\ \A j \in Pushes: Dead(j) => Dead(j)'
      /\ sender' \in [Senders -> SenderRecords] /\ \A q \in Senders: SenderFits(sender'[q])
  BY <1>0, <1>3, NobodyMoves
<1>5. \A j \in Keys: Arrived(j) => Arrived(j)'
  BY <1>0, ArrivedStays
<1>6. KeyInv(k)'
  BY <1>0, <1>2, <1>4, <1>5, RowFallsDue
<1>7. \A j \in Keys \ {k}: KeyInv(j)'
  BY <1>0, <1>2, <1>4, <1>5, KeyStays
<1>8. TablesFit'
  BY <1>0, <1>2, <1>4, TablesStay DEF TablesFit
<1> QED BY <1>6, <1>7, <1>8 DEF OutboxInv

\* Enqueue: a card that is missing was never written, so nothing of it was sent.
LEMMA EnqueueKeeps ==
    ASSUME OutboxInv, NEW n \in Notes, Enqueue(n)
    PROVE  OutboxInv'
<1>0. /\ TablesFit /\ (\A k \in Keys: KeyInv(k) /\ got[k] \in Nat)
      /\ UNCHANGED <<sender, got, doubt>> /\ row \in [Keys -> Row]
      /\ kind \in [Notes -> Kinds]
  BY DEF OutboxInv, TablesFit, Enqueue
<1>1. PICK c \in Cards : c = Card(n) /\ c \in Keys /\ c \notin Pushes
  BY CardsAndPushes
<1>2. row[c].state = "none" /\ row' = [row EXCEPT ![c] = NewRow]
  BY <1>1 DEF Enqueue
<1>3. PICK kd \in Kinds : kind' = [kind EXCEPT ![n] = kd]
  BY DEF Enqueue
<1>4. /\ row' \in [Keys -> Row] /\ row'[c] = NewRow /\ \A j \in Keys \ {c}: row'[j] = row[j]
  BY <1>0, <1>1, <1>2, NewRows
<1>5. Fresh(c)
  BY <1>0, <1>1, <1>2 DEF KeyInv, Missing
<1>6. \A d \in Cards: row[d].state \in Settled => row'[d].state \in Settled
  BY <1>2, <1>4, CardsAndPushes DEF Settled
<1>7. /\ \A q \in Senders, j \in Keys: SameFor(q, j)
      /\ \A j \in Pushes: Dead(j) => Dead(j)'
      /\ sender' \in [Senders -> SenderRecords] /\ \A q \in Senders: SenderFits(sender'[q])
  BY <1>0, <1>6, NobodyMoves
<1>8. \A j \in Keys \ {c}: Arrived(j) => Arrived(j)'
  <2>1. ASSUME NEW j \in Cards, j # c PROVE j[1] \in Notes /\ j[1] # n
    BY <1>1, <2>1, CardsAndPushes DEF Card
  <2>2. \A m \in Notes \ {n}: kind'[m] = kind[m]
    BY <1>0, <1>3
  <2> QED BY <1>0, <2>1, <2>2 DEF Arrived
<1>9. KeyInv(c)'
  BY <1>0, <1>1, <1>2, <1>4, <1>5, <1>7, RowWritten
<1>10. \A j \in Keys \ {c}: KeyInv(j)'
  BY <1>0, <1>4, <1>7, <1>8, KeyStays
<1>11. kind' \in [Notes -> Kinds]
  BY <1>0, <1>3
<1>12. TablesFit'
  BY <1>0, <1>4, <1>7, <1>11, TablesStay DEF TablesFit
<1> QED BY <1>9, <1>10, <1>12 DEF OutboxInv

-----------------------------------------------------------------------------
(* The theorems.                                                           *)

\* At the start nothing is written, held or sent.
LEMMA OutboxStarts == OutboxInit => OutboxInv
<1> SUFFICES ASSUME OutboxInit PROVE OutboxInv
  OBVIOUS
<1>1. /\ AtStart \in SenderRecords /\ AtStart.pc = "claim" /\ AtStart.item = <<>>
      /\ AtStart.batch = {}
  BY DEF AtStart, SenderRecords, Pcs, Answers
<1>2. \A p \in Senders: sender[p] = AtStart
  BY DEF OutboxInit
<1>3. TablesFit
  <2>1. SenderFits(AtStart)
    BY <1>1 DEF SenderFits
  <2>2. sender \in [Senders -> SenderRecords]
    BY <1>1 DEF OutboxInit
  <2>3. row \in [Keys -> Row] /\ kind \in [Notes -> Kinds]
    BY NewRows DEF OutboxInit, Kinds
  <2>4. got \in [Keys -> Nat] /\ doubt \in [Keys -> Nat]
    BY DEF OutboxInit
  <2> QED BY <1>2, <2>1, <2>2, <2>3, <2>4 DEF TablesFit
<1>4. ASSUME NEW k \in Keys PROVE KeyInv(k)
  <2>1. /\ got[k] = 0 /\ doubt[k] = 0 /\ row[k].state = "none" /\ ~row[k].claimed
    BY NewRows DEF OutboxInit
  <2>2. \A p \in Senders, t \in Nat: ~Mine(p, k, t)
    <3>1. \A t \in Nat: <<k, t>> # <<>>
      OBVIOUS
    <3> QED BY <1>1, <1>2, <3>1 DEF Mine
  <2>3. \A p \in Senders: ~Todo(p, k) /\ ~Told(p, k)
    BY <1>1, <1>2, <2>2 DEF Todo, Told
  <2>4. Unsent(k) = 0
    <3>1. {p \in Senders: Todo(p, k)} = {}
      BY <2>3
    <3> QED BY <3>1, FS_EmptySet DEF Unsent
  <2> QED BY <2>1, <2>2, <2>3, <2>4
          DEF KeyInv, Numbered, Covered, Missing, Booked, Fresh
<1> QED BY <1>3, <1>4 DEF OutboxInv

\* Every step of a sender, of time and of the other processes keeps the invariant.
LEMMA OutboxSteps == OutboxInv /\ [OutboxNext]_outboxVars => OutboxInv'
<1> SUFFICES ASSUME OutboxInv, [OutboxNext]_outboxVars PROVE OutboxInv'
  OBVIOUS
<1>1. ASSUME NEW p \in Senders, SenderStep(p) PROVE OutboxInv'
  BY <1>1, ClaimKeeps, ClaimNothingKeeps, FanOutKeeps, SendKeeps, RenderFailsKeeps, MarkKeeps,
     ClaimDueKeeps, PushSendKeeps, PushRenderFailsKeeps, DisableKeeps, PushMarkKeeps
     DEF SenderStep
<1>2. ASSUME NEW p \in Senders, Prune(p) \/ Stop(p) PROVE OutboxInv'
  BY <1>2, PruneKeeps, StopKeeps
<1>3. ASSUME NEW k \in Keys, Lapse(k) \/ FallDue(k) PROVE OutboxInv'
  BY <1>3, LapseKeeps, FallDueKeeps
<1>4. ASSUME NEW n \in Notes, Enqueue(n) PROVE OutboxInv'
  BY <1>4, EnqueueKeeps
<1>5. ASSUME NEW s \in Subs, Subscribe(s) \/ Unsubscribe(s) PROVE OutboxInv'
  BY <1>5, NothingKeeps DEF Subscribe, Unsubscribe
<1>6. CASE UNCHANGED outboxVars
  BY <1>6, NothingKeeps DEF outboxVars
<1> QED BY <1>1, <1>2, <1>3, <1>4, <1>5, <1>6 DEF OutboxNext

\* In every reachable state the deliveries that arrived and those that may still be made
\* are covered, key by key.
THEOREM OutboxInvariant == OutboxSpec => []OutboxInv
<1> QED BY OutboxStarts, OutboxSteps, PTL DEF OutboxSpec

\* What mark_sent booked has arrived, and nobody is told twice without an occasion on which
\* the sender could not know.
THEOREM DeliveryStaysHonest == OutboxSpec => []DeliveryIsHonest
<1>1. OutboxInv => DeliveryIsHonest
  <2> SUFFICES ASSUME OutboxInv PROVE DeliveryIsHonest
    OBVIOUS
  <2>1. SentHasArrived
    BY DEF OutboxInv, KeyInv, Booked, Arrived, SentHasArrived
  <2>2. DuplicateNeedsDoubt
    <3> SUFFICES ASSUME NEW k \in Keys PROVE got[k] <= 1 + doubt[k]
      BY DEF DuplicateNeedsDoubt
    <3>1. got[k] \in Nat /\ doubt[k] \in Nat
      BY DEF OutboxInv, TablesFit
    <3>2. Unsent(k) \in Nat
      <4>1. IsFiniteSet({q \in Senders: Todo(q, k)})
        BY FS_Subset
      <4> QED BY <4>1, FS_CardinalityType DEF Unsent
    <3> QED BY <3>1, <3>2 DEF OutboxInv, KeyInv, Covered
  <2> QED BY <2>1, <2>2 DEF DeliveryIsHonest
<1> QED BY <1>1, OutboxInvariant, PTL

=============================================================================
