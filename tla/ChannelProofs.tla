---------------------------- MODULE ChannelProofs ----------------------------
(***************************************************************************)
(* Proofs about both ends of a signal from the channel, its intake and     *)
(* analysis and the management of the position it opened; and about the    *)
(* channel whose messages become paper trades.                             *)
(*                                                                         *)
(* Signals, for any messages, edits, analyzers, batch size and deaths: an  *)
(* instruction that was stored is not lost, and a dispatch is taken up     *)
(* only while every stored revision of its message says the same.          *)
(*                                                                         *)
(* SourceManagement, for any updates, attempts and failures: no mutation   *)
(* is sent twice, and a leg that is recorded as over is dead at the venue, *)
(* where the dispatcher dawdles at none of the four places that bring an   *)
(* order of its own to life.                                               *)
(*                                                                         *)
(* PaperLane, for any messages, workers, batch size and rollbacks: the     *)
(* paper ledger and its journal tell the same story.                       *)
(***************************************************************************)
EXTENDS Signals, SourceManagement, PaperLane, FiniteSetTheorems, WellFoundedInduction,
        TLAPS

-----------------------------------------------------------------------------
(* Intake and analysis: the inductive invariant.                           *)

USE SignalsAssumption

\* What a revision may say; "none" is one that was not written.
Texts == {"none", "long", "short", "manage", "hold"}

\* What is stored was said; the rows of a batch are fresh off the intake, and its own.
BatchesFit ==
    /\ said \in [Revs -> Texts]
    /\ gone \subseteq Ids /\ fresh \subseteq Ids
    /\ catching \in 0..MaxMessage
    /\ analyzer \in [Analyzers -> SUBSET Revs]
    /\ \A r \in Revs: Stored(r) => said[r] # "none"
    /\ \A a \in Analyzers: \A r \in analyzer[a]:
         message[r].state = "RECEIVED" /\ message[r].reason = "none"
    /\ \A a, b \in Analyzers: a # b => analyzer[a] \cap analyzer[b] = {}

\* Where two stored revisions of a message differ, one of them is marked as edited.
OneVoice ==
    \A r, s \in Revs:
        r[1] = s[1] /\ Stored(r) /\ Stored(s) /\ said[r] # said[s] =>
            \E t \in Siblings(r): message[t].reason = "edited"

\* A dispatch is of a stored revision.
DispatchIsStored == \A r \in Revs: dispatch[r] # "none" => Stored(r)

\* The inductive invariant of intake and analyzer.
SignalsInv ==
    SignalsTypeOK /\ BatchesFit /\ OneVoice /\ DispatchIsStored /\ InstructionSurvives

-----------------------------------------------------------------------------
\* A bounded set of numbers has a greatest one.
LEMMA GreatestExists ==
    ASSUME NEW N \in Nat, NEW S \in SUBSET (0..N), S # {}
    PROVE  \E m \in S: \A y \in S: y <= m
<1> DEFINE D == {N - x: x \in S}
<1>1. \A x \in S: x \in Nat /\ N - x \in Nat
  OBVIOUS
<1>2. D \subseteq Nat /\ D # {}
  BY <1>1
<1>3. PICK d \in D : \A e \in D : ~ (<<e, d>> \in OpToRel(<, Nat))
  BY <1>2, NatLessThanWellFounded, WFMin
<1>4. \A e \in D : ~ (e < d)
  BY <1>2, <1>3 DEF OpToRel
<1>5. PICK m \in S : d = N - m
  OBVIOUS
<1>6. ASSUME NEW y \in S PROVE y <= m
  <2>1. N - y \in D /\ y \in Nat /\ m \in Nat
    BY <1>1
  <2>2. ~ (N - y < N - m)
    BY <1>4, <1>5, <2>1
  <2> QED BY <2>1, <2>2
<1> QED BY <1>6

\* A revision is of a message and has a number.
LEMMA RevFields ==
    ASSUME NEW r \in Revs
    PROVE  r[1] \in Ids /\ r[2] \in 0..MaxEdits[r[1]] /\ r = <<r[1], r[2]>>
BY DEF Revs

\* The current revision of a message that was said is one of those said.
LEMMA CurrentIsWritten ==
    ASSUME NEW i \in Ids, Written(i) # {}
    PROVE  Current(i) \in Written(i)
<1>1. \A r \in Written(i): r \in Revs /\ r[1] = i /\ r[2] \in 0..MaxEdits[i]
  BY RevFields DEF Written
<1>2. MaxEdits[i] \in Nat
  BY DEF SignalsAssumption, Ids
<1> DEFINE N == {r[2]: r \in Written(i)}
<1>3. N \in SUBSET (0..MaxEdits[i]) /\ N # {}
  BY <1>1
<1>4. PICK m \in N : \A y \in N: y <= m
  BY <1>2, <1>3, GreatestExists
<1>5. PICK r \in Written(i) : m = r[2]
  OBVIOUS
<1>6. \A s \in Written(i): s[2] <= r[2]
  BY <1>4, <1>5
<1> QED BY <1>6 DEF Current

\* The newest message is one that was said and not deleted.
LEMMA LatestIsExtant ==
    ASSUME Extant # {}
    PROVE  Latest \in Extant
<1>1. Extant \in SUBSET (0..MaxMessage) /\ MaxMessage \in Nat
  BY DEF Extant, Ids, SignalsAssumption
<1>2. PICK m \in Extant : \A y \in Extant: y <= m
  BY <1>1, GreatestExists
<1> QED BY <1>2 DEF Latest

\* The states of a message's row.
States == {"none", "RECEIVED", "ANALYZED", "FAILED", "EXPIRED"}

\* Why a row is as it is.
Reasons == {"none", "stale", "media", "unfit", "superseded", "edited", "failed"}

\* The row of a message.
Rows == [state: States, reason: Reasons]

\* The type invariant, row by row.
LEMMA TypesOfRows ==
    ASSUME SignalsTypeOK
    PROVE  /\ message \in [Revs -> Rows]
           /\ \A r \in Revs: message[r].state \in States /\ message[r].reason \in Reasons
BY Zenon DEF SignalsTypeOK, Rows, States, Reasons

\* What intake stores of a revision: new, healed, or what was there.
LEMMA InsertedRow ==
    ASSUME SignalsTypeOK, NEW r \in Revs, NEW built \in Built(r)
    PROVE  /\ Inserted(r, built) \in Rows
           /\ Inserted(r, built).state # "none"
           /\ Inserted(r, built).state \in {"ANALYZED", "FAILED"} =>
                message[r].state = Inserted(r, built).state
<1>1. built \in {"none", "media", "unfit", "stale"}
  BY DEF Built
<1>2. Revision(r, built) \in Reasons
  BY <1>1 DEF Revision, Reasons
<1>3. message[r] \in Rows /\ message[r].state \in States
  BY TypesOfRows
<1>4. CASE ~Stored(r)
  <2>1. PICK st \in {"RECEIVED", "EXPIRED"} :
          Inserted(r, built) = [state |-> st, reason |-> Revision(r, built)]
    BY <1>4 DEF Inserted
  <2> QED BY <1>2, <2>1 DEF Rows, States
<1>5. CASE /\ Stored(r) /\ built = "none"
           /\ message[r].reason = "media" /\ message[r].state = "EXPIRED"
  <2>1. Inserted(r, built) = [state |-> "RECEIVED", reason |-> "none"]
    BY <1>5 DEF Inserted
  <2> QED BY <2>1 DEF Rows, States, Reasons
<1>6. CASE /\ Stored(r)
           /\ ~ (/\ built = "none"
                 /\ message[r].reason = "media" /\ message[r].state = "EXPIRED")
  <2>1. Inserted(r, built) = message[r]
    BY <1>6 DEF Inserted
  <2> QED BY <1>3, <1>6, <2>1 DEF Stored
<1> QED BY <1>4, <1>5, <1>6

\* save_and_enqueue_forward: where the new text differs from what is stored, that is marked.
LEMMA SaveKeeps ==
    ASSUME SignalsInv, NEW r \in Revs, said[r] # "none", Save(r), UNCHANGED signalRest,
           catching' \in 0..MaxMessage
    PROVE  SignalsInv'
<1>1. PICK built \in Built(r) :
        /\ (Revokes(r, built) \cup {r}) \cap Locked = {}
        /\ message' = [s \in Revs |->
              CASE s = r -> Inserted(r, built)
                [] s \in Revokes(r, built) -> [message[s] EXCEPT !.reason = "edited"]
                [] OTHER -> message[s]]
        /\ covered' = Anchored(r[1])
  BY DEF Save
<1> DEFINE R == Revokes(r, built)
<1>2. R \subseteq Revs /\ r \notin R /\ \A s \in R: Stored(s) /\ s[1] = r[1] /\ said[s] # said[r]
  BY DEF Revokes, Siblings
<1>3. /\ message'[r] = Inserted(r, built)
      /\ \A s \in R: message'[s] = [message[s] EXCEPT !.reason = "edited"]
      /\ \A s \in Revs: s # r /\ s \notin R => message'[s] = message[s]
  BY <1>1, <1>2
<1>4. /\ message \in [Revs -> Rows]
      /\ \A s \in Revs: message[s].state \in States /\ message[s].reason \in Reasons
  BY TypesOfRows DEF SignalsInv
<1>5. \A s \in R: message'[s] \in Rows /\ message'[s].state = message[s].state
                    /\ message'[s].reason = "edited"
  <2>1. "edited" \in Reasons
    BY DEF Reasons
  <2> SUFFICES ASSUME NEW s \in R
               PROVE  /\ message'[s] \in Rows /\ message'[s].state = message[s].state
                      /\ message'[s].reason = "edited"
    OBVIOUS
  <2>2. message[s] \in Rows /\ message'[s] = [message[s] EXCEPT !.reason = "edited"]
    BY <1>2, <1>3, <1>4
  <2> QED BY <2>1, <2>2, Zenon DEF Rows
<1>6. /\ Inserted(r, built) \in Rows /\ Inserted(r, built).state # "none"
      /\ Inserted(r, built).state \in {"ANALYZED", "FAILED"} =>
            message[r].state = Inserted(r, built).state
  BY InsertedRow DEF SignalsInv
<1>7. message' \in [Revs -> Rows]
  <2>1. \A s \in Revs: message'[s] \in Rows
    BY <1>3, <1>4, <1>5, <1>6
  <2>2. message' = [s \in Revs |-> message'[s]]
    BY <1>1
  <2> QED BY <2>1, <2>2, Zenon
<1>8. covered' \in 0..MaxMessage
  BY <1>1, RevFields DEF Anchored, SignalsInv, SignalsTypeOK, Ids, SignalsAssumption
<1>9. SignalsTypeOK'
  BY <1>7, <1>8 DEF SignalsInv, SignalsTypeOK, signalRest, Rows, States, Reasons
<1>10. \A s \in Revs: Stored(s)' <=> Stored(s) \/ s = r
  BY <1>2, <1>3, <1>5, <1>6 DEF Stored
<1>11. \A a \in Analyzers: \A s \in analyzer[a]: s \in Revs /\ s # r /\ s \notin R
  BY <1>1 DEF Locked, SignalsInv, BatchesFit
<1>12. BatchesFit'
  BY <1>3, <1>10, <1>11 DEF SignalsInv, BatchesFit, signalRest
<1>13. OneVoice'
  <2> SUFFICES ASSUME NEW s \in Revs, NEW t \in Revs, s[1] = t[1], Stored(s)', Stored(t)',
                      said[s] # said[t]
               PROVE  \E u \in Siblings(s)': message'[u].reason = "edited"
    BY DEF OneVoice, signalRest
  <2>1. CASE s[1] # r[1]
    <3>1. \A u \in Revs: u[1] = s[1] => message'[u] = message[u]
      BY <1>2, <1>3, <2>1
    <3>2. Stored(s) /\ Stored(t)
      BY <1>10, <2>1
    <3>3. PICK u \in Siblings(s) : message[u].reason = "edited"
      BY <3>2 DEF SignalsInv, OneVoice
    <3> QED BY <1>10, <3>1, <3>3 DEF Siblings
  <2>2. CASE s[1] = r[1]
    <3>1. PICK u \in {s, t} : said[u] # said[r]
      OBVIOUS
    <3>2. u \in R
      BY <1>10, <2>2, <3>1 DEF Revokes, Siblings
    <3>3. u \in Siblings(s)'
      BY <1>2, <1>10, <2>2, <3>2 DEF Siblings
    <3> QED BY <1>5, <3>2, <3>3
  <2> QED BY <2>1, <2>2
<1>14. DispatchIsStored'
  BY <1>10 DEF SignalsInv, DispatchIsStored, signalRest
<1>15. InstructionSurvives'
  <2> SUFFICES ASSUME NEW s \in Revs, message'[s].state \in {"ANALYZED", "FAILED"}
               PROVE  message[s].state \in {"ANALYZED", "FAILED"}
    BY DEF SignalsInv, InstructionSurvives, signalRest
  <2> QED BY <1>3, <1>5, <1>6
<1> QED BY <1>9, <1>12, <1>13, <1>14, <1>15 DEF SignalsInv

-----------------------------------------------------------------------------
\* Where messages, texts of stored revisions and results stay, so does the invariant.
LEMMA RowsStayKeeps ==
    ASSUME SignalsInv, BatchesFit', UNCHANGED message,
           \A r \in Revs: Stored(r) => said'[r] = said[r],
           updates \subseteq updates', updates' \subseteq Revs,
           dispatch' \in [Revs -> {"none", "QUEUED", "CLAIMED", "EXPIRED"}],
           \A r \in Revs: dispatch'[r] # "none" => dispatch[r] # "none",
           covered' \in 0..MaxMessage
    PROVE  SignalsInv'
<1>1. SignalsTypeOK'
  BY DEF SignalsInv, SignalsTypeOK
<1>2. \A r \in Revs: Stored(r)' <=> Stored(r)
  BY DEF Stored
<1>3. \A r \in Revs: Siblings(r)' = Siblings(r)
  BY <1>2 DEF Siblings
<1>4. OneVoice'
  BY <1>2, <1>3 DEF SignalsInv, OneVoice
<1>5. DispatchIsStored'
  BY <1>2 DEF SignalsInv, DispatchIsStored
<1>6. InstructionSurvives'
  <2> SUFFICES ASSUME NEW r \in Revs, message[r].state \in {"ANALYZED", "FAILED"},
                      said'[r] = "manage"
               PROVE  r \in updates'
    BY DEF InstructionSurvives
  <2> QED BY DEF SignalsInv, InstructionSurvives, Stored
<1> QED BY <1>1, <1>4, <1>5, <1>6 DEF SignalsInv

\* SELECT ... FOR UPDATE SKIP LOCKED
LEMMA SelectKeeps ==
    ASSUME SignalsInv, NEW a \in Analyzers, SelectBatch(a)
    PROVE  SignalsInv'
<1>1. /\ analyzer' = [analyzer EXCEPT ![a] = Batch] /\ UNCHANGED <<intakeVars, dispatch, updates>>
      /\ analyzer \in [Analyzers -> SUBSET Revs]
  BY DEF SelectBatch, SignalsInv, BatchesFit
<1>2. /\ Batch \in SUBSET Revs
      /\ \A r \in Batch: message[r].state = "RECEIVED" /\ message[r].reason = "none"
  BY DEF Batch, Eligible
<1>3. \A b \in Analyzers: Batch \cap analyzer[b] = {}
  BY DEF Batch, Locked
<1>4. analyzer' \in [Analyzers -> SUBSET Revs] /\ analyzer'[a] = Batch
      /\ \A b \in Analyzers \ {a}: analyzer'[b] = analyzer[b]
  BY <1>1, <1>2
<1>5. BatchesFit'
  <2>1. \A b \in Analyzers: \A r \in analyzer'[b]:
          message[r].state = "RECEIVED" /\ message[r].reason = "none"
    BY <1>2, <1>4 DEF SignalsInv, BatchesFit
  <2>2. \A b, c \in Analyzers: b # c => analyzer'[b] \cap analyzer'[c] = {}
    BY <1>3, <1>4 DEF SignalsInv, BatchesFit
  <2> QED BY <1>1, <1>4, <2>1, <2>2 DEF SignalsInv, BatchesFit, intakeVars, Stored
<1> QED BY <1>1, <1>5, RowsStayKeeps DEF SignalsInv, SignalsTypeOK, intakeVars

\* A row the analyzer is done with: its text is enrolled if it is an instruction.
LEMMA AnalyzedRow ==
    ASSUME SignalsTypeOK, NEW r \in Revs, message[r].state = "RECEIVED",
           message[r].reason = "none", NEW outcome \in {"signal", "nothing", "failed", "late"}
    PROVE  /\ Analyzed(r, outcome) \in Rows
           /\ Analyzed(r, outcome).state # "none"
           /\ Analyzed(r, outcome).reason # "edited"
<1>1. message[r] \in Rows
  BY TypesOfRows
<1>2. [message[r] EXCEPT !.state = "ANALYZED"] \in Rows
      /\ [message[r] EXCEPT !.state = "ANALYZED"].state = "ANALYZED"
      /\ [message[r] EXCEPT !.state = "ANALYZED"].reason = message[r].reason
  <2>1. "ANALYZED" \in States
    BY DEF States
  <2> QED BY <1>1, <2>1, Zenon DEF Rows
<1>3. \/ Analyzed(r, outcome) = [state |-> "EXPIRED", reason |-> "stale"]
      \/ Analyzed(r, outcome) = [state |-> "FAILED", reason |-> "failed"]
      \/ Analyzed(r, outcome) = [message[r] EXCEPT !.state = "ANALYZED"]
  BY DEF Analyzed
<1>4. "EXPIRED" \in States /\ "FAILED" \in States /\ "stale" \in Reasons /\ "failed" \in Reasons
  BY DEF States, Reasons
<1>5. CASE Analyzed(r, outcome) = [message[r] EXCEPT !.state = "ANALYZED"]
  <2>1. "ANALYZED" # "none" /\ "none" # "edited"
    OBVIOUS
  <2> QED BY <1>2, <1>5, <2>1, Zenon
<1>6. CASE Analyzed(r, outcome) = [state |-> "EXPIRED", reason |-> "stale"]
  BY <1>4, <1>6 DEF Rows
<1>7. CASE Analyzed(r, outcome) = [state |-> "FAILED", reason |-> "failed"]
  BY <1>4, <1>7 DEF Rows
<1> QED BY <1>3, <1>5, <1>6, <1>7

\* process_received_batch commits: rows, dispatches and instructions at once.
LEMMA CommitKeeps ==
    ASSUME SignalsInv, NEW a \in Analyzers, CommitBatch(a)
    PROVE  SignalsInv'
<1>1. PICK outcome \in [analyzer[a] -> {"signal", "nothing", "failed", "late"}] :
         /\ message' = [r \in Revs |-> IF r \in analyzer[a] THEN Analyzed(r, outcome[r])
                                                           ELSE message[r]]
         /\ dispatch' = [r \in Revs |->
               IF r \in analyzer[a] /\ outcome[r] = "signal" /\ dispatch[r] = "none"
               THEN "QUEUED" ELSE dispatch[r]]
         /\ updates' = updates \cup {r \in analyzer[a]: Enrolled(r, outcome[r])}
  BY DEF CommitBatch
<1>2. /\ analyzer \in [Analyzers -> SUBSET Revs] /\ analyzer[a] \subseteq Revs
      /\ analyzer' = [analyzer EXCEPT ![a] = {}]
      /\ UNCHANGED <<said, gone, fresh, covered, catching>>
  BY DEF CommitBatch, SignalsInv, BatchesFit
<1>3. /\ message \in [Revs -> Rows]
      /\ \A r \in Revs: message[r].state \in States /\ message[r].reason \in Reasons
  BY TypesOfRows DEF SignalsInv
<1>4. \A r \in analyzer[a]: message[r].state = "RECEIVED" /\ message[r].reason = "none"
  BY DEF SignalsInv, BatchesFit
<1>5. /\ \A r \in analyzer[a]: /\ message'[r] = Analyzed(r, outcome[r])
                               /\ message'[r] \in Rows /\ message'[r].state # "none"
                               /\ message'[r].reason # "edited"
      /\ \A r \in Revs \ analyzer[a]: message'[r] = message[r]
  BY <1>1, <1>2, <1>4, AnalyzedRow DEF SignalsInv
<1>6. message' \in [Revs -> Rows]
  <2>1. \A r \in Revs: message'[r] \in Rows
    BY <1>3, <1>5
  <2>2. message' = [r \in Revs |-> message'[r]]
    BY <1>1
  <2> QED BY <2>1, <2>2, Zenon
<1>7. SignalsTypeOK'
  <2>1. dispatch' \in [Revs -> {"none", "QUEUED", "CLAIMED", "EXPIRED"}]
    BY <1>1 DEF SignalsInv, SignalsTypeOK
  <2>2. updates' \subseteq Revs
    BY <1>1, <1>2 DEF SignalsInv, SignalsTypeOK
  <2> QED BY <1>2, <1>6, <2>1, <2>2 DEF SignalsInv, SignalsTypeOK, Rows, States, Reasons
<1>8. /\ \A r \in Revs: Stored(r)' <=> Stored(r)
      /\ \A r \in analyzer[a]: Stored(r)
  BY <1>4, <1>5 DEF Stored
<1>9. BatchesFit'
  <2>1. analyzer' \in [Analyzers -> SUBSET Revs] /\ analyzer'[a] = {}
        /\ \A b \in Analyzers \ {a}: analyzer'[b] = analyzer[b]
    BY <1>2
  <2>2. \A b \in Analyzers \ {a}: \A r \in analyzer[b]: r \in Revs \ analyzer[a]
    BY <1>2 DEF SignalsInv, BatchesFit
  <2>3. \A b \in Analyzers: \A r \in analyzer'[b]:
          message'[r].state = "RECEIVED" /\ message'[r].reason = "none"
    BY <1>5, <2>1, <2>2 DEF SignalsInv, BatchesFit
  <2>4. \A b, c \in Analyzers: b # c => analyzer'[b] \cap analyzer'[c] = {}
    BY <2>1 DEF SignalsInv, BatchesFit
  <2> QED BY <1>2, <1>8, <2>1, <2>3, <2>4 DEF SignalsInv, BatchesFit
<1>10. OneVoice'
  <2> SUFFICES ASSUME NEW s \in Revs, NEW t \in Revs, s[1] = t[1], Stored(s)', Stored(t)',
                      said[s] # said[t]
               PROVE  \E u \in Siblings(s)': message'[u].reason = "edited"
    BY <1>2 DEF OneVoice
  <2>1. PICK u \in Siblings(s) : message[u].reason = "edited"
    BY <1>8 DEF SignalsInv, OneVoice
  <2>2. u \in Revs \ analyzer[a]
    BY <1>4, <2>1 DEF Siblings
  <2>3. u \in Siblings(s)'
    BY <1>8, <2>1 DEF Siblings
  <2> QED BY <1>5, <2>1, <2>2, <2>3
<1>11. DispatchIsStored'
  BY <1>1, <1>8 DEF SignalsInv, DispatchIsStored
<1>12. InstructionSurvives'
  <2> SUFFICES ASSUME NEW r \in Revs, message'[r].state \in {"ANALYZED", "FAILED"},
                      said[r] = "manage"
               PROVE  r \in updates'
    BY <1>2 DEF InstructionSurvives
  <2>1. CASE r \in analyzer[a]
    BY <1>1, <2>1 DEF Enrolled
  <2>2. CASE r \notin analyzer[a]
    BY <1>1, <1>5, <2>2 DEF SignalsInv, InstructionSurvives
  <2> QED BY <2>1, <2>2
<1> QED BY <1>7, <1>9, <1>10, <1>11, <1>12 DEF SignalsInv

\* A batch is rolled back.
LEMMA DieKeeps ==
    ASSUME SignalsInv, NEW a \in Analyzers, AnalyzerDies(a)
    PROVE  SignalsInv'
<1>1. /\ analyzer' \in [Analyzers -> SUBSET Revs]
      /\ \A b \in Analyzers: analyzer'[b] = {} \/ analyzer'[b] = analyzer[b]
      /\ UNCHANGED <<intakeVars, dispatch, updates>>
  BY DEF AnalyzerDies, SignalsInv, BatchesFit
<1>2. \A b \in Analyzers: \A r \in analyzer'[b]:
          message[r].state = "RECEIVED" /\ message[r].reason = "none"
  BY <1>1 DEF SignalsInv, BatchesFit
<1>3. \A b, c \in Analyzers: b # c => analyzer'[b] \cap analyzer'[c] = {}
  <2> SUFFICES ASSUME NEW b \in Analyzers, NEW c \in Analyzers, b # c
               PROVE  analyzer'[b] \cap analyzer'[c] = {}
    OBVIOUS
  <2>1. analyzer[b] \cap analyzer[c] = {}
    BY DEF SignalsInv, BatchesFit
  <2> QED BY <1>1, <2>1
<1>4. BatchesFit'
  BY <1>1, <1>2, <1>3 DEF SignalsInv, BatchesFit, intakeVars, Stored
<1> QED BY <1>1, <1>4, RowsStayKeeps DEF SignalsInv, SignalsTypeOK, intakeVars

\* A new text is of a revision that nobody has stored.
LEMMA SaidKeeps ==
    ASSUME SignalsInv, NEW q \in Revs, said[q] = "none", NEW t \in Texts,
           said' = [said EXCEPT ![q] = t], UNCHANGED channelRest,
           fresh' \subseteq Ids, UNCHANGED gone
    PROVE  SignalsInv'
<1>1. said' \in [Revs -> Texts] /\ \A r \in Revs: r # q => said'[r] = said[r]
  BY DEF SignalsInv, BatchesFit
<1>2. \A r \in Revs: Stored(r) => r # q /\ said'[r] = said[r]
  BY <1>1 DEF SignalsInv, BatchesFit
<1>3. BatchesFit'
  BY <1>1, <1>2 DEF SignalsInv, BatchesFit, channelRest, Stored
<1> QED BY <1>2, <1>3, RowsStayKeeps DEF SignalsInv, SignalsTypeOK, channelRest

\* A number of a message and a number of one of its edits make a revision.
LEMMA RevIsTyped ==
    ASSUME NEW i \in Ids, NEW n \in 0..MaxEdits[i]
    PROVE  <<i, n>> \in Revs
<1>1. <<i, n>> \in {i} \X (0..MaxEdits[i])
  OBVIOUS
<1> QED BY <1>1, Zenon DEF Revs

\* The channel publishes, edits and deletes; a message leaves its window.
LEMMA ChannelKeeps ==
    ASSUME SignalsInv, NEW i \in Ids, Publish(i) \/ Edit(i) \/ Delete(i) \/ GoStale(i)
    PROVE  SignalsInv'
<1>1. \A q \in Revs: q \notin Written(q[1]) => said[q] = "none"
  BY DEF Written
<1>2. MaxEdits[i] \in Nat /\ Says[i] \subseteq Texts
  BY DEF SignalsAssumption, Ids, Texts
<1>3. ASSUME Publish(i) PROVE SignalsInv'
  <2>1. PICK t \in Says[i] : said' = [said EXCEPT ![<<i, 0>>] = t]
    BY <1>3 DEF Publish
  <2>2. <<i, 0>> \in Revs /\ said[<<i, 0>>] = "none"
    <3>1. <<i, 0>> \in Revs
      BY <1>2, RevIsTyped
    <3> QED BY <1>1, <1>3, <3>1 DEF Publish
  <2>3. PICK q \in Revs : q = <<i, 0>>
    BY <2>2
  <2>4. fresh' \subseteq Ids /\ UNCHANGED <<gone, channelRest>>
    BY <1>3 DEF Publish, SignalsInv, BatchesFit
  <2>5. said' = [said EXCEPT ![q] = t] /\ said[q] = "none" /\ t \in Texts
    BY <1>2, <2>1, <2>2, <2>3
  <2> QED BY <2>4, <2>5, SaidKeeps
<1>4. ASSUME Edit(i) PROVE SignalsInv'
  <2>1. Written(i) # {}
    BY <1>4 DEF Edit, Extant
  <2>2. Current(i) \in Written(i) /\ \A s \in Written(i): s[2] <= Current(i)[2]
    <3> DEFINE N == {r[2]: r \in Written(i)}
    <3>1. \A r \in Written(i): r \in Revs /\ r[1] = i /\ r[2] \in 0..MaxEdits[i]
      BY RevFields DEF Written
    <3>2. N \in SUBSET (0..MaxEdits[i]) /\ N # {}
      BY <2>1, <3>1
    <3>3. PICK m \in N : \A y \in N: y <= m
      BY <1>2, <3>2, GreatestExists
    <3>4. PICK r \in Written(i) : m = r[2]
      OBVIOUS
    <3>5. \A s \in Written(i): s[2] <= r[2]
      BY <3>3, <3>4
    <3> QED BY <3>5 DEF Current
  <2>3. PICK n \in Nat : n = Current(i)[2]
    BY <2>2, RevFields, <1>2 DEF Written
  <2>4. n + 1 \in 0..MaxEdits[i]
    BY <1>2, <1>4, <2>3 DEF Edit
  <2>5. PICK q \in Revs : q = <<i, n + 1>>
    BY <2>4, RevIsTyped
  <2>6. said[q] = "none"
    <3>1. q[2] = n + 1 /\ q[1] = i
      BY <2>5
    <3>2. q \notin Written(i)
      BY <2>2, <2>3, <3>1
    <3> QED BY <1>1, <3>1, <3>2
  <2>7. PICK t \in Says[i] : said' = [said EXCEPT ![q] = t]
    BY <1>4, <2>3, <2>5 DEF Edit
  <2>8. UNCHANGED <<gone, fresh, channelRest>>
    BY <1>4 DEF Edit
  <2>9. t \in Texts /\ fresh' \subseteq Ids
    BY <1>2, <2>7, <2>8 DEF SignalsInv, BatchesFit
  <2> QED BY <2>6, <2>7, <2>8, <2>9, SaidKeeps
<1>5. ASSUME Delete(i) \/ GoStale(i) PROVE SignalsInv'
  <2>1. UNCHANGED <<said, channelRest>> /\ gone' \subseteq Ids /\ fresh' \subseteq Ids
    BY <1>5 DEF Delete, GoStale, SignalsInv, BatchesFit
  <2>2. BatchesFit'
    BY <2>1 DEF SignalsInv, BatchesFit, channelRest, Stored
  <2> QED BY <2>1, <2>2, RowsStayKeeps DEF SignalsInv, SignalsTypeOK, channelRest
<1> QED BY <1>3, <1>4, <1>5

\* A message is stored as it comes, as the newest one, or as the next one that was missed.
LEMMA IntakeKeeps ==
    ASSUME SignalsInv,
           \/ \E r \in Revs: Realtime(r)
           \/ Backfill \/ CatchUp
    PROVE  SignalsInv'
<1>1. \A i \in Ids: \A r \in Written(i): r \in Revs /\ said[r] # "none"
  BY DEF Written
<1>2. CASE \E r \in Revs: Realtime(r)
  <2>1. PICK r \in Revs : Realtime(r)
    BY <1>2
  <2>2. said[r] # "none" /\ Save(r) /\ UNCHANGED signalRest /\ catching' \in 0..MaxMessage
    BY <2>1 DEF Realtime, SignalsInv, BatchesFit
  <2> QED BY <2>2, SaveKeeps
<1>3. CASE Backfill
  <2>1. Latest \in Ids /\ Written(Latest) # {}
    BY <1>3, LatestIsExtant DEF Backfill, Extant
  <2>2. PICK r \in Revs : r = Current(Latest) /\ said[r] # "none"
    BY <1>1, <2>1, CurrentIsWritten
  <2>3. Save(r) /\ UNCHANGED signalRest /\ catching' \in 0..MaxMessage
    BY <1>3, <2>2 DEF Backfill, SignalsInv, BatchesFit
  <2> QED BY <2>2, <2>3, SaveKeeps
<1>4. CASE CatchUp
  <2> DEFINE missed == {i \in Extant: i > covered}
  <2>1. /\ missed # {} /\ catching' = CHOOSE i \in missed: \A k \in missed: i <= k
        /\ \E r \in Written(catching'): Save(r)
        /\ UNCHANGED signalRest
    BY <1>4 DEF CatchUp, Missed, NextMissed
  <2>2. missed \subseteq Ids /\ missed \subseteq Nat
    BY DEF Extant, Ids, SignalsAssumption
  <2>3. catching' \in Ids
    <3>1. PICK d \in missed : \A e \in missed : ~ (<<e, d>> \in OpToRel(<, Nat))
      BY <2>1, <2>2, NatLessThanWellFounded, WFMin
    <3>2. \A e \in missed : d <= e
      <4> SUFFICES ASSUME NEW e \in missed PROVE d <= e
        OBVIOUS
      <4>1. e \in Nat /\ d \in Nat
        BY <2>2
      <4>2. ~ (e < d)
        BY <3>1, <4>1 DEF OpToRel
      <4> QED BY <4>1, <4>2
    <3>3. (CHOOSE i \in missed: \A k \in missed: i <= k) \in missed
      BY <3>2
    <3> HIDE DEF missed
    <3> QED BY <2>1, <2>2, <3>3
  <2>4. PICK r \in Written(catching') : Save(r)
    BY <2>1
  <2>5. r \in Revs /\ said[r] # "none" /\ catching' \in 0..MaxMessage
    BY <1>1, <2>3, <2>4 DEF Ids, SignalsAssumption
  <2> QED BY <2>1, <2>4, <2>5, SaveKeeps
<1> QED BY <1>2, <1>3, <1>4

\* The watermark moves, or the pass fails; the dispatcher takes up a dispatch.
LEMMA WatermarkKeeps ==
    ASSUME SignalsInv,
           CatchUpAdvance \/ CatchUpFails \/ \E r \in Revs: TakeUp(r)
    PROVE  SignalsInv'
<1>1. /\ UNCHANGED <<message, said, gone, fresh, analyzer, updates>>
      /\ catching' \in 0..MaxMessage /\ covered' \in 0..MaxMessage
  BY DEF CatchUpAdvance, CatchUpFails, TakeUp, signalRest, intakeVars, SignalsInv, BatchesFit,
         SignalsTypeOK, SignalsAssumption
<1>2. /\ dispatch' \in [Revs -> {"none", "QUEUED", "CLAIMED", "EXPIRED"}]
      /\ \A r \in Revs: dispatch'[r] # "none" => dispatch[r] # "none"
  BY DEF CatchUpAdvance, CatchUpFails, TakeUp, signalRest, SignalsInv, SignalsTypeOK
<1>3. BatchesFit'
  BY <1>1 DEF SignalsInv, BatchesFit, Stored
<1> QED BY <1>1, <1>2, <1>3, RowsStayKeeps DEF SignalsInv, SignalsTypeOK

-----------------------------------------------------------------------------
\* At the start nothing was said.
LEMMA SignalsStart == SignalsInit => SignalsInv
<1> SUFFICES ASSUME SignalsInit PROVE SignalsInv
  OBVIOUS
<1>1. \A r \in Revs: message[r] = NoMessage /\ ~Stored(r)
  BY DEF SignalsInit, Stored, NoMessage
<1>2. SignalsTypeOK
  BY DEF SignalsInit, SignalsTypeOK, NoMessage, SignalsAssumption
<1>3. BatchesFit
  BY <1>1 DEF SignalsInit, BatchesFit, Texts, SignalsAssumption
<1> QED BY <1>1, <1>2, <1>3
        DEF SignalsInv, SignalsInit, OneVoice, DispatchIsStored, InstructionSurvives, NoMessage

\* Every step of channel, intake, analyzer and dispatcher keeps the invariant.
LEMMA SignalsSteps == SignalsInv /\ [SignalsNext]_signalVars => SignalsInv'
<1> SUFFICES ASSUME SignalsInv, [SignalsNext]_signalVars PROVE SignalsInv'
  OBVIOUS
<1>1. CASE UNCHANGED signalVars
  <2>1. BatchesFit'
    BY <1>1 DEF SignalsInv, BatchesFit, signalVars, intakeVars, Stored
  <2> QED BY <1>1, <2>1, RowsStayKeeps
          DEF SignalsInv, SignalsTypeOK, signalVars, intakeVars
<1>2. CASE SignalsNext
  BY <1>2, IntakeKeeps, WatermarkKeeps, SelectKeeps, CommitKeeps, DieKeeps, ChannelKeeps
     DEF SignalsNext, CatchUpStep, AnalyzerStep
<1> QED BY <1>1, <1>2

\* The invariant of intake and analyzer.
THEOREM SignalsInvariant == SignalsSpec => []SignalsInv
<1> QED BY SignalsStart, SignalsSteps, PTL DEF SignalsSpec

\* Messages, dispatches and updates stay in their ranges.
THEOREM SignalsTypeCorrect == SignalsSpec => []SignalsTypeOK
<1>1. SignalsInv => SignalsTypeOK
  BY DEF SignalsInv
<1> QED BY <1>1, SignalsInvariant, PTL

\* A message the analyzer is done with has its instruction in the queue.
THEOREM InstructionsSurvive == SignalsSpec => []InstructionSurvives
<1>1. SignalsInv => InstructionSurvives
  BY DEF SignalsInv
<1> QED BY <1>1, SignalsInvariant, PTL

\* A dispatch is taken up only while all that is stored of its message says the same.
THEOREM VetoHolds == SignalsSpec => VetoStands
<1>1. ASSUME SignalsInv, [SignalsNext]_signalVars
      PROVE  [\A r \in Revs: dispatch[r] = "QUEUED" /\ dispatch'[r] = "CLAIMED" =>
                \A s \in Siblings(r): said[s] = said[r]]_signalVars
  <2> SUFFICES ASSUME SignalsNext, NEW r \in Revs, dispatch[r] = "QUEUED",
                      dispatch'[r] = "CLAIMED", NEW s \in Siblings(r)
               PROVE  said[s] = said[r]
    BY <1>1
  <2>1. Stored(r)
    BY <1>1 DEF SignalsInv, DispatchIsStored
  <2>2. Eligible(r)
    <3>1. dispatch' # dispatch
      OBVIOUS
    <3>2. ASSUME NEW a \in Analyzers, CommitBatch(a) PROVE FALSE
      BY <3>2 DEF CommitBatch
    <3>3. ASSUME NEW q \in Revs, TakeUp(q) PROVE Eligible(r)
      BY <1>1, <3>3 DEF TakeUp, SignalsInv, SignalsTypeOK
    <3> QED BY <3>1, <3>2, <3>3
            DEF SignalsNext, Realtime, Backfill, CatchUpStep, CatchUp, CatchUpAdvance,
                CatchUpFails, AnalyzerStep, SelectBatch, AnalyzerDies, Publish, Edit, Delete,
                GoStale, Save, signalRest, channelRest
  <2>3. \A t \in Siblings(r): message[t].reason # "edited"
    BY <2>2 DEF Eligible
  <2> QED BY <1>1, <2>1, <2>3 DEF SignalsInv, OneVoice, Siblings
<1> QED BY <1>1, SignalsInvariant, PTL DEF SignalsSpec, VetoStands

HIDE SignalsAssumption

-----------------------------------------------------------------------------
(* Source management: the invariant *)

\* Where the dispatcher can be.
EntryPcs == {"idle", "market", "marketsent", "protect", "claimleg", "check", "post",
             "legsent", "over"}

\* Where the source-management process has an update in hand.
Working  == {"cancel", "before", "cancelpost", "after", "root", "positions", "claim",
             "close", "closed"}

\* Where the source-management process can be.
ManagerPcs == Working \cup {"idle", "look", "stop", "stopped"}

\* The states of a leg's row.
LegStates  == {"absent", "staged", "requested", "acknowledged", "partially_filled",
               "filled", "rejected", "cancelled", "unknown"}

\* What the venue may answer about an order.
Readings   == [state: LegStates, filled: 0..LimitQty, terminal: BOOLEAN]

\* The market leg's row.
RootRows   == [state: LegStates, filled: 0..MarketQty]

\* What the venue knows of an order.
Orders     == [at: {"none", "sent", "open", "gone"}, filled: 0..LimitQty]

\* The source-management process.
Managers   == [pc: ManagerPcs, mem: LegRow, seen: 0..4, qty: 0..4]

\* The update's row.
UpdateRows == [action: {"CLOSE", "TP1_BOOKED", "TP_BOOKED", "SL_TO_ENTRY"},
               state: Settled \cup {"queued", "claimed", "reconciliation-pending"},
               attempts: 0..MaxAttempts, intents: SUBSET {"close", "stop"}]

\* Every variable has its type, the position is not negative, and nothing was posted twice.
Shape ==
    /\ leg \in LegRow /\ root \in RootRows
    /\ mkt \in Orders /\ mkt.filled <= MarketQty /\ lim \in Orders
    /\ net \in 0..4 /\ net <= mkt.filled + lim.filled
    /\ wire \in [cancel: BOOLEAN, close: 0..4]
    /\ entry \in [pc: EntryPcs, mem: LegRow]
    /\ recovery \in [busy: BOOLEAN, staged: BOOLEAN, filled: 0..LimitQty]
    /\ update \in UpdateRows /\ manager \in Managers
    /\ current \in BOOLEAN /\ crashes \in Nat
    /\ sent \in [Mutations -> 0..1] /\ overrun \in BOOLEAN

\* Only a claimed update is worked on, and an open one has attempts left.
Budget ==
    /\ update.state \notin Settled => update.attempts < MaxAttempts
    /\ manager.pc # "idle" => update.state = "claimed"

\* Before claim_split there is nothing to read back, to cancel or to recover.
Unsplit ==
    entry.pc = "idle" =>
        /\ leg = NoLeg /\ root = [state |-> "absent", filled |-> 0]
        /\ ~recovery.busy
        /\ manager.pc \notin {"before", "cancelpost", "after", "root"}

\* An order is posted at its step of _submit_split and nowhere else.
Posted ==
    /\ entry.pc \in {"idle", "market"} => sent["market"] = 0 /\ mkt = NoEntryOrder
    /\ mkt.at = "sent" => mkt.filled = 0
    /\ entry.pc \notin {"legsent", "over"} => sent["limit"] = 0 /\ lim.at = "none"

\* The cancel is posted once for the one claim of its POST.
CancelPosted ==
    /\ sent["cancel"] = 1 => leg.cancelPost
    /\ manager.pc = "cancelpost" => leg.cancelPost /\ sent["cancel"] = 0

\* A close and a stop are posted for a persisted intent, and each intent is persisted once.
Intended ==
    /\ sent["close"] = 1 => "close" \in update.intents
    /\ sent["stop"] = 1 => "stop" \in update.intents
    /\ manager.pc = "close" => "close" \in update.intents /\ sent["close"] = 0
    /\ manager.pc = "stop" => "stop" \in update.intents /\ sent["stop"] = 0
    /\ manager.pc \in {"claim", "close", "closed"} => update.action # "TP_BOOKED"
    /\ manager.pc = "claim" /\ update.action = "TP1_BOOKED" => "close" \notin update.intents
    /\ update.action = "TP_BOOKED" => "stop" \notin update.intents
    /\ manager.pc \in Working /\ update.action # "CLOSE" => "stop" \notin update.intents

\* The inductive invariant of source management.
ManageInv == Shape /\ Budget /\ Unsplit /\ Posted /\ CancelPosted /\ Intended

-----------------------------------------------------------------------------
(* Rows and readings *)

\* Update keeps the cancel fence and never takes terminal back.
LEMMA UpdateRow ==
    ASSUME NEW row \in LegRow, NEW r \in Readings
    PROVE  /\ Update(row, r) \in LegRow
           /\ Update(row, r).state = r.state
           /\ Update(row, r).terminal <=> (row.terminal \/ r.terminal)
           /\ Update(row, r).cancelBy = row.cancelBy
           /\ Update(row, r).cancelPost = row.cancelPost
<1>1. (row.terminal \/ r.terminal) \in BOOLEAN
  OBVIOUS
<1>2. r.state \in LegStates /\ r.filled \in 0..LimitQty
  BY DEF Readings
<1>3. LegRow = [state: LegStates, filled: 0..LimitQty, terminal: BOOLEAN,
                cancelBy: BOOLEAN, cancelPost: BOOLEAN]
  BY DEF LegRow, LegStates
<1> DEFINE t == row.terminal \/ r.terminal
           g == [row EXCEPT !.state = r.state, !.filled = r.filled, !.terminal = t]
<1>4. Update(row, r) = g
  BY Zenon DEF Update
<1>5. t \in BOOLEAN
  BY <1>1
<1> HIDE DEF t
<1>6. g \in LegRow /\ g.state = r.state /\ g.terminal = t /\ g.cancelBy = row.cancelBy
      /\ g.cancelPost = row.cancelPost
  BY <1>2, <1>3, <1>5, Zenon
<1> QED BY <1>4, <1>6 DEF t

\* What an order detail may say of an order.
LEMMA ReadingOfOrder ==
    ASSUME NEW order \in Orders, NEW qty \in Nat
    PROVE  LET r == Reading(order, qty)
           IN  /\ r \in Readings
               /\ r.state \notin {"absent", "staged", "cancelled"}
               /\ r.filled <= order.filled
               /\ r.terminal => order.at = "gone"
<1>1. CASE order.at \in {"none", "sent"}
  <2> DEFINE s == IF Size = 0 /\ mkt.at \in Dead THEN "rejected" ELSE "unknown"
  <2>1. s \in {"rejected", "unknown"}
    OBVIOUS
  <2> HIDE DEF s
  <2>2. Reading(order, qty) = [state |-> s, filled |-> 0, terminal |-> FALSE]
    BY <1>1 DEF Reading, s
  <2> QED BY <2>1, <2>2 DEF Readings, LegStates, Orders, LimitQty, MarketQty
<1>2. CASE order.at \notin {"none", "sent"}
  <2> DEFINE s == IF order.filled = qty THEN "filled"
                  ELSE IF order.filled > 0 THEN "partially_filled"
                  ELSE IF order.at = "open" THEN "acknowledged"
                  ELSE "rejected"
  <2>1. s \in {"filled", "partially_filled", "acknowledged", "rejected"}
    OBVIOUS
  <2> DEFINE t == order.at = "gone"
  <2>2. Reading(order, qty) = [state |-> s, filled |-> order.filled, terminal |-> t]
    BY <1>2 DEF Reading
  <2>3. s \in LegStates /\ s \notin {"absent", "staged", "cancelled"} /\ t \in BOOLEAN
    BY <2>1 DEF LegStates
  <2>4. order.filled \in 0..LimitQty /\ order.filled <= order.filled
    BY DEF Orders, LimitQty, MarketQty
  <2>5. t => order.at = "gone"
    OBVIOUS
  <2> HIDE DEF s, t
  <2> DEFINE g == [state |-> s, filled |-> order.filled, terminal |-> t]
  <2>6. g \in Readings /\ g.state = s /\ g.filled = order.filled /\ g.terminal = t
    BY <2>3, <2>4, Zenon DEF Readings
  <2>7. Reading(order, qty) = g
    BY <2>2
  <2> HIDE DEF g
  <2> QED BY <2>3, <2>4, <2>5, <2>6, <2>7
<1> QED BY <1>1, <1>2

\* A leg that is withdrawn or refused is terminal.
LEMMA RetiredReading ==
    ASSUME NEW mem, mem.filled \in 0..LimitQty
    PROVE  /\ Withdrawn(mem) \in Readings /\ Refused(mem) \in Readings
           /\ Withdrawn(mem).state = "cancelled" /\ Refused(mem).state = "rejected"
           /\ Withdrawn(mem).terminal /\ Refused(mem).terminal
  BY DEF Withdrawn, Refused, Readings, LegStates

\* claim_cancel retires a staged leg on the spot, and no other.
LEMMA CancelClaimedRow ==
    ASSUME NEW row \in LegRow
    PROVE  LET c == CancelClaimed(row)
           IN  /\ c \in LegRow /\ c.cancelPost = row.cancelPost
               /\ c.state = "staged" => c = row
               /\ c.terminal => row.terminal \/ row.state = "staged"
<1>1. CASE row.cancelBy \/ row.terminal \/ row.state = "absent"
  BY <1>1 DEF CancelClaimed
<1>2. CASE ~(row.cancelBy \/ row.terminal \/ row.state = "absent")
  <2> DEFINE t == row.state = "staged"
             s == IF row.state = "staged" THEN "cancelled" ELSE row.state
             g == [row EXCEPT !.cancelBy = TRUE, !.terminal = t, !.state = s]
  <2>1. LegRow = [state: LegStates, filled: 0..LimitQty, terminal: BOOLEAN,
                  cancelBy: BOOLEAN, cancelPost: BOOLEAN]
    BY DEF LegRow, LegStates
  <2>2. s \in LegStates /\ s # "staged" /\ t \in BOOLEAN
    BY DEF LegRow, LegStates
  <2>3. CancelClaimed(row) = g
    BY <1>2, Zenon DEF CancelClaimed
  <2> HIDE DEF s, t
  <2>4. g \in LegRow /\ g.cancelPost = row.cancelPost /\ g.state = s /\ g.terminal = t
    BY <2>1, <2>2, Zenon
  <2> QED BY <2>2, <2>3, <2>4 DEF t
<1> QED BY <1>1, <1>2

\* What source management does to the leg's row.
LegManaged ==
    \/ leg' = leg
    \/ leg' = Update(leg, Reading(lim, LimitQty))
    \/ leg' = CancelClaimed(leg)
    \/ leg' = [leg EXCEPT !.cancelPost = TRUE]

\* Whatever that is, the row keeps its type and the claim of the cancel POST.
LEMMA ManagedLeg ==
    ASSUME Shape, LegManaged
    PROVE  leg' \in LegRow /\ (leg.cancelPost => leg'.cancelPost)
<1>1. leg \in LegRow /\ lim \in Orders /\ LimitQty \in Nat
  BY DEF Shape, LimitQty, MarketQty
<1>2. CASE leg' = leg
  BY <1>1, <1>2
<1>3. CASE leg' = Update(leg, Reading(lim, LimitQty))
  BY <1>1, <1>3, ReadingOfOrder, UpdateRow
<1>4. CASE leg' = CancelClaimed(leg)
  BY <1>1, <1>4, CancelClaimedRow
<1>5. CASE leg' = [leg EXCEPT !.cancelPost = TRUE]
  <2>1. leg' \in LegRow /\ leg'.cancelPost = TRUE
    BY <1>1, <1>5, Zenon DEF LegRow
  <2> QED BY <2>1
<1> QED BY <1>2, <1>3, <1>4, <1>5 DEF LegManaged

\* The market leg's row is overwritten by what its order says.
LEMMA RecoveredRootIsTyped ==
    ASSUME Shape
    PROVE  /\ RecoveredRoot \in RootRows
           /\ [state |-> Reading(mkt, MarketQty).state,
               filled |-> Reading(mkt, MarketQty).filled] \in RootRows
<1> DEFINE r == Reading(mkt, MarketQty)
<1>1. r \in Readings /\ r.filled <= mkt.filled /\ mkt.filled <= MarketQty
  BY ReadingOfOrder DEF Shape, MarketQty
<1>2. r.state \in LegStates /\ r.filled \in 0..MarketQty
  BY <1>1 DEF Readings, Shape, Orders, LimitQty, MarketQty
<1> HIDE DEF r
<1>3. [state |-> r.state, filled |-> r.filled] \in RootRows
  BY <1>2 DEF RootRows
<1>4. RecoveredRoot = IF r.filled < root.filled THEN root
                      ELSE [state |-> r.state, filled |-> r.filled]
  BY DEF RecoveredRoot, r
<1> QED BY <1>3, <1>4 DEF r, Shape

-----------------------------------------------------------------------------
(* The dispatcher *)

\* A step of the dispatcher moves it on, and leaves the fence of the cancel alone.
LEMMA EntryKeeps ==
    ASSUME ManageInv, UNCHANGED entryRest,
           leg' \in LegRow, leg.cancelPost => leg'.cancelPost, root' \in RootRows,
           mkt' \in Orders, mkt'.filled = mkt.filled,
           lim' \in Orders, lim'.filled = lim.filled,
           entry' \in [pc: EntryPcs, mem: LegRow], entry'.pc # "idle",
           sent' \in [Mutations -> 0..1],
           \A m \in {"cancel", "close", "stop"}: sent'[m] = sent[m],
           Posted'
    PROVE  ManageInv'
<1>1. Shape'
  BY DEF ManageInv, Shape, entryRest
<1>2. Budget' /\ Intended'
  BY DEF ManageInv, Budget, Intended, entryRest
<1>3. CancelPosted'
  BY DEF ManageInv, CancelPosted, entryRest
<1> QED BY <1>1, <1>2, <1>3 DEF ManageInv, Unsplit

\* A step that posts nothing and changes no order.
LEMMA EntryMoves ==
    ASSUME ManageInv, NEW pc \in EntryPcs \ {"idle"}, entry'.pc = pc,
           entry' \in [pc: EntryPcs, mem: LegRow],
           pc \in {"legsent", "over"} \/ entry.pc \notin {"legsent", "over"},
           pc = "market" => entry.pc = "idle",
           leg' \in LegRow, leg.cancelPost => leg'.cancelPost, root' \in RootRows,
           UNCHANGED <<mkt, lim, sent, entryRest>>
    PROVE  ManageInv'
<1>1. /\ mkt' \in Orders /\ mkt'.filled = mkt.filled
      /\ lim' \in Orders /\ lim'.filled = lim.filled
      /\ sent' \in [Mutations -> 0..1]
      /\ \A m \in {"cancel", "close", "stop"}: sent'[m] = sent[m]
  BY DEF ManageInv, Shape
<1>2. Posted'
  BY DEF ManageInv, Posted
<1> QED BY <1>1, <1>2, EntryKeeps

\* The dispatcher goes on with its copy of the leg, or forgets it.
LEMMA ToEntryMoves ==
    ASSUME Shape, NEW pc \in EntryPcs, ToEntry(pc)
    PROVE  entry' \in [pc: EntryPcs, mem: LegRow] /\ entry'.pc = pc
<1>1. NoLeg \in LegRow /\ entry.mem \in LegRow
  BY DEF NoLeg, LegRow, Shape, LimitQty, MarketQty
<1> QED BY <1>1 DEF ToEntry

\* The leg is withdrawn or refused by the copy somebody has of it.
LEMMA RetiredLeg ==
    ASSUME Shape, NEW mem, mem.filled \in 0..LimitQty,
           NEW r \in {Withdrawn(mem), Refused(mem)}
    PROVE  /\ Update(leg, r) \in LegRow
           /\ Update(leg, r).cancelPost = leg.cancelPost
           /\ Update(leg, r).state \in {"cancelled", "rejected"}
           /\ Update(leg, r).terminal
<1>1. leg \in LegRow
  BY DEF Shape
<1>2. r \in Readings /\ r.state \in {"cancelled", "rejected"} /\ r.terminal
  BY RetiredReading
<1>3. /\ Update(leg, r) \in LegRow
      /\ Update(leg, r).state = r.state
      /\ Update(leg, r).terminal <=> (leg.terminal \/ r.terminal)
      /\ Update(leg, r).cancelPost = leg.cancelPost
  BY <1>1, <1>2, UpdateRow, Zenon
<1> QED BY <1>2, <1>3, Zenon

\* claim_split and a veto before it.
LEMMA SplitKeeps ==
    ASSUME ManageInv, ClaimSplit \/ VetoSplit
    PROVE  ManageInv'
<1> DEFINE staged == [NoLeg EXCEPT !.state = "staged"]
<1>1. staged \in LegRow /\ NoLeg \in LegRow /\ NoLeg.cancelPost = FALSE
  <2>1. NoLeg \in LegRow /\ NoLeg.cancelPost = FALSE
    BY DEF NoLeg, LegRow, LimitQty, MarketQty
  <2>2. "staged" \in LegStates
    BY DEF LegStates
  <2>3. staged \in LegRow
    BY <2>1, <2>2, Zenon DEF LegRow, LegStates
  <2> QED BY <2>1, <2>3
<1>2. [state |-> "requested", filled |-> 0] \in RootRows
  BY DEF RootRows, LegStates, MarketQty
<1>3. leg = NoLeg
  BY DEF ManageInv, Unsplit, ClaimSplit, VetoSplit, EntryAt
<1>4. "over" \in EntryPcs /\ "market" \in EntryPcs
  BY DEF EntryPcs
<1>5. CASE ClaimSplit
  <2>1. /\ leg' = staged /\ entry' = [pc |-> "market", mem |-> staged]
        /\ root' = [state |-> "requested", filled |-> 0]
        /\ entry.pc = "idle" /\ UNCHANGED <<mkt, lim, sent, entryRest>>
    BY <1>5 DEF ClaimSplit, EntryAt
  <2> HIDE DEF staged
  <2>2. entry' \in [pc: EntryPcs, mem: LegRow] /\ entry'.pc = "market"
    BY <1>1, <1>4, <2>1
  <2> QED BY <1>1, <1>2, <1>3, <1>4, <2>1, <2>2, EntryMoves
<1>6. CASE VetoSplit
  <2>1. ToEntry("over") /\ UNCHANGED <<root, leg, mkt, lim, sent, entryRest>>
    BY <1>6 DEF VetoSplit
  <2>2. leg' \in LegRow /\ root' \in RootRows
    BY <2>1 DEF ManageInv, Shape
  <2>3. entry' \in [pc: EntryPcs, mem: LegRow] /\ entry'.pc = "over"
    BY <1>4, <2>1, ToEntryMoves DEF ManageInv
  <2> QED BY <1>4, <2>1, <2>2, <2>3, EntryMoves
<1> QED BY <1>5, <1>6

\* The market leg is posted, once.
LEMMA PostMarketKeeps ==
    ASSUME ManageInv, PostMarket
    PROVE  ManageInv'
<1>1. /\ entry.pc = "market" /\ mkt' = [mkt EXCEPT !.at = "sent"]
      /\ sent' = [sent EXCEPT !["market"] = @ + 1]
      /\ ToEntry("marketsent") /\ UNCHANGED <<root, leg, lim, entryRest>>
  BY DEF PostMarket, EntryAt, Sent
<1>2. sent["market"] = 0 /\ sent \in [Mutations -> 0..1] /\ mkt = NoEntryOrder
      /\ sent["limit"] = 0 /\ lim.at = "none" /\ mkt \in Orders
  BY <1>1 DEF ManageInv, Posted, Shape
<1>3. /\ sent' \in [Mutations -> 0..1]
      /\ \A m \in {"limit", "cancel", "close", "stop"}: sent'[m] = sent[m]
  BY <1>1, <1>2 DEF Mutations
<1>4. mkt' \in Orders /\ mkt'.filled = mkt.filled /\ mkt'.filled = 0
  BY <1>1, <1>2 DEF Orders, NoEntryOrder
<1>5. entry' \in [pc: EntryPcs, mem: LegRow] /\ entry'.pc = "marketsent"
  BY <1>1, ToEntryMoves DEF ManageInv, EntryPcs
<1>6. Posted'
  BY <1>1, <1>2, <1>3, <1>4, <1>5 DEF Posted
<1>7. leg' \in LegRow /\ (leg.cancelPost => leg'.cancelPost) /\ root' \in RootRows
      /\ lim' \in Orders /\ lim'.filled = lim.filled
  BY <1>1 DEF ManageInv, Shape
<1> QED BY <1>1, <1>3, <1>4, <1>5, <1>6, <1>7, EntryKeeps

\* The limit leg is posted, once.
LEMMA PostLegKeeps ==
    ASSUME ManageInv, PostLeg
    PROVE  ManageInv'
<1>1. /\ entry.pc = "post" /\ lim' = [lim EXCEPT !.at = "sent"]
      /\ sent' = [sent EXCEPT !["limit"] = @ + 1]
      /\ ToEntry("legsent") /\ UNCHANGED <<root, leg, mkt, entryRest>>
  BY DEF PostLeg, EntryAt, Sent
<1>2. sent["limit"] = 0 /\ sent \in [Mutations -> 0..1] /\ lim \in Orders
      /\ (mkt.at = "sent" => mkt.filled = 0)
  BY <1>1 DEF ManageInv, Posted, Shape
<1>3. /\ sent' \in [Mutations -> 0..1]
      /\ \A m \in {"market", "cancel", "close", "stop"}: sent'[m] = sent[m]
  BY <1>1, <1>2 DEF Mutations
<1>4. lim' \in Orders /\ lim'.filled = lim.filled
  BY <1>1, <1>2 DEF Orders
<1>5. entry' \in [pc: EntryPcs, mem: LegRow] /\ entry'.pc = "legsent"
  BY <1>1, ToEntryMoves DEF ManageInv, EntryPcs
<1>6. Posted'
  BY <1>1, <1>2, <1>5 DEF Posted
<1>7. leg' \in LegRow /\ (leg.cancelPost => leg'.cancelPost) /\ root' \in RootRows
      /\ mkt' \in Orders /\ mkt'.filled = mkt.filled
  BY <1>1 DEF ManageInv, Shape
<1> QED BY <1>1, <1>3, <1>4, <1>5, <1>6, <1>7, EntryKeeps

\* A veto of the market leg, its answer, and the protection of what it filled.
LEMMA MarketLegKeeps ==
    ASSUME ManageInv, VetoMarket \/ MarketRead \/ ProtectMarket
    PROVE  ManageInv'
<1>1. Shape /\ leg \in LegRow /\ root \in RootRows /\ entry.mem \in LegRow
  BY DEF ManageInv, Shape
<1>2. UNCHANGED <<mkt, lim, sent, entryRest>> /\ entry.pc \notin {"legsent", "over"}
  BY DEF VetoMarket, MarketRead, ProtectMarket, EntryAt
<1>3. PICK pc \in {"over", "protect", "claimleg"} : ToEntry(pc)
  BY DEF VetoMarket, MarketRead, ProtectMarket
<1>4. pc \in EntryPcs \ {"idle"} /\ pc # "market"
  BY DEF EntryPcs
<1>5. entry' \in [pc: EntryPcs, mem: LegRow] /\ entry'.pc = pc
  BY <1>1, <1>3, <1>4, ToEntryMoves
<1>6. \/ leg' = leg \/ leg' = Update(leg, Withdrawn(leg))
      \/ leg' = Update(leg, Withdrawn(entry.mem))
  BY DEF VetoMarket, MarketRead, ProtectMarket
<1>7. leg' \in LegRow /\ (leg.cancelPost => leg'.cancelPost)
  <2>1. leg.filled \in 0..LimitQty /\ entry.mem.filled \in 0..LimitQty
    BY <1>1 DEF LegRow
  <2> QED BY <1>1, <1>6, <2>1, RetiredLeg
<1>8. root' \in RootRows
  <2>1. CASE VetoMarket
    <3>1. root' = [root EXCEPT !.state = "rejected"] /\ "rejected" \in LegStates
      BY <2>1 DEF VetoMarket, LegStates
    <3> QED BY <1>1, <3>1, Zenon DEF RootRows
  <2>2. CASE MarketRead
    BY <1>1, <2>2, RecoveredRootIsTyped DEF MarketRead
  <2>3. CASE ProtectMarket
    BY <1>1, <2>3 DEF ProtectMarket
  <2> QED BY <2>1, <2>2, <2>3
<1> QED BY <1>2, <1>4, <1>5, <1>7, <1>8, EntryMoves

\* The claim of the limit leg, its last check, and its readback.
LEMMA LimitLegKeeps ==
    ASSUME ManageInv, ClaimEntryPost \/ CheckLeg \/ LegRead
    PROVE  ManageInv'
<1>1. Shape /\ leg \in LegRow /\ root \in RootRows /\ entry.mem \in LegRow /\ lim \in Orders
  BY DEF ManageInv, Shape
<1>2. UNCHANGED <<root, mkt, lim, sent, entryRest>>
  BY DEF ClaimEntryPost, CheckLeg, LegRead
<1>3. CASE ClaimEntryPost /\ MayPostLeg
  <2>1. /\ leg' = [leg EXCEPT !.state = "requested"] /\ entry.pc = "claimleg"
        /\ entry' = [pc |-> "check", mem |-> leg']
    BY <1>3 DEF ClaimEntryPost, EntryAt
  <2>2. leg' \in LegRow /\ leg'.cancelPost = leg.cancelPost
    BY <1>1, <2>1, Zenon DEF LegRow
  <2>3. "check" \in EntryPcs \ {"idle"}
    BY DEF EntryPcs
  <2>4. entry' \in [pc: EntryPcs, mem: LegRow] /\ entry'.pc = "check"
    BY <2>1, <2>2, <2>3
  <2> QED BY <1>1, <1>2, <2>1, <2>2, <2>3, <2>4, EntryMoves
<1>4. CASE ~(ClaimEntryPost /\ MayPostLeg)
  <2>1. PICK pc \in {"over", "post"} :
            ToEntry(pc) /\ (pc = "post" => entry.pc = "check")
    BY <1>4 DEF ClaimEntryPost, CheckLeg, LegRead, EntryAt
  <2>2. pc \in EntryPcs \ {"idle"} /\ pc # "market"
    BY DEF EntryPcs
  <2>3. entry' \in [pc: EntryPcs, mem: LegRow] /\ entry'.pc = pc
    BY <1>1, <2>1, <2>2, ToEntryMoves
  <2>4. \/ leg' = leg \/ leg' = Update(leg, Withdrawn(entry.mem))
        \/ leg' = Update(leg, Refused(entry.mem))
        \/ leg' = Update(leg, Reading(lim, LimitQty))
    BY <1>4 DEF ClaimEntryPost, CheckLeg, LegRead
  <2>5. leg' \in LegRow /\ (leg.cancelPost => leg'.cancelPost)
    <3>1. LimitQty \in Nat /\ entry.mem.filled \in 0..LimitQty
      BY <1>1 DEF LimitQty, MarketQty, LegRow
    <3> QED BY <1>1, <2>4, <3>1, RetiredLeg, ReadingOfOrder, UpdateRow
  <2> QED BY <1>1, <1>2, <2>1, <2>2, <2>3, <2>5, EntryMoves
<1> QED BY <1>3, <1>4

\* Every step of the dispatcher.
LEMMA EntryStepKeeps ==
    ASSUME ManageInv, EntryStep
    PROVE  ManageInv'
  BY SplitKeeps, PostMarketKeeps, MarketLegKeeps, LimitLegKeeps, PostLegKeeps DEF EntryStep

-----------------------------------------------------------------------------
(* Recovery *)

\* Recovery rewrites both rows by what it reads, once there are rows.
LEMMA RecoveryKeeps ==
    ASSUME ManageInv, RecoverRoot \/ RecoverLegRead \/ RecoverLegWrite
    PROVE  ManageInv'
<1>1. /\ Shape /\ leg \in LegRow /\ lim \in Orders /\ recovery.filled \in 0..LimitQty
      /\ LimitQty \in Nat
  BY DEF ManageInv, Shape, LimitQty, MarketQty
<1>2. UNCHANGED recoverRest
  BY DEF RecoverRoot, RecoverLegRead, RecoverLegWrite
<1>3. entry.pc # "idle"
  BY DEF ManageInv, Unsplit, RecoverRoot, RecoverLegRead, RecoverLegWrite, LegsRecoverable
<1>4. leg' \in LegRow /\ (leg.cancelPost => leg'.cancelPost)
  <2>1. \/ leg' = leg \/ leg' = Update(leg, Withdrawn(recovery))
        \/ leg' = Update(leg, Reading(lim, LimitQty))
    BY DEF RecoverRoot, RecoverLegRead, RecoverLegWrite, RecoveredLeg
  <2> QED BY <1>1, <2>1, RetiredLeg, ReadingOfOrder, UpdateRow
<1>5. root' \in RootRows
  BY <1>1, RecoveredRootIsTyped DEF RecoverRoot, RecoverLegRead, RecoverLegWrite, Shape
<1>6. recovery' \in [busy: BOOLEAN, staged: BOOLEAN, filled: 0..LimitQty]
  <2>1. recovery \in [busy: BOOLEAN, staged: BOOLEAN, filled: 0..LimitQty]
    BY <1>1 DEF Shape
  <2>2. AtEase \in [busy: BOOLEAN, staged: BOOLEAN, filled: 0..LimitQty]
    BY DEF AtEase, LimitQty, MarketQty
  <2>3. [busy |-> TRUE, staged |-> leg.state = "staged", filled |-> leg.filled]
            \in [busy: BOOLEAN, staged: BOOLEAN, filled: 0..LimitQty]
    BY <1>1 DEF LegRow
  <2> QED BY <2>1, <2>2, <2>3 DEF RecoverRoot, RecoverLegRead, RecoverLegWrite
<1>7. overrun' \in BOOLEAN
  BY <1>1 DEF Shape, RecoverRoot, RecoverLegRead, RecoverLegWrite
<1>8. Shape'
  BY <1>2, <1>4, <1>5, <1>6, <1>7 DEF ManageInv, Shape, recoverRest
<1>9. Budget' /\ Intended' /\ Posted' /\ Unsplit'
  BY <1>2, <1>3 DEF ManageInv, Budget, Intended, Posted, Unsplit, recoverRest
<1>10. CancelPosted'
  BY <1>2, <1>4 DEF ManageInv, CancelPosted, recoverRest
<1> QED BY <1>8, <1>9, <1>10 DEF ManageInv

-----------------------------------------------------------------------------
(* The source-management process *)

\* What a step of the process has to respect.
LEMMA ManagerKeeps ==
    ASSUME ManageInv, LegManaged, UNCHANGED managerRest, root' \in RootRows,
           entry.pc = "idle" => /\ leg' = leg /\ root' = root
                                /\ manager'.pc \notin {"before", "cancelpost", "after", "root"},
           wire' \in [cancel: BOOLEAN, close: 0..4],
           update' \in UpdateRows, manager' \in Managers, sent' \in [Mutations -> 0..1],
           sent'["market"] = sent["market"], sent'["limit"] = sent["limit"],
           Budget', CancelPosted', Intended'
    PROVE  ManageInv'
<1>1. leg' \in LegRow
  BY ManagedLeg DEF ManageInv
<1>2. Shape'
  BY <1>1 DEF ManageInv, Shape, managerRest
<1>3. Posted' /\ Unsplit'
  BY DEF ManageInv, Posted, Unsplit, managerRest
<1> QED BY <1>2, <1>3 DEF ManageInv

\* The position is never negative, and never more than both legs.
LEMMA SizeInRange ==
    ASSUME Shape
    PROVE  Size \in 0..4 /\ Half \in 0..4
<1>1. Size \in 0..4
  BY DEF Shape, Size, Orders, LimitQty, MarketQty
<1> HIDE DEF Size
<1> QED BY <1>1 DEF Half

\* The process that has nothing to do.
LEMMA IdleManager ==
    ASSUME NEW pc \in ManagerPcs, NEW seen \in 0..4, NEW qty \in 0..4
    PROVE  /\ Idle \in Managers /\ Idle.pc = "idle"
           /\ [Idle EXCEPT !.pc = pc] \in Managers /\ [Idle EXCEPT !.pc = pc].pc = pc
           /\ [Idle EXCEPT !.pc = pc, !.seen = seen, !.qty = qty] \in Managers
           /\ [Idle EXCEPT !.pc = pc, !.seen = seen, !.qty = qty].pc = pc
<1>1. NoLeg \in LegRow /\ 0 \in 0..4 /\ "idle" \in ManagerPcs
  BY DEF NoLeg, LegRow, LimitQty, MarketQty, ManagerPcs
<1>2. Idle \in Managers /\ Idle.pc = "idle"
  BY <1>1, Zenon DEF Idle, Managers
<1> HIDE DEF Idle
<1> QED BY <1>2, Zenon DEF Managers

\* Moving on changes the place and nothing else.
LEMMA ManagerMoves ==
    ASSUME Shape, NEW pc \in ManagerPcs
    PROVE  /\ [manager EXCEPT !.pc = pc] \in Managers
           /\ [manager EXCEPT !.pc = pc].pc = pc
<1>1. manager \in Managers
  BY DEF Shape
<1> QED BY <1>1, Zenon DEF Managers

\* Park counts an attempt and dead-letters the update when that was the last one.
LEMMA ParkMoves ==
    ASSUME Shape, Park, update.attempts < MaxAttempts
    PROVE  /\ update' \in UpdateRows /\ manager' = Idle
           /\ update'.action = update.action /\ update'.intents = update.intents
           /\ update'.state \notin Settled => update'.attempts < MaxAttempts
<1> DEFINE n == update.attempts + 1
           s == IF n >= MaxAttempts THEN "failed" ELSE "reconciliation-pending"
           g == [update EXCEPT !.attempts = n, !.state = s]
<1>1. update \in UpdateRows /\ update.attempts \in 0..MaxAttempts /\ MaxAttempts \in Nat
  BY ManagementAssumption DEF Shape, UpdateRows
<1>2. n \in 0..MaxAttempts /\ s \in {"failed", "reconciliation-pending"}
      /\ (s \notin Settled => n < MaxAttempts)
  BY <1>1 DEF Settled
<1>3. s \in Settled \cup {"queued", "claimed", "reconciliation-pending"}
  BY <1>2 DEF Settled
<1>4. update' = g /\ manager' = Idle
  BY DEF Park
<1> HIDE DEF n, s
<1>5. g \in UpdateRows /\ g.action = update.action /\ g.intents = update.intents
      /\ g.state = s /\ g.attempts = n
  BY <1>1, <1>2, <1>3, Zenon DEF UpdateRows
<1> HIDE DEF g
<1> QED BY <1>2, <1>4, <1>5

\* Concluding writes the state alone.
LEMMA ConcludeMoves ==
    ASSUME Shape, NEW s \in Settled \cup {"claimed", "reconciliation-pending"}
    PROVE  LET g == [update EXCEPT !.state = s]
           IN  /\ g \in UpdateRows /\ g.state = s /\ g.attempts = update.attempts
               /\ g.action = update.action /\ g.intents = update.intents
<1>1. update \in UpdateRows
      /\ s \in Settled \cup {"queued", "claimed", "reconciliation-pending"}
  BY DEF Shape
<1> QED BY <1>1, Zenon DEF UpdateRows

\* The process comes to rest: it parks the update, or writes its state.
LEMMA RestKeeps ==
    ASSUME ManageInv, LegManaged, UNCHANGED <<wire, sent, managerRest>>, root' \in RootRows,
           entry.pc = "idle" => leg' = leg /\ root' = root,
           \/ manager.pc # "idle" /\ Park
           \/ \E s \in Settled: Conclude(s)
           \/ manager.pc # "idle" /\ Conclude("reconciliation-pending")
    PROVE  ManageInv'
<1>1. manager.pc # "idle" => update.attempts < MaxAttempts
  BY DEF ManageInv, Budget, Settled
<1>2. /\ update' \in UpdateRows /\ manager' = Idle
      /\ update'.action = update.action /\ update'.intents = update.intents
      /\ update'.state \notin Settled => update'.attempts < MaxAttempts
  <2>1. CASE manager.pc # "idle" /\ Park
    BY <1>1, <2>1, ParkMoves DEF ManageInv
  <2>2. CASE \E s \in Settled: Conclude(s)
    <3>1. PICK s \in Settled : Conclude(s)
      BY <2>2
    <3>2. update' = [update EXCEPT !.state = s] /\ manager' = Idle
      BY <3>1 DEF Conclude
    <3> QED BY <3>2, ConcludeMoves DEF ManageInv
  <2>3. CASE manager.pc # "idle" /\ Conclude("reconciliation-pending")
    <3>1. update' = [update EXCEPT !.state = "reconciliation-pending"] /\ manager' = Idle
      BY <2>3 DEF Conclude
    <3> QED BY <1>1, <2>3, <3>1, ConcludeMoves DEF ManageInv
  <2> QED BY <2>1, <2>2, <2>3
<1>3. manager' \in Managers /\ manager'.pc = "idle"
  <2>1. "idle" \in ManagerPcs /\ 0 \in 0..4
    BY DEF ManagerPcs
  <2> QED BY <1>2, <2>1, IdleManager
<1>4. leg.cancelPost => leg'.cancelPost
  BY ManagedLeg DEF ManageInv
<1>5. Budget' /\ Intended'
  BY <1>2, <1>3 DEF ManageInv, Budget, Intended, Working
<1>6. CancelPosted'
  BY <1>3, <1>4 DEF ManageInv, CancelPosted
<1>7. /\ wire' \in [cancel: BOOLEAN, close: 0..4] /\ sent' \in [Mutations -> 0..1]
      /\ sent'["market"] = sent["market"] /\ sent'["limit"] = sent["limit"]
      /\ UNCHANGED managerRest
      /\ entry.pc = "idle" => manager'.pc \notin {"before", "cancelpost", "after", "root"}
  BY <1>3 DEF ManageInv, Shape
<1> QED BY <1>2, <1>3, <1>5, <1>6, <1>7, ManagerKeeps

\* The process goes on to a step that posts nothing.
LEMMA GoOnKeeps ==
    ASSUME ManageInv, LegManaged, UNCHANGED <<update, wire, sent, managerRest>>,
           root' \in RootRows, manager.pc # "idle",
           NEW pc \in {"cancel", "before", "root", "positions", "claim"},
           manager' \in Managers, manager'.pc = pc,
           entry.pc = "idle" => leg' = leg /\ root' = root /\ pc \notin {"before", "root"},
           update.action # "CLOSE" => "stop" \notin update.intents,
           pc = "claim" => update.action # "TP_BOOKED",
           pc = "claim" /\ update.action = "TP1_BOOKED" => "close" \notin update.intents
    PROVE  ManageInv'
<1>1. leg.cancelPost => leg'.cancelPost
  BY ManagedLeg DEF ManageInv
<1>2. Budget' /\ Intended'
  BY DEF ManageInv, Budget, Intended
<1>3. CancelPosted'
  BY <1>1 DEF ManageInv, CancelPosted
<1>4. /\ wire' \in [cancel: BOOLEAN, close: 0..4] /\ sent' \in [Mutations -> 0..1]
      /\ sent'["market"] = sent["market"] /\ sent'["limit"] = sent["limit"]
      /\ UNCHANGED managerRest /\ update' \in UpdateRows
      /\ entry.pc = "idle" => manager'.pc \notin {"before", "cancelpost", "after", "root"}
  BY DEF ManageInv, Shape
<1> QED BY <1>2, <1>3, <1>4, ManagerKeeps

\* A readback of the leg is one of the things source management does to its row.
LEMMA RereadIsManaged ==
    /\ \/ RereadLeg = leg
       \/ RereadLeg = Update(leg, Reading(lim, LimitQty))
    /\ leg = NoLeg => RereadLeg = leg
  BY DEF RereadLeg, NoLeg

\* An update is claimed, or swept before it touched anything.
LEMMA ClaimUpdateKeeps ==
    ASSUME ManageInv, ClaimUpdate
    PROVE  ManageInv'
<1>1. /\ manager.pc = "idle" /\ update.state \notin Settled
      /\ UNCHANGED <<root, leg, wire, sent, managerRest>>
  BY DEF ClaimUpdate, ManagerAt
<1>2. LegManaged /\ root' \in RootRows /\ UNCHANGED <<wire, sent, managerRest>>
  BY <1>1 DEF LegManaged, ManageInv, Shape
<1>3. CASE Sweepable
  <2>1. "failed" \in Settled /\ Conclude("failed")
    BY <1>3 DEF Settled, ClaimUpdate
  <2> QED BY <1>1, <1>2, <2>1, RestKeeps
<1>4. CASE ~Sweepable
  <2>1. update' = [update EXCEPT !.state = "claimed"] /\ manager' = [manager EXCEPT !.pc = "look"]
    BY <1>4 DEF ClaimUpdate, ToManager
  <2>2. /\ update' \in UpdateRows /\ update'.state = "claimed"
        /\ update'.attempts = update.attempts
        /\ update'.action = update.action /\ update'.intents = update.intents
    BY <2>1, ConcludeMoves DEF ManageInv
  <2>3. manager' \in Managers /\ manager'.pc = "look"
    BY <2>1, ManagerMoves DEF ManageInv, ManagerPcs
  <2>4. Budget' /\ Intended'
    BY <1>1, <2>2, <2>3 DEF ManageInv, Budget, Intended, Working
  <2>5. CancelPosted'
    BY <1>1, <2>3 DEF ManageInv, CancelPosted
  <2>6. /\ wire' \in [cancel: BOOLEAN, close: 0..4] /\ sent' \in [Mutations -> 0..1]
        /\ sent'["market"] = sent["market"] /\ sent'["limit"] = sent["limit"]
        /\ entry.pc = "idle" => /\ leg' = leg /\ root' = root
                                /\ manager'.pc \notin {"before", "cancelpost", "after", "root"}
    BY <1>1, <2>3 DEF ManageInv, Shape
  <2> QED BY <1>2, <2>2, <2>3, <2>4, <2>5, <2>6, ManagerKeeps
<1> QED BY <1>3, <1>4

\* What was claimed before is read back; a current update goes on.
LEMMA LookKeeps ==
    ASSUME ManageInv, Look
    PROVE  ManageInv'
<1>1. manager.pc = "look" /\ UNCHANGED <<root, wire, sent, managerRest>>
  BY DEF Look, ManagerAt
<1>2. root' \in RootRows /\ UNCHANGED <<wire, sent, managerRest>>
  BY <1>1 DEF ManageInv, Shape
<1>3. LegManaged /\ (entry.pc = "idle" => leg' = leg /\ root' = root)
  BY <1>1, RereadIsManaged DEF Look, LegManaged, ManageInv, Unsplit
<1>4. \/ Park \/ Conclude("reconciled") \/ Conclude("failed")
      \/ /\ ~(update.action \in {"TP1_BOOKED", "SL_TO_ENTRY"} /\ "stop" \in update.intents)
         /\ ToManager(IF Cancels THEN "cancel" ELSE "positions") /\ UNCHANGED update
  BY DEF Look
<1>5. CASE Park \/ Conclude("reconciled") \/ Conclude("failed")
  <2>1. "reconciled" \in Settled /\ "failed" \in Settled
    BY DEF Settled
  <2> QED BY <1>1, <1>2, <1>3, <1>5, <2>1, RestKeeps
<1>6. CASE /\ ~(update.action \in {"TP1_BOOKED", "SL_TO_ENTRY"} /\ "stop" \in update.intents)
           /\ ToManager(IF Cancels THEN "cancel" ELSE "positions") /\ UNCHANGED update
  <2>1. PICK pc \in {"cancel", "positions"} : manager' = [manager EXCEPT !.pc = pc]
    BY <1>6 DEF ToManager
  <2>2. pc \in ManagerPcs /\ pc \in {"cancel", "before", "root", "positions", "claim"}
    BY DEF ManagerPcs, Working
  <2>3. manager' \in Managers /\ manager'.pc = pc
    BY <2>1, <2>2, ManagerMoves DEF ManageInv
  <2>4. update.action # "CLOSE" => "stop" \notin update.intents
    BY <1>6 DEF ManageInv, Shape, UpdateRows, Intended
  <2>5. pc # "claim" /\ pc \notin {"before", "root"} /\ manager.pc # "idle"
    BY <1>1, <2>1
  <2>6. UNCHANGED <<update, wire, sent, managerRest>>
    BY <1>2, <1>6
  <2> QED BY <1>2, <1>3, <2>2, <2>3, <2>4, <2>5, <2>6, GoOnKeeps
<1> QED BY <1>4, <1>5, <1>6

\* The pending leg is claimed for cancellation.
LEMMA ClaimCancelKeeps ==
    ASSUME ManageInv, ClaimCancel
    PROVE  ManageInv'
<1>1. manager.pc = "cancel" /\ UNCHANGED <<root, wire, sent, managerRest>>
  BY DEF ClaimCancel, ManagerAt
<1>2. root' \in RootRows /\ UNCHANGED <<wire, sent, managerRest>> /\ root' = root
  BY <1>1 DEF ManageInv, Shape
<1>3. manager.pc # "idle" /\ (update.action # "CLOSE" => "stop" \notin update.intents)
  BY <1>1 DEF ManageInv, Intended, Working
<1>4. CASE Park /\ UNCHANGED leg
  BY <1>2, <1>3, <1>4, RestKeeps DEF LegManaged
<1>5. CASE ToManager("positions") /\ UNCHANGED <<leg, update>>
  <2>1. manager' \in Managers /\ manager'.pc = "positions"
    BY <1>5, ManagerMoves DEF ManageInv, ManagerPcs, Working, ToManager
  <2>2. LegManaged /\ UNCHANGED <<update, wire, sent, managerRest>>
    BY <1>2, <1>5 DEF LegManaged
  <2>3. leg' = leg
    BY <1>5
  <2> QED BY <1>2, <1>3, <2>1, <2>2, <2>3, GoOnKeeps
<1>6. CASE /\ PendingEntries /\ leg' = CancelClaimed(leg)
           /\ manager' = [manager EXCEPT !.pc = IF leg'.terminal THEN "root" ELSE "before",
                                         !.mem = leg']
           /\ UNCHANGED update
  <2>1. entry.pc # "idle"
    BY <1>6 DEF PendingEntries, ManageInv, Unsplit, NoLeg
  <2>2. LegManaged /\ leg' \in LegRow
    BY <1>6, ManagedLeg DEF LegManaged, ManageInv
  <2>3. PICK pc \in {"root", "before"} : manager' = [manager EXCEPT !.pc = pc, !.mem = leg']
    BY <1>6
  <2>4. pc \in ManagerPcs /\ pc \in {"cancel", "before", "root", "positions", "claim"}
        /\ manager \in Managers
    BY DEF ManagerPcs, Working, ManageInv, Shape
  <2>5. manager' \in Managers /\ manager'.pc = pc
    BY <2>2, <2>3, <2>4, Zenon DEF Managers
  <2>6. UNCHANGED <<update, wire, sent, managerRest>> /\ pc # "claim"
    BY <1>2, <1>6
  <2> QED BY <1>2, <1>3, <2>1, <2>2, <2>4, <2>5, <2>6, GoOnKeeps
<1> QED BY <1>4, <1>5, <1>6 DEF ClaimCancel

\* The leg is read, before the cancel and after it.
LEMMA ReadLegKeeps ==
    ASSUME ManageInv, ReadBeforeCancel \/ ReadAfterCancel
    PROVE  ManageInv'
<1>1. manager.pc \in {"before", "after"} /\ UNCHANGED <<root, wire, sent, managerRest>>
  BY DEF ReadBeforeCancel, ReadAfterCancel, ManagerAt
<1>2. root' \in RootRows /\ UNCHANGED <<wire, sent, managerRest>> /\ root' = root
  BY <1>1 DEF ManageInv, Shape
<1>3. /\ manager.pc # "idle" /\ entry.pc # "idle"
      /\ update.action # "CLOSE" => "stop" \notin update.intents
  BY <1>1 DEF ManageInv, Intended, Working, Unsplit
<1>4. \/ Park /\ (leg' = leg \/ leg' = Update(leg, Reading(lim, LimitQty)))
      \/ /\ leg' = Update(leg, Reading(lim, LimitQty))
         /\ ToManager("root") /\ UNCHANGED update
      \/ /\ MayPostCancel /\ leg' = [leg EXCEPT !.cancelPost = TRUE]
         /\ ToManager("cancelpost") /\ UNCHANGED update
  BY DEF ReadBeforeCancel, ReadAfterCancel
<1>5. CASE Park /\ (leg' = leg \/ leg' = Update(leg, Reading(lim, LimitQty)))
  <2>1. LegManaged
    BY <1>5 DEF LegManaged
  <2> QED BY <1>2, <1>3, <1>5, <2>1, RestKeeps
<1>6. CASE /\ leg' = Update(leg, Reading(lim, LimitQty))
           /\ ToManager("root") /\ UNCHANGED update
  <2>1. manager' \in Managers /\ manager'.pc = "root"
    BY <1>6, ManagerMoves DEF ManageInv, ManagerPcs, Working, ToManager
  <2>2. LegManaged /\ UNCHANGED <<update, wire, sent, managerRest>>
    BY <1>2, <1>6 DEF LegManaged
  <2> QED BY <1>2, <1>3, <2>1, <2>2, GoOnKeeps
<1>7. CASE /\ MayPostCancel /\ leg' = [leg EXCEPT !.cancelPost = TRUE]
           /\ ToManager("cancelpost") /\ UNCHANGED update
  <2>1. manager' \in Managers /\ manager'.pc = "cancelpost"
    BY <1>7, ManagerMoves DEF ManageInv, ManagerPcs, Working, ToManager
  <2>2. LegManaged /\ leg'.cancelPost = TRUE
    <3>1. leg \in LegRow
      BY DEF ManageInv, Shape
    <3>2. leg'.cancelPost = TRUE
      BY <1>7, <3>1, Zenon DEF LegRow
    <3> QED BY <1>7, <3>2 DEF LegManaged
  <2>3. sent["cancel"] = 0
    BY <1>7 DEF ManageInv, CancelPosted, MayPostCancel, Shape, Mutations
  <2>4. Budget' /\ Intended' /\ CancelPosted'
    BY <1>2, <1>3, <1>7, <2>1, <2>2, <2>3 DEF ManageInv, Budget, Intended, Working, CancelPosted
  <2>5. /\ wire' \in [cancel: BOOLEAN, close: 0..4] /\ sent' \in [Mutations -> 0..1]
        /\ sent'["market"] = sent["market"] /\ sent'["limit"] = sent["limit"]
        /\ update' \in UpdateRows
    BY <1>2, <1>7 DEF ManageInv, Shape
  <2> QED BY <1>2, <1>3, <2>1, <2>2, <2>4, <2>5, ManagerKeeps
<1> QED BY <1>4, <1>5, <1>6, <1>7

\* The one cancel is posted.
LEMMA PostCancelKeeps ==
    ASSUME ManageInv, PostCancel
    PROVE  ManageInv'
<1>1. /\ manager.pc = "cancelpost" /\ wire' = [wire EXCEPT !.cancel = TRUE]
      /\ sent' = [sent EXCEPT !["cancel"] = @ + 1]
      /\ ToManager("after") /\ UNCHANGED <<root, leg, update, managerRest>>
  BY DEF PostCancel, ManagerAt, Sent
<1>2. /\ sent["cancel"] = 0 /\ leg.cancelPost /\ entry.pc # "idle"
      /\ sent \in [Mutations -> 0..1] /\ wire \in [cancel: BOOLEAN, close: 0..4]
      /\ update.action # "CLOSE" => "stop" \notin update.intents
  BY <1>1 DEF ManageInv, CancelPosted, Shape, Unsplit, Intended, Working
<1>3. /\ sent' \in [Mutations -> 0..1]
      /\ \A m \in {"market", "limit", "close", "stop"}: sent'[m] = sent[m]
  BY <1>1, <1>2 DEF Mutations
<1>4. wire' \in [cancel: BOOLEAN, close: 0..4]
  BY <1>1, <1>2
<1>5. manager' \in Managers /\ manager'.pc = "after"
  BY <1>1, ManagerMoves DEF ManageInv, ManagerPcs, Working, ToManager
<1>6. Budget' /\ Intended' /\ CancelPosted'
  BY <1>1, <1>2, <1>3, <1>5 DEF ManageInv, Budget, Intended, CancelPosted
<1>7. LegManaged /\ root' \in RootRows /\ update' \in UpdateRows /\ UNCHANGED managerRest
  BY <1>1 DEF LegManaged, ManageInv, Shape
<1> QED BY <1>2, <1>3, <1>4, <1>5, <1>6, <1>7, ManagerKeeps

\* The market leg is read back.
LEMMA ReadRootKeeps ==
    ASSUME ManageInv, ReadRoot
    PROVE  ManageInv'
<1>1. manager.pc = "root" /\ root' = RecoveredRoot
      /\ UNCHANGED <<leg, wire, sent, managerRest>>
  BY DEF ReadRoot, ManagerAt
<1>2. /\ manager.pc # "idle" /\ entry.pc # "idle"
      /\ update.action # "CLOSE" => "stop" \notin update.intents
  BY <1>1 DEF ManageInv, Intended, Working, Unsplit
<1>3. root' \in RootRows /\ LegManaged /\ UNCHANGED <<wire, sent, managerRest>>
  BY <1>1, RecoveredRootIsTyped DEF LegManaged, ManageInv
<1>4. CASE Park
  BY <1>2, <1>3, <1>4, RestKeeps
<1>5. CASE manager' = [Idle EXCEPT !.pc = "positions"] /\ UNCHANGED update
  <2>1. "positions" \in ManagerPcs /\ 0 \in 0..4
    BY DEF ManagerPcs, Working
  <2>2. manager' \in Managers /\ manager'.pc = "positions"
    BY <1>5, <2>1, IdleManager
  <2>3. UNCHANGED <<update, wire, sent, managerRest>>
    BY <1>3, <1>5
  <2> QED BY <1>2, <1>3, <2>2, <2>3, GoOnKeeps
<1> QED BY <1>4, <1>5 DEF ReadRoot

\* The position decides what is left to do.
LEMMA ReadPositionsKeeps ==
    ASSUME ManageInv, ReadPositions
    PROVE  ManageInv'
<1>1. manager.pc = "positions" /\ UNCHANGED <<root, wire, sent, managerRest>>
  BY DEF ReadPositions, ManagerAt
<1>2. /\ root' \in RootRows /\ UNCHANGED <<wire, sent, managerRest>> /\ root' = root
      /\ manager.pc # "idle"
      /\ update.action # "CLOSE" => "stop" \notin update.intents
      /\ Size \in 0..4
  BY <1>1, SizeInRange DEF ManageInv, Shape, Intended, Working
<1>3. LegManaged /\ (entry.pc = "idle" => leg' = leg)
  <2>1. leg' \in {leg, RereadLeg}
    <3>1. CASE Size = 0
      BY <3>1 DEF ReadPositions
    <3>2. CASE Size > 0
      BY <3>2 DEF ReadPositions
    <3> QED BY <1>2, <3>1, <3>2
  <2> QED BY <2>1, RereadIsManaged DEF LegManaged, ManageInv, Unsplit
<1>4. \/ Park \/ \E s \in Settled: Conclude(s)
      \/ /\ update.action # "TP_BOOKED"
         /\ ~(update.action = "TP1_BOOKED" /\ "close" \in update.intents)
         /\ ToManager("claim") /\ UNCHANGED update /\ leg' = leg
  <2>1. {"failed", "cancelled-flat", "reconciled", "entries-cancelled"} \subseteq Settled
    BY DEF Settled
  <2>2. CASE Size = 0
    BY <2>1, <2>2 DEF ReadPositions
  <2>3. CASE Size > 0
    <3>1. CASE update.action = "TP_BOOKED"
      BY <2>1, <2>3, <3>1 DEF ReadPositions
    <3>2. CASE update.action = "TP1_BOOKED" /\ "close" \in update.intents
      BY <2>3, <3>2 DEF ReadPositions
    <3>3. CASE /\ update.action # "TP_BOOKED"
               /\ ~(update.action = "TP1_BOOKED" /\ "close" \in update.intents)
      BY <2>1, <2>3, <3>3 DEF ReadPositions
    <3> QED BY <3>1, <3>2, <3>3
  <2> QED BY <1>2, <2>2, <2>3
<1>5. CASE Park \/ \E s \in Settled: Conclude(s)
  BY <1>2, <1>3, <1>5, RestKeeps
<1>6. CASE /\ update.action # "TP_BOOKED"
           /\ ~(update.action = "TP1_BOOKED" /\ "close" \in update.intents)
           /\ ToManager("claim") /\ UNCHANGED update /\ leg' = leg
  <2>1. manager' \in Managers /\ manager'.pc = "claim"
    BY <1>6, ManagerMoves DEF ManageInv, ManagerPcs, Working, ToManager
  <2>2. UNCHANGED <<update, wire, sent, managerRest>>
    BY <1>2, <1>6
  <2> QED BY <1>2, <1>3, <1>6, <2>1, <2>2, GoOnKeeps
<1> QED BY <1>4, <1>5, <1>6

\* An intent is persisted before its mutation, and no second time.
LEMMA PersistKeeps ==
    ASSUME ManageInv, UNCHANGED <<root, leg, wire, sent, managerRest>>,
           NEW what \in {"close", "stop"}, what \notin update.intents,
           NEW next \in Managers, next.pc = what, Persist(what, next),
           manager.pc # "idle", update.action # "TP_BOOKED",
           update.action # "CLOSE" => "stop" \notin update.intents
    PROVE  ManageInv'
<1> DEFINE more == update.intents \cup {what}
<1>1. update \in UpdateRows /\ update.intents \subseteq {"close", "stop"}
  BY DEF ManageInv, Shape, UpdateRows
<1>2. update' = [update EXCEPT !.intents = more] /\ manager' = next
  BY DEF Persist
<1>3. more \in SUBSET {"close", "stop"}
  BY <1>1
<1>4. sent[what] = 0 /\ sent \in [Mutations -> 0..1]
  BY DEF ManageInv, Shape, Intended, Mutations
<1>5. update.intents \subseteq more /\ what \in more
      /\ (what = "close" => ("stop" \in more => "stop" \in update.intents))
  OBVIOUS
<1> HIDE DEF more
<1>6. /\ update' \in UpdateRows /\ update'.intents = more /\ update'.state = update.state
      /\ update'.attempts = update.attempts /\ update'.action = update.action
  BY <1>1, <1>2, <1>3, Zenon DEF UpdateRows
<1>7. Budget' /\ CancelPosted'
  BY <1>2, <1>6 DEF ManageInv, Budget, CancelPosted
<1>8. Intended'
  BY <1>2, <1>4, <1>5, <1>6 DEF ManageInv, Intended, Working
<1>9. /\ LegManaged /\ root' \in RootRows /\ UNCHANGED managerRest
      /\ wire' \in [cancel: BOOLEAN, close: 0..4] /\ sent' \in [Mutations -> 0..1]
      /\ sent'["market"] = sent["market"] /\ sent'["limit"] = sent["limit"]
      /\ manager' \in Managers
      /\ entry.pc = "idle" => /\ leg' = leg /\ root' = root
                              /\ manager'.pc \notin {"before", "cancelpost", "after", "root"}
  BY <1>2 DEF LegManaged, ManageInv, Shape
<1> QED BY <1>6, <1>7, <1>8, <1>9, ManagerKeeps

\* A close or a stop is claimed.
LEMMA ClaimMutationKeeps ==
    ASSUME ManageInv, ClaimMutation
    PROVE  ManageInv'
<1>1. manager.pc = "claim" /\ UNCHANGED <<root, leg, wire, sent, managerRest>>
  BY DEF ClaimMutation, ManagerAt
<1>2. /\ manager.pc # "idle" /\ update.action # "TP_BOOKED"
      /\ update.action = "TP1_BOOKED" => "close" \notin update.intents
      /\ update.action # "CLOSE" => "stop" \notin update.intents
  BY <1>1 DEF ManageInv, Intended, Working
<1>3. /\ LegManaged /\ root' \in RootRows /\ UNCHANGED <<wire, sent, managerRest>>
      /\ leg' = leg /\ root' = root
  BY <1>1 DEF LegManaged, ManageInv, Shape
<1>4. Size \in 0..4 /\ Half \in 0..4 /\ "close" \in ManagerPcs /\ "stop" \in ManagerPcs
      /\ "failed" \in Settled /\ 0 \in 0..4
  BY SizeInRange DEF ManageInv, ManagerPcs, Working, Settled
<1>5. CASE Conclude("failed") \/ Conclude("reconciliation-pending")
  BY <1>2, <1>3, <1>4, <1>5, RestKeeps
<1>6. CASE /\ "close" \notin update.intents
           /\ \E q \in {Size, Half}:
                Persist("close", [Idle EXCEPT !.pc = "close", !.seen = Size, !.qty = q])
  <2>1. PICK q \in 0..4 :
          Persist("close", [Idle EXCEPT !.pc = "close", !.seen = Size, !.qty = q])
    BY <1>4, <1>6
  <2>2. PICK next \in Managers : next.pc = "close" /\ Persist("close", next)
    BY <1>4, <2>1, IdleManager
  <2> QED BY <1>1, <1>2, <1>6, <2>2, PersistKeeps
<1>7. CASE "stop" \notin update.intents /\ Persist("stop", [Idle EXCEPT !.pc = "stop"])
  <2>1. PICK next \in Managers : next.pc = "stop" /\ Persist("stop", next)
    BY <1>4, <1>7, IdleManager
  <2> QED BY <1>1, <1>2, <1>7, <2>1, PersistKeeps
<1>8. CASE update.action = "CLOSE"
  BY <1>5, <1>6, <1>8 DEF ClaimMutation
<1>9. CASE update.action = "TP1_BOOKED"
  BY <1>2, <1>5, <1>6, <1>9 DEF ClaimMutation
<1>10. CASE update.action \notin {"CLOSE", "TP1_BOOKED"}
  BY <1>2, <1>7, <1>10 DEF ClaimMutation
<1> QED BY <1>8, <1>9, <1>10

\* The close is posted, once, and judged by the position.
LEMMA CloseKeeps ==
    ASSUME ManageInv, PostClose \/ ReadClose
    PROVE  ManageInv'
<1>1. manager.pc \in {"close", "closed"} /\ UNCHANGED <<root, leg, managerRest>>
  BY DEF PostClose, ReadClose, ManagerAt
<1>2. /\ LegManaged /\ root' \in RootRows /\ UNCHANGED managerRest
      /\ leg' = leg /\ root' = root /\ manager.pc # "idle"
      /\ update.action # "TP_BOOKED"
      /\ update.action # "CLOSE" => "stop" \notin update.intents
  BY <1>1 DEF LegManaged, ManageInv, Shape, Intended, Working
<1>3. "close" \in ManagerPcs /\ "stop" \in ManagerPcs /\ "closed" \in ManagerPcs
      /\ {"failed", "reconciled"} \subseteq Settled /\ 0 \in 0..4
  BY DEF ManagerPcs, Working, Settled
<1>4. CASE (Park \/ Conclude("failed") \/ Conclude("reconciled")) /\ UNCHANGED <<wire, sent>>
  <2>1. UNCHANGED <<wire, sent, managerRest>>
    BY <1>2, <1>4
  <2> QED BY <1>2, <1>3, <1>4, <2>1, RestKeeps
<1>5. CASE /\ ReadClose /\ update.action # "CLOSE"
           /\ Persist("stop", [Idle EXCEPT !.pc = "stop"])
  <2>1. PICK next \in Managers : next.pc = "stop" /\ Persist("stop", next)
    BY <1>3, <1>5, IdleManager
  <2>2. UNCHANGED <<root, leg, wire, sent, managerRest>>
    BY <1>5 DEF ReadClose
  <2> QED BY <1>2, <1>5, <2>1, <2>2, PersistKeeps
<1>6. CASE /\ manager.pc = "close" /\ wire' = [wire EXCEPT !.close = manager.qty]
           /\ sent' = [sent EXCEPT !["close"] = @ + 1]
           /\ ToManager("closed") /\ UNCHANGED update
  <2>1. /\ sent["close"] = 0 /\ "close" \in update.intents /\ manager.qty \in 0..4
        /\ sent \in [Mutations -> 0..1] /\ wire \in [cancel: BOOLEAN, close: 0..4]
    BY <1>6 DEF ManageInv, Intended, Shape, Managers
  <2>2. /\ sent' \in [Mutations -> 0..1]
        /\ \A m \in {"market", "limit", "cancel", "stop"}: sent'[m] = sent[m]
    BY <1>6, <2>1 DEF Mutations
  <2>3. wire' \in [cancel: BOOLEAN, close: 0..4]
    BY <1>6, <2>1
  <2>4. manager' \in Managers /\ manager'.pc = "closed"
    BY <1>3, <1>6, ManagerMoves DEF ManageInv, ToManager
  <2>5. Budget' /\ Intended' /\ CancelPosted'
    BY <1>2, <1>6, <2>1, <2>2, <2>4 DEF ManageInv, Budget, Intended, CancelPosted
  <2>6. update' \in UpdateRows
    BY <1>6 DEF ManageInv, Shape
  <2> QED BY <1>2, <2>2, <2>3, <2>4, <2>5, <2>6, ManagerKeeps
<1>7. CASE PostClose
  BY <1>4, <1>6, <1>7 DEF PostClose, ManagerAt, Sent
<1>8. CASE ReadClose
  BY <1>4, <1>5, <1>8 DEF ReadClose
<1> QED BY <1>7, <1>8

\* The stop is moved, once, and read back.
LEMMA StopKeeps ==
    ASSUME ManageInv, PostStop \/ ReadStop
    PROVE  ManageInv'
<1>1. manager.pc \in {"stop", "stopped"} /\ UNCHANGED <<root, leg, wire, managerRest>>
  BY DEF PostStop, ReadStop, ManagerAt
<1>2. /\ LegManaged /\ root' \in RootRows /\ UNCHANGED managerRest
      /\ leg' = leg /\ root' = root /\ manager.pc # "idle" /\ wire' = wire
  BY <1>1 DEF LegManaged, ManageInv, Shape
<1>3. "stopped" \in ManagerPcs /\ {"failed", "reconciled"} \subseteq Settled
  BY DEF ManagerPcs, Settled
<1>4. CASE (Park \/ Conclude("failed") \/ Conclude("reconciled")) /\ UNCHANGED sent
  <2>1. UNCHANGED <<wire, sent, managerRest>>
    BY <1>2, <1>4
  <2> QED BY <1>2, <1>3, <1>4, <2>1, RestKeeps
<1>5. CASE /\ manager.pc = "stop" /\ sent' = [sent EXCEPT !["stop"] = @ + 1]
           /\ ToManager("stopped") /\ UNCHANGED update
  <2>1. /\ sent["stop"] = 0 /\ "stop" \in update.intents /\ sent \in [Mutations -> 0..1]
        /\ wire \in [cancel: BOOLEAN, close: 0..4]
    BY <1>5 DEF ManageInv, Intended, Shape
  <2>2. /\ sent' \in [Mutations -> 0..1]
        /\ \A m \in {"market", "limit", "cancel", "close"}: sent'[m] = sent[m]
    BY <1>5, <2>1 DEF Mutations
  <2>3. manager' \in Managers /\ manager'.pc = "stopped"
    BY <1>3, <1>5, ManagerMoves DEF ManageInv, ToManager
  <2>4. Budget' /\ Intended' /\ CancelPosted'
    BY <1>2, <1>5, <2>1, <2>2, <2>3 DEF ManageInv, Budget, Intended, Working, CancelPosted
  <2>5. update' \in UpdateRows /\ wire' \in [cancel: BOOLEAN, close: 0..4]
    BY <1>2, <1>5, <2>1 DEF ManageInv, Shape
  <2> QED BY <1>2, <2>2, <2>3, <2>4, <2>5, ManagerKeeps
<1>6. CASE PostStop
  BY <1>4, <1>5, <1>6 DEF PostStop, ManagerAt, Sent
<1>7. CASE ReadStop
  BY <1>4, <1>7 DEF ReadStop
<1> QED BY <1>6, <1>7

\* Every step of the process.
LEMMA ManagerStepKeeps ==
    ASSUME ManageInv, ManagerStep
    PROVE  ManageInv'
  BY ClaimUpdateKeeps, LookKeeps, ClaimCancelKeeps, ReadLegKeeps, PostCancelKeeps,
     ReadRootKeeps, ReadPositionsKeeps, ClaimMutationKeeps, CloseKeeps, StopKeeps
  DEF ManagerStep

-----------------------------------------------------------------------------
(* The venue, time and restarts *)

\* The venue fills, kills and closes; what it has settled stays as it is.
LEMMA VenueKeeps ==
    ASSUME ManageInv, VenueStep
    PROVE  ManageInv' /\ UNCHANGED outside /\ (lim.at \in Dead => lim' = lim)
<1>1. UNCHANGED outside
  BY DEF VenueStep, MarketArrives, LimitArrives, LimitFills, CancelArrives, CloseArrives,
         PositionExits
<1>2. /\ mkt \in Orders /\ lim \in Orders /\ mkt.filled \in 0..1 /\ lim.filled \in 0..3
      /\ mkt.at = "sent" => mkt.filled = 0
      /\ net \in 0..4 /\ net <= mkt.filled + lim.filled
      /\ wire \in [cancel: BOOLEAN, close: 0..4]
  BY DEF ManageInv, Shape, Posted, Orders, LimitQty, MarketQty
<1>3. \/ mkt' = mkt
      \/ /\ mkt' \in Orders /\ mkt'.filled \in mkt.filled..1
         /\ mkt.at = "sent" /\ mkt'.at # "sent"
  BY <1>2 DEF VenueStep, MarketArrives, LimitArrives, LimitFills, CancelArrives,
              CloseArrives, PositionExits, Orders, LimitQty, MarketQty
<1>4. lim' = lim \/ (lim' \in Orders /\ lim'.filled >= lim.filled /\ lim.at \notin Dead)
  <2>1. CASE LimitArrives
    <3>1. PICK a \in {"open", "gone"} : lim' = [lim EXCEPT !.at = a]
      BY <2>1 DEF LimitArrives
    <3>2. lim' \in Orders /\ lim'.filled = lim.filled
      BY <1>2, <3>1 DEF Orders
    <3> QED BY <1>2, <2>1, <3>2 DEF LimitArrives, Dead
  <2>2. CASE LimitFills
    <3>1. PICK q \in LegFills : q > lim.filled
             /\ lim' = [at |-> IF q = LimitQty THEN "gone" ELSE "open", filled |-> q]
      BY <2>2 DEF LimitFills
    <3>2. q \in 0..3
      BY ManagementAssumption
    <3> QED BY <1>2, <2>2, <3>1, <3>2 DEF LimitFills, Dead, Orders, LimitQty, MarketQty
  <2>3. CASE CancelArrives
    <3>1. lim' = lim \/ (lim.at = "open" /\ lim' = [lim EXCEPT !.at = "gone"])
      BY <2>3 DEF CancelArrives
    <3> QED BY <1>2, <3>1 DEF Dead, Orders
  <2>4. CASE MarketArrives \/ CloseArrives \/ PositionExits
    BY <2>4 DEF MarketArrives, CloseArrives, PositionExits
  <2> QED BY <2>1, <2>2, <2>3, <2>4 DEF VenueStep
<1>5. wire' \in [cancel: BOOLEAN, close: 0..4]
  <2>1. \/ wire' = wire \/ wire' = [wire EXCEPT !.cancel = FALSE]
        \/ wire' = [wire EXCEPT !.close = 0]
    BY DEF VenueStep, MarketArrives, LimitArrives, LimitFills, CancelArrives, CloseArrives,
           PositionExits
  <2>2. 0 \in 0..4
    OBVIOUS
  <2> QED BY <1>2, <2>1, <2>2, Zenon
<1>6. net' \in 0..4 /\ net' <= mkt'.filled + lim'.filled
  <2>1. lim' \in Orders /\ lim'.filled \in lim.filled..3 /\ mkt'.filled \in mkt.filled..1
    BY <1>2, <1>3, <1>4 DEF Orders, LimitQty, MarketQty
  <2>2. CASE UNCHANGED net
    BY <1>2, <2>1, <2>2
  <2>3. CASE CloseArrives
    BY <1>2, <2>1, <2>3 DEF CloseArrives, Size
  <2>4. CASE PositionExits
    BY <1>2, <2>1, <2>4 DEF PositionExits, Size
  <2> QED BY <2>2, <2>3, <2>4 DEF VenueStep, MarketArrives, LimitArrives, LimitFills,
                                  CancelArrives
<1>7. Shape'
  <2>1. mkt' \in Orders /\ mkt'.filled <= MarketQty /\ lim' \in Orders
    BY <1>2, <1>3, <1>4 DEF MarketQty
  <2> QED BY <1>1, <1>5, <1>6, <2>1 DEF ManageInv, Shape, outside
<1>8. Budget' /\ Unsplit' /\ CancelPosted' /\ Intended'
  BY <1>1 DEF ManageInv, Budget, Unsplit, CancelPosted, Intended, outside
<1>9. Posted'
  <2>1. entry.pc \in {"idle", "market"} => mkt' = mkt
    BY <1>3 DEF ManageInv, Posted, NoEntryOrder
  <2>2. entry.pc \notin {"legsent", "over"} => lim' = lim
    BY <1>4 DEF ManageInv, Posted, Dead
  <2> QED BY <1>1, <1>2, <1>3, <2>1, <2>2 DEF ManageInv, Posted, outside
<1> QED BY <1>1, <1>4, <1>7, <1>8, <1>9 DEF ManageInv

\* A message ages, and a process stops.
LEMMA StopsKeep ==
    ASSUME ManageInv, SourceAges \/ StopEntry \/ StopManager
    PROVE  ManageInv'
<1>1. CASE SourceAges
  <2>1. current' \in BOOLEAN
        /\ UNCHANGED <<root, leg, mkt, lim, net, wire, entry, recovery, update, manager,
                       crashes, sent, overrun>>
    BY <1>1 DEF SourceAges
  <2>2. Shape'
    BY <2>1 DEF ManageInv, Shape
  <2>3. Budget' /\ Unsplit' /\ Posted' /\ CancelPosted' /\ Intended'
    BY <2>1 DEF ManageInv, Budget, Unsplit, Posted, CancelPosted, Intended
  <2> QED BY <2>2, <2>3 DEF ManageInv
<1>2. CASE StopEntry
  <2>1. ToEntry("over") /\ entry.pc # "idle" /\ crashes' \in Nat
        /\ UNCHANGED <<root, leg, mkt, lim, net, wire, recovery, update, manager, current, sent,
                       overrun>>
    BY <1>2 DEF StopEntry, ManageInv, Shape
  <2>2. entry' \in [pc: EntryPcs, mem: LegRow] /\ entry'.pc = "over"
    BY <2>1, ToEntryMoves DEF ManageInv, EntryPcs
  <2> QED BY <2>1, <2>2 DEF ManageInv, Shape, Budget, Unsplit, Posted, CancelPosted, Intended
<1>3. CASE StopManager
  <2>1. manager' = Idle /\ crashes' \in Nat
        /\ UNCHANGED <<root, leg, mkt, lim, net, wire, entry, recovery, update, current, sent,
                       overrun>>
    BY <1>3 DEF StopManager, ManageInv, Shape
  <2>2. "idle" \in ManagerPcs /\ 0 \in 0..4
    BY DEF ManagerPcs
  <2>3. manager' \in Managers /\ manager'.pc = "idle"
    BY <2>1, <2>2, IdleManager
  <2>4. Shape' /\ Budget' /\ Unsplit' /\ Posted'
    BY <2>1, <2>3 DEF ManageInv, Shape, Budget, Unsplit, Posted
  <2>5. CancelPosted' /\ Intended'
    BY <2>1, <2>3 DEF ManageInv, CancelPosted, Intended, Working
  <2> QED BY <2>4, <2>5 DEF ManageInv
<1> QED BY <1>1, <1>2, <1>3

\* ManageInv is an invariant of the split entry and its update.
THEOREM ManageInvariant == ManageSpec => []ManageInv
<1>1. ManageInit => ManageInv
  <2> SUFFICES ASSUME ManageInit PROVE ManageInv
    OBVIOUS
  <2>1. /\ NoLeg \in LegRow /\ NoEntryOrder \in Orders /\ 0 \in 0..4
        /\ NoEntryOrder.filled = 0 /\ NoEntryOrder.at = "none"
        /\ root = [state |-> "absent", filled |-> 0] /\ root \in RootRows
    BY DEF NoLeg, LegRow, NoEntryOrder, Orders, LimitQty, MarketQty, ManageInit, RootRows,
           LegStates
  <2>2. manager = Idle /\ Idle \in Managers /\ Idle.pc = "idle"
    BY <2>1, IdleManager DEF ManageInit, ManagerPcs
  <2>3. PICK a \in Actions :
            update = [action |-> a, state |-> "queued", attempts |-> 0, intents |-> {}]
    BY DEF ManageInit
  <2>4. /\ update \in UpdateRows /\ update.intents = {} /\ update.attempts = 0
        /\ 0 < MaxAttempts
    BY <2>3, ManagementAssumption DEF UpdateRows
  <2>5. /\ sent \in [Mutations -> 0..1] /\ \A m \in Mutations: sent[m] = 0
        /\ entry \in [pc: EntryPcs, mem: LegRow] /\ entry.pc = "idle"
        /\ recovery \in [busy: BOOLEAN, staged: BOOLEAN, filled: 0..LimitQty] /\ ~recovery.busy
        /\ wire \in [cancel: BOOLEAN, close: 0..4]
    BY <2>1 DEF ManageInit, EntryPcs, AtEase, LimitQty, MarketQty
  <2>6. leg = NoLeg /\ mkt = NoEntryOrder /\ lim = NoEntryOrder /\ net = 0
        /\ current \in BOOLEAN /\ crashes \in Nat /\ overrun \in BOOLEAN
    BY DEF ManageInit
  <2>7. Shape
    <3>1. /\ mkt.filled <= MarketQty /\ net \in 0..4 /\ net <= mkt.filled + lim.filled
      BY <2>1, <2>6 DEF MarketQty
    <3>2. leg \in LegRow /\ mkt \in Orders /\ lim \in Orders
      BY <2>1, <2>6
    <3> QED BY <2>1, <2>2, <2>4, <2>5, <2>6, <3>1, <3>2 DEF Shape
  <2>8. Budget /\ Unsplit /\ Posted
    BY <2>1, <2>2, <2>4, <2>5, <2>6 DEF Budget, Unsplit, Posted, Mutations
  <2>9. CancelPosted /\ Intended
    BY <2>2, <2>4, <2>5 DEF CancelPosted, Intended, Mutations, Working
  <2> QED BY <2>7, <2>8, <2>9 DEF ManageInv
<1>2. ManageInv /\ [ManageNext]_manageVars => ManageInv'
  <2> SUFFICES ASSUME ManageInv, [ManageNext]_manageVars PROVE ManageInv'
    OBVIOUS
  <2>1. CASE UNCHANGED manageVars
    BY <2>1 DEF manageVars, ManageInv, Shape, Budget, Unsplit, Posted, CancelPosted, Intended
  <2>2. CASE ManageNext
    BY <2>2, EntryStepKeeps, ManagerStepKeeps, VenueKeeps, RecoveryKeeps, StopsKeep
    DEF ManageNext
  <2> QED BY <2>1, <2>2
<1> QED BY <1>1, <1>2, PTL DEF ManageSpec

\* Type correctness: the rows, the orders and a position between nothing and both legs.
THEOREM ManageTypeCorrect == ManageSpec => []ManageTypeOK
<1>1. ManageInv => ManageTypeOK
  <2> SUFFICES ASSUME ManageInv PROVE ManageTypeOK
    OBVIOUS
  <2>1. Size \in 0..(MarketQty + LimitQty)
    BY SizeInRange DEF ManageInv, MarketQty, LimitQty
  <2> QED BY <2>1 DEF ManageInv, Shape, ManageTypeOK, RootRows, Orders, Managers, UpdateRows
<1> QED BY <1>1, ManageInvariant, PTL

\* No mutation is posted twice, through crashes, retries and lost answers.
THEOREM NoMutationTwice == ManageSpec => []MutatesOnce
<1>1. ManageInv => MutatesOnce
  BY DEF ManageInv, Shape, MutatesOnce
<1> QED BY <1>1, ManageInvariant, PTL

-----------------------------------------------------------------------------
(* A leg that is terminal in the database is dead at the venue *)

\* A staged leg was never posted, and the leg that is about to be posted is not terminal
\* unless recovery withdrew it after its claim.
Staged ==
    /\ leg.state = "staged" => /\ ~leg.terminal /\ lim.at = "none"
                               /\ entry.pc \notin {"check", "post", "legsent"}
    /\ entry.pc \in {"check", "post"} /\ ~overrun => ~leg.terminal
    /\ TerminalLegIsDead

\* A step of the dispatcher before the limit leg is sent.
LEMMA EntryStepStaged ==
    ASSUME ManageInv, Staged, EntryStep
    PROVE  Staged'
<1>1. /\ leg \in LegRow /\ entry.mem \in LegRow /\ lim \in Orders /\ LimitQty \in Nat
      /\ Shape
  BY DEF ManageInv, Shape, LimitQty, MarketQty
<1>2. entry.pc # "over" /\ overrun' = overrun
  BY DEF EntryStep, ClaimSplit, VetoSplit, PostMarket, VetoMarket, MarketRead, ProtectMarket,
         ClaimEntryPost, CheckLeg, PostLeg, LegRead, EntryAt, entryRest
<1>3. entry.pc # "legsent" => lim.at = "none"
  BY <1>2 DEF ManageInv, Posted
<1>4. CASE ClaimSplit
  <2>1. NoLeg \in LegRow /\ NoLeg.terminal = FALSE
    BY DEF NoLeg, LegRow, LimitQty, MarketQty
  <2>2. [NoLeg EXCEPT !.state = "staged"].terminal = FALSE
    BY <2>1, Zenon DEF LegRow
  <2>3. leg'.terminal = FALSE /\ lim' = lim /\ lim.at = "none" /\ entry'.pc = "market"
    BY <1>3, <1>4, <2>2 DEF ClaimSplit, EntryAt
  <2> QED BY <1>2, <2>3 DEF Staged, TerminalLegIsDead
<1>5. CASE VetoSplit \/ PostMarket
  <2>1. entry'.pc \in {"over", "marketsent"} /\ UNCHANGED <<leg, lim>>
    BY <1>5 DEF VetoSplit, PostMarket, ToEntry
  <2> QED BY <1>2, <2>1 DEF Staged, TerminalLegIsDead
<1>6. CASE VetoMarket \/ MarketRead \/ ProtectMarket \/ CheckLeg
  <2>1. /\ entry'.pc \in {"over", "protect", "claimleg", "post"} /\ UNCHANGED lim
        /\ entry'.pc = "post" => leg' = leg /\ entry.pc = "check"
        /\ lim.at = "none"
    BY <1>3, <1>6 DEF VetoMarket, MarketRead, ProtectMarket, CheckLeg, EntryAt, ToEntry
  <2>2. \/ leg' = leg
        \/ leg' = Update(leg, Withdrawn(leg)) \/ leg' = Update(leg, Withdrawn(entry.mem))
        \/ leg' = Update(leg, Refused(entry.mem))
    BY <1>6 DEF VetoMarket, MarketRead, ProtectMarket, CheckLeg
  <2>3. leg' = leg \/ leg'.state # "staged"
    BY <1>1, <2>2, RetiredLeg DEF LegRow
  <2> QED BY <1>2, <2>1, <2>3 DEF Staged, TerminalLegIsDead, Dead
<1>7. CASE ClaimEntryPost
  <2>1. CASE MayPostLeg
    <3>1. /\ leg' = [leg EXCEPT !.state = "requested"] /\ entry' = [pc |-> "check", mem |-> leg']
          /\ leg.state = "staged" /\ UNCHANGED lim
      BY <1>7, <2>1 DEF ClaimEntryPost, MayPostLeg
    <3>2. leg'.state = "requested" /\ leg'.terminal = leg.terminal
      BY <1>1, <3>1, Zenon DEF LegRow
    <3> QED BY <1>2, <3>1, <3>2 DEF Staged, TerminalLegIsDead
  <2>2. CASE ~MayPostLeg
    <3>1. entry'.pc = "over" /\ UNCHANGED <<leg, lim>>
      BY <1>7, <2>2 DEF ClaimEntryPost, ToEntry
    <3> QED BY <1>2, <3>1 DEF Staged, TerminalLegIsDead
  <2> QED BY <2>1, <2>2
<1>8. CASE PostLeg
  <2>1. entry.pc = "post" /\ entry'.pc = "legsent" /\ UNCHANGED leg
    BY <1>8 DEF PostLeg, EntryAt, ToEntry
  <2> QED BY <1>2, <2>1 DEF Staged, TerminalLegIsDead
<1>9. CASE LegRead
  <2>1. /\ entry.pc = "legsent" /\ entry'.pc = "over" /\ UNCHANGED lim
        /\ leg' = leg \/ leg' = Update(leg, Reading(lim, LimitQty))
    BY <1>9 DEF LegRead, EntryAt, ToEntry
  <2>2. CASE leg' = leg
    BY <1>2, <2>1, <2>2 DEF Staged, TerminalLegIsDead
  <2>3. CASE leg' = Update(leg, Reading(lim, LimitQty))
    <3>1. leg'.state # "staged" /\ (leg'.terminal => leg.terminal \/ lim.at = "gone")
      BY <1>1, <2>3, ReadingOfOrder, UpdateRow
    <3> QED BY <1>2, <2>1, <3>1 DEF Staged, TerminalLegIsDead, Dead
  <2> QED BY <2>1, <2>2, <2>3
<1> QED BY <1>4, <1>5, <1>6, <1>7, <1>8, <1>9 DEF EntryStep

\* Source management retires a leg that was never posted, or that it read as dead.
LEMMA ManagerStepStaged ==
    ASSUME ManageInv, Staged, ManagerStep
    PROVE  Staged'
<1>1. leg \in LegRow /\ lim \in Orders /\ LimitQty \in Nat /\ Size \in 0..4
  BY SizeInRange DEF ManageInv, Shape, LimitQty, MarketQty
<1>2. UNCHANGED managerRest
  BY DEF ManagerStep, ClaimUpdate, Look, ClaimCancel, ReadBeforeCancel, PostCancel,
         ReadAfterCancel, ReadRoot, ReadPositions, ClaimMutation, PostClose, ReadClose,
         PostStop, ReadStop
<1>3. LegManaged
  <2>1. CASE ReadPositions
    <3>1. leg' \in {leg, RereadLeg}
      <4>1. CASE Size = 0
        BY <2>1, <4>1 DEF ReadPositions
      <4>2. CASE Size > 0
        BY <2>1, <4>2 DEF ReadPositions
      <4> QED BY <1>1, <4>1, <4>2
    <3> QED BY <3>1, RereadIsManaged DEF LegManaged
  <2>2. CASE Look
    BY <2>2, RereadIsManaged DEF Look, LegManaged
  <2>3. CASE ClaimCancel \/ ReadBeforeCancel \/ ReadAfterCancel
    BY <2>3 DEF ClaimCancel, ReadBeforeCancel, ReadAfterCancel, LegManaged
  <2>4. CASE ClaimUpdate \/ PostCancel \/ ReadRoot \/ ClaimMutation \/ PostClose
             \/ ReadClose \/ PostStop \/ ReadStop
    BY <2>4 DEF ClaimUpdate, PostCancel, ReadRoot, ClaimMutation, PostClose, ReadClose,
                PostStop, ReadStop, LegManaged
  <2> QED BY <2>1, <2>2, <2>3, <2>4 DEF ManagerStep
<1>4. /\ leg'.state = "staged" => leg.state = "staged" /\ leg'.terminal = leg.terminal
      /\ leg'.terminal => leg.terminal \/ lim.at = "gone" \/ leg.state = "staged"
  <2>1. CASE leg' = leg
    BY <2>1
  <2>2. CASE leg' = Update(leg, Reading(lim, LimitQty))
    BY <1>1, <2>2, ReadingOfOrder, UpdateRow
  <2>3. CASE leg' = CancelClaimed(leg)
    BY <1>1, <2>3, CancelClaimedRow
  <2>4. CASE leg' = [leg EXCEPT !.cancelPost = TRUE]
    <3>1. leg'.state = leg.state /\ leg'.terminal = leg.terminal
      BY <1>1, <2>4, Zenon DEF LegRow
    <3> QED BY <3>1
  <2> QED BY <1>3, <2>1, <2>2, <2>3, <2>4 DEF LegManaged
<1>5. entry.pc \in {"check", "post"} => lim.at = "none" /\ leg.state # "staged"
  BY DEF ManageInv, Posted, Staged
<1> QED BY <1>2, <1>4, <1>5 DEF Staged, TerminalLegIsDead, Dead, managerRest

\* Recovery withdraws what is staged, which the dispatcher did not post; or it overruns the
\* dispatcher.
LEMMA RecoveryStaged ==
    ASSUME ManageInv, Staged, RecoverRoot \/ RecoverLegRead \/ RecoverLegWrite
    PROVE  Staged'
<1>1. /\ Shape /\ leg \in LegRow /\ lim \in Orders /\ recovery.filled \in 0..LimitQty
      /\ LimitQty \in Nat
  BY DEF ManageInv, Shape, LimitQty, MarketQty
<1>2. UNCHANGED recoverRest
  BY DEF RecoverRoot, RecoverLegRead, RecoverLegWrite
<1>3. CASE RecoverRoot \/ RecoverLegRead
  <2>1. UNCHANGED <<leg, overrun>>
    BY <1>3 DEF RecoverRoot, RecoverLegRead
  <2> QED BY <1>2, <2>1 DEF Staged, TerminalLegIsDead, recoverRest
<1>4. CASE RecoverLegWrite
  <2>1. /\ leg' = RecoveredLeg(recovery)
        /\ overrun' = (overrun \/ (recovery.staged /\ leg.state # "staged" /\ ~leg.terminal))
    BY <1>4 DEF RecoverLegWrite
  <2>2. CASE recovery.staged
    <3>1. leg'.state \in {"cancelled", "rejected"}
      <4>1. leg' = Update(leg, Withdrawn(recovery))
        BY <2>1, <2>2 DEF RecoveredLeg
      <4> QED BY <1>1, <4>1, RetiredLeg
    <3>2. ~overrun' => leg.state = "staged" \/ leg.terminal
      BY <2>1, <2>2
    <3>3. ~overrun' => lim.at \in Dead /\ entry.pc \notin {"check", "post"}
      BY <2>1, <3>2 DEF Staged, TerminalLegIsDead, Dead
    <3> QED BY <1>2, <3>1, <3>3 DEF Staged, TerminalLegIsDead, recoverRest
  <2>3. CASE ~recovery.staged /\ leg' = leg
    BY <1>2, <2>1, <2>3 DEF Staged, TerminalLegIsDead, recoverRest
  <2>4. CASE ~recovery.staged /\ leg' = Update(leg, Reading(lim, LimitQty))
    <3>1. leg'.state # "staged" /\ (leg'.terminal => leg.terminal \/ lim.at = "gone")
      BY <1>1, <2>4, ReadingOfOrder, UpdateRow
    <3>2. entry.pc \in {"check", "post"} => lim.at = "none"
      BY DEF ManageInv, Posted
    <3> QED BY <1>2, <2>1, <2>4, <3>1, <3>2
            DEF Staged, TerminalLegIsDead, Dead, recoverRest
  <2> QED BY <2>1, <2>2, <2>3, <2>4 DEF RecoveredLeg
<1> QED BY <1>3, <1>4

\* A leg that is terminal in the database neither rests at the venue nor is on its way
\* there (pending_entries, claim_entry_post), whatever dispatcher, recovery and source
\* management read before they write, unless recovery withdraws a leg that the dispatcher
\* has claimed since it was read (_reconcile_waiting_leg).
THEOREM TerminalLegsAreDead == ManageSpec => []TerminalLegIsDead
<1>1. ManageInit => Staged
  BY DEF ManageInit, Staged, TerminalLegIsDead, NoLeg, NoEntryOrder
<1>2. ManageInv /\ Staged /\ [ManageNext]_manageVars => Staged'
  <2> SUFFICES ASSUME ManageInv, Staged, [ManageNext]_manageVars PROVE Staged'
    OBVIOUS
  <2>1. CASE UNCHANGED manageVars
    BY <2>1 DEF manageVars, Staged, TerminalLegIsDead
  <2>2. CASE VenueStep
    <3>1. UNCHANGED outside /\ (lim.at \in Dead => lim' = lim)
      BY <2>2, VenueKeeps
    <3> QED BY <3>1 DEF outside, Staged, TerminalLegIsDead, Dead
  <2>3. CASE StopEntry
    <3>1. entry.pc # "over" /\ entry'.pc = "over" /\ UNCHANGED <<leg, lim, overrun>>
      BY <2>3 DEF StopEntry, ToEntry
    <3> QED BY <3>1 DEF Staged, TerminalLegIsDead
  <2>4. CASE SourceAges \/ StopManager
    BY <2>4 DEF SourceAges, StopManager, Staged, TerminalLegIsDead
  <2> QED BY <2>1, <2>2, <2>3, <2>4, EntryStepStaged, ManagerStepStaged, RecoveryStaged
          DEF ManageNext
<1>3. Staged => TerminalLegIsDead
  BY DEF Staged
<1> QED BY <1>1, <1>2, <1>3, ManageInvariant, PTL DEF ManageSpec

-----------------------------------------------------------------------------
(* The paper lane: the inductive invariant.                                *)

Trades == [state : {"open", "closed"}, symbol : STRING, side : {"LONG", "SHORT", "none"},
           fills : Seq(Nat), stop : Seq(Nat), target : Nat, exit : Seq(Nat)]

\* What is only recorded of a message, by what it says; and a note of that kind.
QuietOf(text) == IF text.chart THEN {"MEDIA_ONLY", "REFUSED:IMAGE"} ELSE {"NOISE"}
Quiet(e) == e.event \in QuietOf(wording[e.message]) /\ e.closes = FALSE
Loud(e) == e.event \notin QuietOf(wording[e.message])

\* A note that changes what the journal tells of a trade.
Counts(e) == e.event \in {"OPEN", "ADD"} \/ e.closes

\* A ledger with one row written.
Put(ledger, m, x) == [n \in Messages |-> IF n = m THEN x ELSE ledger[n]]

\* A ledger and the entries it follows from.
Story(ledger, entries) ==
    /\ ledger \in [Messages -> Trades \cup {NoTrade}]
    /\ IsFiniteSet(entries)
    /\ \A m \in Messages : Tells(entries, m, ledger[m])
    /\ OpenOnce(ledger)
    /\ \A e \in entries : e.event = "ADD" \/ e.closes =>
          e.trade \in Messages /\ ledger[e.trade] # NoTrade

\* The transaction of a worker: it has written nothing that counts before it took the lane,
\* and what it wrote since follows from the journal and its own entries, which the journal
\* does not have.
Transacts(w) ==
    /\ DOMAIN batch[w] = {"todo", "done", "wrote", "noted", "lane", "open"}
    /\ batch[w].todo \subseteq 1..PaperRows /\ batch[w].lane \in BOOLEAN
    /\ batch[w].wrote \in [Messages -> Trades \cup {NoTrade, Unwritten}]
    /\ IsFiniteSet(batch[w].noted)
    /\ IF batch[w].lane
       THEN /\ Story(Overlay(batch[w].wrote), Noted(w))
            /\ \A e \in batch[w].noted : Quiet(e) \/ (Loud(e) /\ Added(journal, e) = {e})
       ELSE /\ batch[w].wrote = NoBatch.wrote
            /\ \A e \in batch[w].noted : Quiet(e)

PaperInv ==
    /\ wording \in [Messages -> Wordings] /\ arrived \in 0..PaperRows
    /\ Story(paper, journal)
    /\ batch = [w \in PaperWorkers |-> batch[w]]
    /\ \A w \in PaperWorkers : Transacts(w)
    /\ \A v, w \in PaperWorkers : batch[v].lane /\ batch[w].lane => v = w

LEMMA SameStory ==
    ASSUME NEW p, NEW j, NEW k, Story(p, j), IsFiniteSet(k),
           \A e \in j \cup k : (e \in j /\ e \in k) \/ ~Counts(e)
    PROVE  Story(p, k)
<1>1. \A m \in Messages : Tells(k, m, p[m])
  <2> SUFFICES ASSUME NEW m \in Messages PROVE Tells(k, m, p[m])
    OBVIOUS
  <2>1. Additions(j, m) = Additions(k, m) /\ Closings(j, m) = Closings(k, m)
    BY DEF Additions, Closings, Counts
  <2>2. (\E e \in j : e.message = m /\ e.event = "OPEN")
        <=> (\E e \in k : e.message = m /\ e.event = "OPEN")
    BY DEF Counts
  <2>3. Tells(j, m, p[m])
    BY DEF Story
  <2> QED BY <2>1, <2>2, <2>3 DEF Tells
<1>2. \A e \in k : e.event = "ADD" \/ e.closes => e.trade \in Messages /\ p[e.trade] # NoTrade
  BY DEF Story, Counts
<1> QED BY <1>1, <1>2 DEF Story

LEMMA OpenedStory ==
    ASSUME NEW p, NEW j, Story(p, j), NEW m \in Messages, p[m] = NoTrade,
           NEW x \in Trades, x.state = "open", Len(x.fills) = 1,
           OpenTrades(p, x.symbol) = {}
    PROVE  Story(Put(p, m, x), j \cup {Entry(m, "OPEN", None, FALSE)})
<1> DEFINE e == Entry(m, "OPEN", None, FALSE)
           q == Put(p, m, x)
           k == j \cup {e}
<1>1. /\ e.message = m /\ e.event = "OPEN" /\ e.trade = None /\ e.closes = FALSE
      /\ x # NoTrade
  BY DEF Entry, NoTrade
<1>2. /\ q = [n \in Messages |-> IF n = m THEN x ELSE p[n]]
      /\ q \in [Messages -> Trades \cup {NoTrade}] /\ IsFiniteSet(k)
  BY FS_AddElement DEF Story, Put
<1>3. \A n \in Messages : Tells(k, n, q[n])
  <2> SUFFICES ASSUME NEW n \in Messages PROVE Tells(k, n, q[n])
    OBVIOUS
  <2>1. Additions(k, n) = Additions(j, n) /\ Closings(k, n) = Closings(j, n)
    BY <1>1 DEF Additions, Closings
  <2>2. Tells(j, n, p[n])
    BY DEF Story
  <2>3. CASE n # m
    BY <1>1, <2>1, <2>2, <2>3 DEF Tells, Put
  <2>4. CASE n = m
    <3>1. Additions(j, m) = {} /\ Closings(j, m) = {}
      BY DEF Story, Additions, Closings
    <3>2. q[m] = x /\ \E f \in k : f.message = m /\ f.event = "OPEN"
      BY <1>1 DEF Put
    <3>3. Cardinality(Additions(k, m)) = 0 /\ Cardinality(Closings(k, m)) = 0
      BY <2>1, <2>4, <3>1, FS_EmptySet
    <3>4. x.state # "closed" /\ Len(x.fills) = 1 + 0
      OBVIOUS
    <3> QED BY <1>1, <2>4, <3>2, <3>3, <3>4 DEF Tells
  <2> QED BY <2>3, <2>4
<1>4. OpenOnce(q)
  BY <1>1 DEF Story, OpenOnce, OpenTrades, Put
<1>5. \A f \in k : f.event = "ADD" \/ f.closes => f.trade \in Messages /\ q[f.trade] # NoTrade
  BY <1>1 DEF Story, Put
<1> QED BY <1>2, <1>3, <1>4, <1>5 DEF Story

LEMMA ChangedStory ==
    ASSUME NEW p, NEW j, Story(p, j), NEW m, NEW event, event # "OPEN",
           NEW s \in Messages, p[s].state = "open",
           NEW x \in Trades, x.symbol = p[s].symbol,
           Len(x.fills) = Len(p[s].fills) + (IF event = "ADD" THEN 1 ELSE 0),
           event = "ADD" => x.state = "open",
           NEW c \in BOOLEAN, c <=> x.state = "closed",
           Entry(m, event, s, c) \notin j
    PROVE  Story(Put(p, s, x), j \cup {Entry(m, event, s, c)})
<1> DEFINE e == Entry(m, event, s, c)
           q == Put(p, s, x)
           k == j \cup {e}
<1>1. /\ e.message = m /\ e.event = event /\ e.trade = s /\ e.closes = c
      /\ x # NoTrade /\ p[s] # NoTrade /\ p[s] \in Trades
  <2>1. e.message = m /\ e.event = event /\ e.trade = s
    BY DEF Entry
  <2>2. e.closes = c
    BY DEF Entry
  <2>3. x # NoTrade
    BY DEF NoTrade, Trades
  <2>4. p[s] \in Trades \cup {NoTrade} /\ NoTrade.state = "none"
    BY DEF Story, NoTrade
  <2> QED BY <2>1, <2>2, <2>3, <2>4
<1>2. /\ q = [n \in Messages |-> IF n = s THEN x ELSE p[n]]
      /\ q \in [Messages -> Trades \cup {NoTrade}] /\ IsFiniteSet(k)
  BY FS_AddElement DEF Story, Put
<1>3. \A n \in Messages : Tells(k, n, q[n])
  <2> SUFFICES ASSUME NEW n \in Messages PROVE Tells(k, n, q[n])
    OBVIOUS
  <2>1. Tells(j, n, p[n])
    BY DEF Story
  <2>2. (\E f \in k : f.message = n /\ f.event = "OPEN")
        <=> (\E f \in j : f.message = n /\ f.event = "OPEN")
    BY <1>1
  <2>3. CASE n # s
    <3>1. Additions(k, n) = Additions(j, n) /\ Closings(k, n) = Closings(j, n)
      BY <1>1, <2>3 DEF Additions, Closings
    <3> QED BY <2>1, <2>2, <2>3, <3>1 DEF Tells, Put
  <2>4. CASE n = s
    <3>1. IsFiniteSet(Additions(j, s)) /\ IsFiniteSet(Closings(j, s))
      BY FS_Subset DEF Story, Additions, Closings
    <3>2. Cardinality(Additions(k, s))
            = Cardinality(Additions(j, s)) + (IF event = "ADD" THEN 1 ELSE 0)
      <4>1. CASE event = "ADD"
        <5>1. Additions(k, s) = Additions(j, s) \cup {e} /\ e \notin Additions(j, s)
          BY <1>1, <4>1 DEF Additions
        <5> QED BY <3>1, <4>1, <5>1, FS_AddElement
      <4>2. CASE event # "ADD"
        <5>1. Additions(k, s) = Additions(j, s)
          BY <1>1, <4>2 DEF Additions
        <5> QED BY <3>1, <4>2, <5>1, FS_CardinalityType
      <4> QED BY <4>1, <4>2
    <3>3. Cardinality(Closings(k, s)) = IF x.state = "closed" THEN 1 ELSE 0
      <4>1. Cardinality(Closings(j, s)) = 0
        BY <1>1, <2>1, <2>4 DEF Tells
      <4>2. CASE x.state = "closed"
        <5>1. Closings(k, s) = Closings(j, s) \cup {e} /\ e \notin Closings(j, s)
          BY <1>1, <4>2 DEF Closings
        <5>2. Cardinality(Closings(k, s)) = Cardinality(Closings(j, s)) + 1
          BY <3>1, <5>1, FS_AddElement
        <5> QED BY <4>1, <4>2, <5>2
      <4>3. CASE x.state # "closed"
        <5>1. Closings(k, s) = Closings(j, s)
          BY <1>1, <4>3 DEF Closings
        <5> QED BY <4>1, <4>3, <5>1
      <4> QED BY <4>2, <4>3
    <3>4. /\ q[s] = x
          /\ Len(x.fills) = 1 + Cardinality(Additions(k, s))
          /\ \E f \in j : f.message = s /\ f.event = "OPEN"
      <4>1. Cardinality(Additions(j, s)) \in Nat
        BY <3>1, FS_CardinalityType
      <4>2. Len(p[s].fills) = 1 + Cardinality(Additions(j, s)) /\ q[s] = x
        BY <1>1, <2>1, <2>4 DEF Tells, Put
      <4>3. \E f \in j : f.message = s /\ f.event = "OPEN"
        BY <1>1, <2>1, <2>4 DEF Tells
      <4> QED BY <3>2, <4>1, <4>2, <4>3
    <3> QED BY <1>1, <2>2, <2>4, <3>3, <3>4 DEF Tells
  <2> QED BY <2>3, <2>4
<1>4. OpenOnce(q)
  BY <1>1 DEF Story, OpenOnce, Put
<1>5. \A f \in k : f.event = "ADD" \/ f.closes => f.trade \in Messages /\ q[f.trade] # NoTrade
  BY <1>1 DEF Story, Put
<1> QED BY <1>2, <1>3, <1>4, <1>5 DEF Story

LEMMA OpenedTrade ==
    ASSUME NEW text \in Wordings, NEW price \in Nat, NEW x \in Opened(text, price)
    PROVE  x \in Trades /\ x.state = "open" /\ Len(x.fills) = 1 /\ x.symbol = text.symbol
<1>1. Given(text.entry, price) \in Nat
  BY DEF Given, Wordings
<1>2. /\ x = [state |-> "open", symbol |-> text.symbol, side |-> text.side,
              fills |-> <<Given(text.entry, price)>>, stop |-> <<text.stop>>,
              target |-> text.target, exit |-> <<>>]
  BY DEF Opened
<1>3. /\ text.symbol \in STRING /\ text.side \in {"LONG", "SHORT", "none"}
      /\ text.stop \in Nat /\ text.target \in Nat
  BY DEF Wordings
<1>4. <<Given(text.entry, price)>> \in Seq(Nat) /\ <<text.stop>> \in Seq(Nat) /\ <<>> \in Seq(Nat)
  BY <1>1, <1>3
<1> QED BY <1>2, <1>3, <1>4 DEF Trades

LEMMA ChangedTrade ==
    ASSUME NEW x \in Trades, x.state = "open", NEW event, NEW text \in Wordings,
           NEW price \in Nat, NEW y \in Changed(x, event, text, price)
    PROVE  /\ y \in Trades /\ y.symbol = x.symbol
           /\ Len(y.fills) = Len(x.fills) + (IF event = "ADD" THEN 1 ELSE 0)
           /\ event = "ADD" => y.state = "open"
<1> USE DEF Trades
<1>1. text.entry \in Nat /\ text.stop \in Nat /\ text.target \in Nat
  BY DEF Wordings
<1>2. <<text.stop>> \in Seq(Nat) /\ x.fills \in Seq(Nat) /\ x.stop \in Seq(Nat)
      /\ Len(x.fills) = Len(x.fills) + 0
  BY <1>1
<1>3. CASE event = "ADD"
  <2>1. PICK fill \in Nat :
          y = [x EXCEPT !.fills = Append(@, fill),
                        !.stop = IF text.stop # None THEN <<text.stop>> ELSE @]
    BY <1>1, <1>3 DEF Changed, Given
  <2>2. Append(x.fills, fill) \in Seq(Nat) /\ Len(Append(x.fills, fill)) = Len(x.fills) + 1
    BY <1>2
  <2> QED BY <1>2, <1>3, <2>1, <2>2
<1>4. CASE event = "STOP_MOVE"
  <2>1. y = [x EXCEPT !.stop = <<text.stop>>]
    BY <1>4 DEF Changed
  <2>2. y \in Trades
    BY <1>2, <2>1
  <2>3. y.fills = x.fills /\ y.symbol = x.symbol
    BY <2>1
  <2> QED BY <1>2, <1>4, <2>2, <2>3
<1>5. CASE event = "BREAKEVEN"
  <2>1. y = [x EXCEPT !.stop = x.fills]
    BY <1>5 DEF Changed
  <2>2. y \in Trades
    BY <1>2, <2>1
  <2>3. y.fills = x.fills /\ y.symbol = x.symbol
    BY <2>1
  <2> QED BY <1>2, <1>5, <2>2, <2>3
<1>6. CASE event = "TP" /\ text.target # None
  <2>1. y = [x EXCEPT !.target = text.target]
    BY <1>6 DEF Changed
  <2>2. y \in Trades
    BY <1>1, <2>1
  <2>3. y.fills = x.fills /\ y.symbol = x.symbol
    BY <2>1
  <2> QED BY <1>2, <1>6, <2>2, <2>3
<1>7. CASE event = "TP_REMOVED"
  <2>1. y = [x EXCEPT !.target = None]
    BY <1>7 DEF Changed
  <2>2. y \in Trades
    BY <2>1 DEF None
  <2>3. y.fills = x.fills /\ y.symbol = x.symbol
    BY <2>1
  <2> QED BY <1>2, <1>7, <2>2, <2>3
<1>8. CASE /\ event \notin {"ADD", "STOP_MOVE", "BREAKEVEN", "TP_REMOVED"}
           /\ ~(event = "TP" /\ text.target # None)
  <2>1. PICK level \in ExitLevels(x, event, price) :
          y = [x EXCEPT !.state = "closed", !.exit = level]
    BY <1>8 DEF Changed
  <2>2. <<price>> \in Seq(Nat) /\ <<x.target>> \in Seq(Nat)
    OBVIOUS
  <2>3. level \in Seq(Nat)
    BY <1>2, <2>2 DEF ExitLevels
  <2>4. y \in Trades
    BY <2>1, <2>3
  <2>5. y.fills = x.fills /\ y.symbol = x.symbol
    BY <2>1
  <2> QED BY <1>2, <1>8, <2>4, <2>5
<1> QED BY <1>3, <1>4, <1>5, <1>6, <1>7, <1>8

\* The ledger and the entries a worker sees tell the same story, with the lane or without.
LEMMA SeenStory ==
    ASSUME PaperInv, NEW w \in PaperWorkers
    PROVE  Story(Overlay(batch[w].wrote), Noted(w))
<1>1. Transacts(w) /\ Story(paper, journal)
  BY DEF PaperInv
<1>2. CASE batch[w].lane
  BY <1>1, <1>2 DEF Transacts
<1>3. CASE ~batch[w].lane
  <2>1. Overlay(batch[w].wrote) = paper
    BY <1>1, <1>3 DEF Transacts, Overlay, NoBatch, Story
  <2>2. \A e \in batch[w].noted : ~Counts(e)
    BY <1>1, <1>3 DEF Transacts, Quiet, QuietOf, Counts
  <2>3. IsFiniteSet(Noted(w))
    BY <1>1, FS_Union DEF Transacts, Noted, Story
  <2> QED BY <1>1, <2>1, <2>2, <2>3, SameStory DEF Noted
<1> QED BY <1>2, <1>3

\* What a transaction writes is its own until it commits.
LEMMA WorkerKeeps ==
    ASSUME PaperInv, UNCHANGED <<wording, paper, journal>>, arrived' \in 0..PaperRows,
           NEW w \in PaperWorkers, batch' = [v \in PaperWorkers |-> batch'[v]],
           \A v \in PaperWorkers \ {w} : batch'[v] = batch[v], Transacts(w)',
           batch'[w].lane => \A v \in PaperWorkers \ {w} : ~batch[v].lane
    PROVE  PaperInv'
<1>1. \A v \in PaperWorkers \ {w} : Transacts(v)'
  <2> SUFFICES ASSUME NEW v \in PaperWorkers \ {w} PROVE Transacts(v)'
    OBVIOUS
  <2>1. /\ batch'[v] = batch[v]
        /\ Overlay(batch[v].wrote)' = Overlay(batch[v].wrote)
        /\ Noted(v)' = Noted(v)
    BY DEF Overlay, Noted
  <2>2. \A e : (Quiet(e)' <=> Quiet(e)) /\ (Loud(e)' <=> Loud(e))
    BY DEF Quiet, Loud
  <2>3. Transacts(v)
    BY DEF PaperInv
  <2> QED BY <2>1, <2>2, <2>3 DEF Transacts
<1>2. Story(paper, journal)'
  BY DEF PaperInv
<1> QED BY <1>1, <1>2 DEF PaperInv

LEMMA NewBatch ==
    ASSUME PaperInv, UNCHANGED <<wording, arrived, paper, journal>>, NEW w \in PaperWorkers,
           NEW b, DOMAIN b = {"todo", "done", "wrote", "noted", "lane", "open"},
           b.todo \subseteq 1..PaperRows, b.wrote = NoBatch.wrote, b.noted = {}, b.lane = FALSE,
           batch' = [batch EXCEPT ![w] = b]
    PROVE  PaperInv'
<1>1. batch'[w] = b
  BY DEF PaperInv
<1>2. Transacts(w)'
  <2>1. NoBatch.wrote = [m \in Messages |-> Unwritten]
    BY DEF NoBatch
  <2> QED BY <1>1, <2>1, FS_EmptySet DEF Transacts
<1>3. /\ batch' = [v \in PaperWorkers |-> batch'[v]]
      /\ \A v \in PaperWorkers \ {w} : batch'[v] = batch[v]
  BY DEF PaperInv
<1> QED BY <1>1, <1>2, <1>3, WorkerKeeps DEF PaperInv

\* What Handled leaves of the transaction.
HandledBy(w, written, entries, lane) ==
    /\ batch' = [v \in PaperWorkers |-> batch'[v]]
    /\ \A v \in PaperWorkers \ {w} : batch'[v] = batch[v]
    /\ DOMAIN batch'[w] = {"todo", "done", "wrote", "noted", "lane", "open"}
    /\ batch'[w].todo \subseteq batch[w].todo
    /\ batch'[w].wrote = [m \in Messages |-> batch'[w].wrote[m]]
    /\ \A m \in Messages :
          /\ m \in DOMAIN written => batch'[w].wrote[m] = written[m]
          /\ m \notin DOMAIN written => batch'[w].wrote[m] = batch[w].wrote[m]
    /\ batch'[w].noted = batch[w].noted \cup UNION {Added(Noted(w), e) : e \in entries}
    /\ batch'[w].lane = (batch[w].lane \/ lane)

LEMMA HandledRow ==
    ASSUME PaperInv, NEW w \in PaperWorkers, NEW r, NEW written, NEW entries,
           NEW lane \in BOOLEAN, Handled(w, r, written, entries, lane)
    PROVE  HandledBy(w, written, entries, lane)
<1> DEFINE b == batch[w]
           c == [b EXCEPT !.todo = @ \ {r}, !.done = @ \cup {r},
                          !.wrote = [m \in Messages |-> IF m \in DOMAIN written THEN written[m]
                                                                                ELSE @[m]],
                          !.noted = @ \cup UNION {Added(Noted(w), e) : e \in entries},
                          !.lane = @ \/ lane]
<1>1. batch' = [batch EXCEPT ![w] = c]
  BY DEF Handled
<1>2. /\ batch = [v \in PaperWorkers |-> batch[v]]
      /\ DOMAIN b = {"todo", "done", "wrote", "noted", "lane", "open"} /\ b.lane \in BOOLEAN
  BY DEF PaperInv, Transacts
<1>3. /\ DOMAIN c = {"todo", "done", "wrote", "noted", "lane", "open"}
      /\ c.todo = b.todo \ {r}
      /\ c.wrote = [m \in Messages |-> IF m \in DOMAIN written THEN written[m] ELSE b.wrote[m]]
      /\ c.noted = b.noted \cup UNION {Added(Noted(w), e) : e \in entries}
      /\ c.lane = (b.lane \/ lane)
  BY <1>2
<1>4. batch'[w] = c /\ \A v \in PaperWorkers \ {w} : batch'[v] = batch[v]
  BY <1>1, <1>2
<1>5. batch' = [v \in PaperWorkers |-> batch'[v]]
  BY <1>1, <1>2
<1> HIDE DEF c
<1> QED BY <1>3, <1>4, <1>5 DEF HandledBy

\* What is in a transaction only records, or is new to the journal.
LEMMA NotedFits ==
    ASSUME NEW w \in PaperWorkers, Transacts(w), NEW e \in batch[w].noted
    PROVE  Quiet(e) \/ (Loud(e) /\ Added(journal, e) = {e})
<1>1. CASE batch[w].lane
  BY <1>1 DEF Transacts
<1>2. CASE ~batch[w].lane
  BY <1>2 DEF Transacts
<1> QED BY <1>1, <1>2

LEMMA QuietDoesNotCount ==
    \A e : Quiet(e) => ~Counts(e)
BY DEF Quiet, QuietOf, Counts

\* A note that only records, whether or not the lane is taken.
LEMMA QuietKeeps ==
    ASSUME PaperInv, UNCHANGED tables, NEW w \in PaperWorkers, NEW r, NEW note,
           Quiet(note), Handled(w, r, <<>>, {note}, FALSE)
    PROVE  PaperInv'
<1> DEFINE A == UNION {Added(Noted(w), e) : e \in {note}}
<1>1. /\ Transacts(w) /\ A \subseteq {note}
      /\ UNCHANGED <<wording, arrived, paper, journal>>
  BY DEF PaperInv, Added, tables
<1>2. /\ DOMAIN batch'[w] = {"todo", "done", "wrote", "noted", "lane", "open"}
      /\ batch'[w].todo \subseteq 1..PaperRows
      /\ batch'[w].wrote = batch[w].wrote
      /\ batch'[w].noted = batch[w].noted \cup A
      /\ batch'[w].lane = batch[w].lane
      /\ batch' = [v \in PaperWorkers |-> batch'[v]]
      /\ \A v \in PaperWorkers \ {w} : batch'[v] = batch[v]
  <2>1. PICK none : none = <<>> /\ DOMAIN none = {}
    OBVIOUS
  <2>2. Handled(w, r, none, {note}, FALSE)
    BY <2>1
  <2>3. HandledBy(w, none, {note}, FALSE)
    BY <2>2, HandledRow
  <2>4. batch'[w].wrote = batch[w].wrote
    BY <1>1, <2>1, <2>3 DEF HandledBy, Transacts
  <2>5. (batch[w].lane \/ FALSE) = batch[w].lane
    BY <1>1 DEF Transacts
  <2> QED BY <1>1, <2>3, <2>4, <2>5 DEF HandledBy, Transacts
<1>3. IsFiniteSet(A) /\ IsFiniteSet(batch'[w].noted) /\ IsFiniteSet(Noted(w) \cup A)
  <2>1. IsFiniteSet(A)
    BY <1>1, FS_Singleton, FS_Subset
  <2>2. IsFiniteSet(batch[w].noted) /\ IsFiniteSet(Noted(w))
    BY <1>1, SeenStory DEF Transacts, Story
  <2>3. IsFiniteSet(batch[w].noted \cup A) /\ IsFiniteSet(Noted(w) \cup A)
    BY <2>1, <2>2, FS_Union
  <2> QED BY <1>2, <2>1, <2>3
<1>4. \A e : (Quiet(e)' <=> Quiet(e)) /\ (Loud(e)' <=> Loud(e))
  BY <1>1 DEF Quiet, Loud
<1>5. Story(Overlay(batch[w].wrote), Noted(w) \cup A)
  BY <1>1, <1>3, SeenStory, SameStory, QuietDoesNotCount
<1>6. Overlay(batch[w].wrote)' = Overlay(batch[w].wrote) /\ Noted(w)' = Noted(w) \cup A
  BY <1>1, <1>2 DEF Overlay, Noted
<1>7. \A e \in batch'[w].noted : e \in batch[w].noted \/ Quiet(e)
  BY <1>1, <1>2
<1>8. Transacts(w)'
  <2>1. Story(Overlay(batch[w].wrote)', Noted(w)')
    BY <1>5, <1>6
  <2>2. CASE batch[w].lane
    <3>1. \A e \in batch'[w].noted : Quiet(e) \/ (Loud(e) /\ Added(journal, e) = {e})
      BY <1>1, <1>7, <2>2 DEF Transacts
    <3> QED BY <1>1, <1>2, <1>3, <1>4, <2>1, <2>2, <3>1 DEF Transacts
  <2>3. CASE ~batch[w].lane
    <3>1. \A e \in batch'[w].noted : Quiet(e)
      BY <1>1, <1>7, <2>3 DEF Transacts
    <3> QED BY <1>1, <1>2, <1>3, <1>4, <2>3, <3>1 DEF Transacts
  <2> QED BY <2>2, <2>3
<1> QED BY <1>1, <1>2, <1>8, WorkerKeeps DEF PaperInv

\* A note written with the lane in hand, and the trade that it is about.
LEMMA LaneKeeps ==
    ASSUME PaperInv, UNCHANGED tables, NEW w \in PaperWorkers, MayEnter(w), NEW r, NEW written,
           NEW entries, Handled(w, r, written, entries, TRUE), IsFiniteSet(entries),
           \A m \in DOMAIN written : written[m] \in Trades,
           Story([m \in Messages |-> IF m \in DOMAIN written THEN written[m]
                                     ELSE Overlay(batch[w].wrote)[m]], Noted(w) \cup entries),
           \A e \in entries : Loud(e) /\ Added(journal, e) = {e} /\ Added(Noted(w), e) = {e}
    PROVE  PaperInv'
<1>1. /\ Transacts(w)
      /\ UNCHANGED <<wording, arrived, paper, journal>>
      /\ UNION {Added(Noted(w), e) : e \in entries} = entries
  BY DEF PaperInv, tables
<1>2. /\ DOMAIN batch'[w] = {"todo", "done", "wrote", "noted", "lane", "open"}
      /\ batch'[w].todo \subseteq 1..PaperRows
      /\ batch'[w].wrote = [m \in Messages |-> batch'[w].wrote[m]]
      /\ \A m \in Messages :
            /\ m \in DOMAIN written => batch'[w].wrote[m] = written[m]
            /\ m \notin DOMAIN written => batch'[w].wrote[m] = batch[w].wrote[m]
      /\ batch'[w].noted = batch[w].noted \cup entries
      /\ batch'[w].lane = TRUE
      /\ batch' = [v \in PaperWorkers |-> batch'[v]]
      /\ \A v \in PaperWorkers \ {w} : batch'[v] = batch[v]
  <2>1. HandledBy(w, written, entries, TRUE)
    BY HandledRow
  <2> QED BY <1>1, <2>1 DEF HandledBy, Transacts
<1>3. IsFiniteSet(batch'[w].noted)
  <2>1. IsFiniteSet(batch[w].noted)
    BY <1>1 DEF Transacts
  <2>2. IsFiniteSet(batch[w].noted \cup entries)
    BY <2>1, FS_Union
  <2> QED BY <1>2, <2>2
<1>4. \A e : (Quiet(e)' <=> Quiet(e)) /\ (Loud(e)' <=> Loud(e))
  BY <1>1 DEF Quiet, Loud
<1>5. batch'[w].wrote \in [Messages -> Trades \cup {NoTrade, Unwritten}]
  BY <1>1, <1>2 DEF Transacts
<1>6. /\ Noted(w)' = Noted(w) \cup entries
      /\ Overlay(batch[w].wrote)'
           = [m \in Messages |-> IF m \in DOMAIN written THEN written[m]
                                 ELSE Overlay(batch[w].wrote)[m]]
  <2>1. \A x \in Trades : x # Unwritten
    BY DEF Trades, Unwritten
  <2> QED BY <1>1, <1>2, <2>1 DEF Overlay, Noted
<1>7. \A e \in batch'[w].noted : Quiet(e) \/ (Loud(e) /\ Added(journal, e) = {e})
  <2>1. \A e \in batch[w].noted : Quiet(e) \/ (Loud(e) /\ Added(journal, e) = {e})
    BY <1>1, NotedFits
  <2> QED BY <1>2, <2>1
<1>8. Transacts(w)'
  <2>1. Story(Overlay(batch[w].wrote)', Noted(w)')
    BY <1>6
  <2> QED BY <1>1, <1>2, <1>3, <1>4, <1>5, <1>7, <2>1 DEF Transacts
<1> QED BY <1>1, <1>2, <1>8, WorkerKeeps DEF PaperInv, MayEnter

\* Entries for a message that has none, in the journal or the transaction.
LEMMA UnseenIsAdded ==
    ASSUME NEW w, NEW note, ~Seen(w, note.message)
    PROVE  /\ Added(Noted(w), note) = {note} /\ Added(journal, note) = {note}
           /\ note \notin Noted(w)
BY DEF Seen, Noted, Added

LEMMA NeutralKeeps ==
    ASSUME PaperInv, UNCHANGED tables, NEW w \in PaperWorkers, MayEnter(w), NEW r, NEW entries,
           Handled(w, r, <<>>, entries, TRUE), IsFiniteSet(entries),
           \A e \in entries : ~Seen(w, e.message) /\ Loud(e) /\ ~Counts(e)
    PROVE  PaperInv'
<1> DEFINE seen == Overlay(batch[w].wrote)
<1>1. PICK none : none = <<>> /\ DOMAIN none = {}
  OBVIOUS
<1>2. Handled(w, r, none, entries, TRUE)
  BY <1>1
<1>3. \A e \in entries : Loud(e) /\ Added(journal, e) = {e} /\ Added(Noted(w), e) = {e}
  BY UnseenIsAdded
<1>4. Story(seen, Noted(w) \cup entries)
  <2>1. Story(seen, Noted(w))
    BY SeenStory
  <2>2. IsFiniteSet(Noted(w) \cup entries)
    BY <2>1, FS_Union DEF Story
  <2> QED BY <2>1, <2>2, SameStory
<1>5. [m \in Messages |-> IF m \in DOMAIN none THEN none[m] ELSE seen[m]] = seen
  BY <1>1 DEF Overlay
<1>6. \A m \in DOMAIN none : none[m] \in Trades
  BY <1>1
<1>7. Story([m \in Messages |-> IF m \in DOMAIN none THEN none[m] ELSE seen[m]],
            Noted(w) \cup entries)
  BY <1>4, <1>5
<1> QED BY <1>2, <1>3, <1>6, <1>7, LaneKeeps

LEMMA TypesOfMessage ==
    ASSUME PaperInv, NEW r \in 1..PaperRows
    PROVE  MessageOf[r] \in Messages /\ wording[MessageOf[r]] \in Wordings
BY DEF PaperInv, Messages

\* A trade that is written, with the note that tells of it.
LEMMA WrittenKeeps ==
    ASSUME PaperInv, UNCHANGED tables, NEW w \in PaperWorkers, MayEnter(w), NEW r,
           NEW s \in Messages, NEW x \in Trades, NEW note, Loud(note), ~Seen(w, note.message),
           Handled(w, r, Only(s, x), {note}, TRUE),
           Story(Put(Overlay(batch[w].wrote), s, x), Noted(w) \cup {note})
    PROVE  PaperInv'
<1> DEFINE seen == Overlay(batch[w].wrote)
<1>1. DOMAIN (Only(s, x)) = {s} /\ (Only(s, x))[s] = x
  BY DEF Only
<1>2. PICK written : written = (Only(s, x))
  OBVIOUS
<1>3. Handled(w, r, written, {note}, TRUE)
  BY <1>2
<1>4. DOMAIN written = {s} /\ written[s] = x
  BY <1>1, <1>2
<1>5. Put(seen, s, x)
        = [n \in Messages |-> IF n \in DOMAIN written THEN written[n] ELSE seen[n]]
  BY <1>4 DEF Put
<1>6. /\ \A m \in DOMAIN written : written[m] \in Trades
      /\ IsFiniteSet({note})
      /\ \A e \in {note} : Loud(e) /\ Added(journal, e) = {e} /\ Added(Noted(w), e) = {e}
  BY <1>4, UnseenIsAdded, FS_Singleton
<1>7. Story([n \in Messages |-> IF n \in DOMAIN written THEN written[n] ELSE seen[n]],
            Noted(w) \cup {note})
  BY <1>5
<1> QED BY <1>3, <1>6, <1>7, LaneKeeps

LEMMA OpenKeeps ==
    ASSUME PaperInv, UNCHANGED tables, NEW w \in PaperWorkers, MayEnter(w), NEW r,
           NEW m \in Messages, ~Seen(w, m), NEW text \in Wordings,
           OpenTrades(Overlay(batch[w].wrote), text.symbol) = {},
           NEW price \in Nat, NEW x \in Opened(text, price),
           Handled(w, r, IF Overlay(batch[w].wrote)[m] = NoTrade THEN Only(m, x) ELSE <<>>,
                   {Entry(m, "OPEN", None, FALSE)}, TRUE)
    PROVE  PaperInv'
<1> DEFINE seen == Overlay(batch[w].wrote)
<1>0. Entry(m, "OPEN", None, FALSE).message = m /\ Loud(Entry(m, "OPEN", None, FALSE))
  BY DEF Entry, Loud, QuietOf
<1>1. PICK note : note = Entry(m, "OPEN", None, FALSE) /\ note.message = m /\ Loud(note)
  BY <1>0
<1>2. x \in Trades /\ x.state = "open" /\ Len(x.fills) = 1 /\ x.symbol = text.symbol
  BY OpenedTrade
<1>3. Story(seen, Noted(w))
  BY SeenStory
<1>4. seen[m] = NoTrade
  BY <1>3 DEF Story, Tells, Seen
<1>5. Handled(w, r, Only(m, x), {note}, TRUE)
  BY <1>1, <1>4
<1>6. Story(Put(seen, m, x), Noted(w) \cup {note})
  BY <1>1, <1>2, <1>3, <1>4, OpenedStory
<1> QED BY <1>1, <1>2, <1>5, <1>6, WrittenKeeps

LEMMA ChangeKeeps ==
    ASSUME PaperInv, UNCHANGED tables, NEW w \in PaperWorkers, MayEnter(w), NEW r,
           NEW m \in Messages, ~Seen(w, m), NEW text \in Wordings, NEW event, event # "OPEN",
           event \notin QuietOf(wording[m]),
           NEW s \in Messages, Overlay(batch[w].wrote)[s].state = "open",
           NEW price \in Nat, NEW x \in Changed(Overlay(batch[w].wrote)[s], event, text, price),
           NEW c \in BOOLEAN, c <=> x.state = "closed",
           Handled(w, r, Only(s, x), {Entry(m, event, s, c)}, TRUE)
    PROVE  PaperInv'
<1> DEFINE seen == Overlay(batch[w].wrote)
<1>0. Entry(m, event, s, c).message = m /\ Loud(Entry(m, event, s, c))
  BY DEF Entry, Loud
<1>1. PICK note : note = Entry(m, event, s, c) /\ note.message = m /\ Loud(note)
  BY <1>0
<1>2. Story(seen, Noted(w))
  BY SeenStory
<1>3. seen[s] \in Trades
  BY <1>2 DEF Story, NoTrade
<1>4. /\ x \in Trades /\ x.symbol = seen[s].symbol
      /\ Len(x.fills) = Len(seen[s].fills) + (IF event = "ADD" THEN 1 ELSE 0)
      /\ event = "ADD" => x.state = "open"
  BY <1>3, ChangedTrade
<1>5. Handled(w, r, Only(s, x), {note}, TRUE)
  BY <1>1
<1>6. Entry(m, event, s, c) \notin Noted(w)
  BY <1>1, UnseenIsAdded
<1>7. Story(Put(seen, s, x), Noted(w) \cup {Entry(m, event, s, c)})
  BY <1>2, <1>4, <1>6, ChangedStory
<1>8. Story(Put(seen, s, x), Noted(w) \cup {note})
  BY <1>1, <1>7
<1>9. ~Seen(w, note.message) /\ Loud(note)
  BY <1>1
<1> QED BY <1>4, <1>5, <1>8, <1>9, WrittenKeeps

LEMMA HandleQuietKeeps ==
    ASSUME PaperInv, NEW w \in PaperWorkers, NEW r \in 1..PaperRows, HandleQuiet(w, r)
    PROVE  PaperInv'
<1> DEFINE m == MessageOf[r]
<1>1. PICK what \in QuietOf(wording[m]) :
        Handled(w, r, <<>>, {Entry(m, what, None, FALSE)}, FALSE)
  BY DEF HandleQuiet, QuietOf
<1>2. Quiet(Entry(m, what, None, FALSE))
  BY DEF Quiet, Entry
<1> QED BY <1>1, <1>2, QuietKeeps DEF HandleQuiet

LEMMA HandleEventKeeps ==
    ASSUME PaperInv, NEW w \in PaperWorkers, NEW r \in 1..PaperRows, HandleEvent(w, r)
    PROVE  PaperInv'
<1> DEFINE m == MessageOf[r]
           text == wording[m]
           event == IF text.chart THEN "OPEN" ELSE Classify(text)
           seen == Overlay(batch[w].wrote)
<1>1. MayEnter(w) /\ UNCHANGED tables /\ m \in Messages /\ text \in Wordings
  BY TypesOfMessage DEF HandleEvent
<1>2. \A price \in PaperPrices \cup {None} : price \in Nat
  BY PaperAssumption DEF None
<1>3. ASSUME NEW what \in {"OPEN_IGNORED", "REFUSED", "UNMATCHED"}, NEW x, ~Seen(w, m),
             Handled(w, r, <<>>, {Entry(m, what, x, FALSE)}, TRUE)
      PROVE  PaperInv'
  <2>0. /\ Entry(m, what, x, FALSE).message = m /\ Entry(m, what, x, FALSE).event = what
        /\ Entry(m, what, x, FALSE).closes = FALSE
    BY DEF Entry
  <2>1. PICK e : /\ e = Entry(m, what, x, FALSE)
                 /\ e.message = m /\ e.event = what /\ e.closes = FALSE
    BY <2>0
  <2>2. Loud(e) /\ ~Counts(e) /\ ~Seen(w, e.message)
    BY <1>3, <2>1 DEF Loud, QuietOf, Counts
  <2>3. Handled(w, r, <<>>, {e}, TRUE)
    BY <1>3, <2>1
  <2>4. PICK entries : entries = {e} /\ IsFiniteSet(entries)
    BY FS_Singleton
  <2> QED BY <1>1, <2>2, <2>3, <2>4, NeutralKeeps
<1>4. CASE Seen(w, m) /\ Handled(w, r, <<>>, {}, TRUE)
  BY <1>1, <1>4, NeutralKeeps, FS_EmptySet
<1>5. CASE ~Seen(w, m) /\ \E x \in OpenTrades(seen, text.symbol) :
             Handled(w, r, <<>>, {Entry(m, "OPEN_IGNORED", x, FALSE)}, TRUE)
  BY <1>3, <1>5, Zenon
<1>6. CASE ~Seen(w, m) /\ Handled(w, r, <<>>, {Entry(m, "REFUSED", None, FALSE)}, TRUE)
  BY <1>3, <1>6, Zenon
<1>7. CASE ~Seen(w, m) /\ Handled(w, r, <<>>, {Entry(m, "UNMATCHED", None, FALSE)}, TRUE)
  BY <1>3, <1>7, Zenon
<1>8. CASE /\ ~Seen(w, m) /\ OpenTrades(seen, text.symbol) = {}
           /\ \E price \in PaperPrices \cup {None} : \E x \in Opened(text, price) :
                 Handled(w, r, IF seen[m] = NoTrade THEN Only(m, x) ELSE <<>>,
                         {Entry(m, "OPEN", None, FALSE)}, TRUE)
  BY <1>1, <1>2, <1>8, OpenKeeps
<1>9. CASE /\ ~Seen(w, m) /\ event # "OPEN"
           /\ \E s \in Subjects(seen, text), price \in PaperPrices \cup {None} :
              \E x \in Changed(seen[s], event, text, price) :
                 Handled(w, r, Only(s, x), {Entry(m, event, s, x.state = "closed")}, TRUE)
  <2>1. PICK s \in Subjects(seen, text), price \in PaperPrices \cup {None} :
        \E x \in Changed(seen[s], event, text, price) :
           Handled(w, r, Only(s, x), {Entry(m, event, s, x.state = "closed")}, TRUE)
    BY <1>9
  <2>2. PICK x \in Changed(seen[s], event, text, price) :
           Handled(w, r, Only(s, x), {Entry(m, event, s, x.state = "closed")}, TRUE)
    BY <2>1
  <2>3. s \in Messages /\ seen[s].state = "open"
    BY DEF Subjects, OpenTrades
  <2>4. PICK c \in BOOLEAN : c = (x.state = "closed")
    OBVIOUS
  <2>5. event \notin QuietOf(wording[m])
    BY <1>9 DEF HandleEvent, QuietOf
  <2>6. Handled(w, r, Only(s, x), {Entry(m, event, s, c)}, TRUE)
    BY <2>2, <2>4, Zenon
  <2> HIDE DEF event, m
  <2> QED BY <1>1, <1>2, <1>9, <2>3, <2>4, <2>5, <2>6, ChangeKeeps
<1> QED BY <1>4, <1>5, <1>6, <1>7, <1>8, <1>9, Zenon DEF HandleEvent

LEMMA CommitKeepsStory ==
    ASSUME PaperInv, NEW w \in PaperWorkers, CommitPaperBatch(w)
    PROVE  PaperInv'
<1> DEFINE b == batch[w]
           U == UNION {Added(journal, e) : e \in b.noted}
<1>1. /\ paper' = Overlay(b.wrote) /\ journal' = journal \cup U
      /\ batch' = [batch EXCEPT ![w] = NoBatch]
      /\ UNCHANGED <<wording, arrived>> /\ U \subseteq b.noted
  BY DEF CommitPaperBatch, Added
<1>2. Transacts(w) /\ Story(Overlay(b.wrote), Noted(w)) /\ Story(paper, journal)
  BY SeenStory DEF PaperInv
<1>3. \A e \in b.noted : e \in U \/ Quiet(e)
  <2>1. \A e \in b.noted : Quiet(e) \/ (Loud(e) /\ Added(journal, e) = {e})
    BY <1>2, NotedFits
  <2> QED BY <2>1
<1>4. IsFiniteSet(U) /\ IsFiniteSet(journal \cup U)
  BY <1>1, <1>2, FS_Subset, FS_Union DEF Transacts, Story
<1>5. Story(paper, journal)'
  <2>1. \A e \in Noted(w) \cup (journal \cup U) :
          (e \in Noted(w) /\ e \in journal \cup U) \/ ~Counts(e)
    BY <1>1, <1>3, QuietDoesNotCount DEF Noted
  <2>2. Story(Overlay(b.wrote), journal \cup U)
    BY <1>2, <1>4, <2>1, SameStory
  <2> QED BY <1>1, <2>2
<1>6. ASSUME NEW v \in PaperWorkers \ {w} PROVE Transacts(v)'
  <2>1. batch'[v] = batch[v] /\ Transacts(v)
    BY <1>1 DEF PaperInv
  <2>2. \A e : (Quiet(e)' <=> Quiet(e)) /\ (Loud(e)' <=> Loud(e))
    BY <1>1 DEF Quiet, Loud
  <2>3. CASE batch[v].lane
    <3>1. ~b.lane
      BY <1>6, <2>3 DEF PaperInv
    <3>2. paper' = paper /\ \A e \in U : Quiet(e)
      BY <1>1, <1>2, <3>1 DEF Transacts, NoBatch, Overlay, Story
    <3>3. Overlay(batch[v].wrote)' = Overlay(batch[v].wrote)
      BY <2>1, <3>2 DEF Overlay
    <3>4. Noted(v)' = Noted(v) \cup U
      BY <1>1, <2>1 DEF Noted
    <3>5. Story(Overlay(batch[v].wrote), Noted(v) \cup U)
      <4>1. Story(Overlay(batch[v].wrote), Noted(v))
        BY SeenStory
      <4>2. IsFiniteSet(Noted(v) \cup U)
        BY <1>4, <4>1, FS_Union DEF Story
      <4> QED BY <3>2, <4>1, <4>2, SameStory, QuietDoesNotCount
    <3>6. Story(Overlay(batch[v].wrote)', Noted(v)')
      BY <3>3, <3>4, <3>5
    <3>7. \A e \in batch[v].noted : Quiet(e) \/ (Loud(e) /\ Added(journal', e) = {e})
      <4> SUFFICES ASSUME NEW e \in batch[v].noted, ~Quiet(e)
                   PROVE  Loud(e) /\ Added(journal', e) = {e}
        OBVIOUS
      <4>1. Loud(e) /\ Added(journal, e) = {e}
        BY <2>1, <2>3 DEF Transacts
      <4>2. ~\E f \in journal : f.message = e.message /\ f.event = e.event
        BY <4>1 DEF Added
      <4>3. ~\E f \in U : f.message = e.message /\ f.event = e.event
        BY <3>2, <4>1 DEF Quiet, Loud
      <4> QED BY <1>1, <4>1, <4>2, <4>3 DEF Added
    <3> QED BY <2>1, <2>2, <2>3, <3>6, <3>7 DEF Transacts
  <2>4. CASE ~batch[v].lane
    BY <2>1, <2>2, <2>4 DEF Transacts
  <2> QED BY <2>3, <2>4
<1>7. Transacts(w)'
  <2>1. batch'[w] = NoBatch
    BY <1>1 DEF PaperInv
  <2> QED BY <2>1, FS_EmptySet DEF Transacts, NoBatch
<1>8. batch' = [v \in PaperWorkers |-> batch'[v]]
  BY <1>1 DEF PaperInv
<1>9. \A u, v \in PaperWorkers : batch'[u].lane /\ batch'[v].lane => u = v
  BY <1>1 DEF PaperInv, NoBatch
<1> QED BY <1>1, <1>5, <1>6, <1>7, <1>8, <1>9 DEF PaperInv

LEMMA PaperStart == PaperInit => PaperInv
<1> SUFFICES ASSUME PaperInit PROVE PaperInv
  OBVIOUS
<1>1. wording \in [Messages -> Wordings] /\ arrived \in 0..PaperRows
  BY PaperAssumption DEF PaperInit, ChannelSays, NothingHandled
<1>2. Story(paper, journal)
  BY FS_EmptySet DEF PaperInit, NothingHandled, Story, Tells, OpenOnce, NoTrade
<1>3. \A w \in PaperWorkers : Transacts(w) /\ ~batch[w].lane
  BY FS_EmptySet DEF PaperInit, NothingHandled, Transacts, NoBatch
<1>4. batch = [w \in PaperWorkers |-> batch[w]]
  BY DEF PaperInit, NothingHandled
<1> QED BY <1>1, <1>2, <1>3, <1>4 DEF PaperInv

LEMMA PaperSteps == PaperInv /\ [PaperNext]_paperVars => PaperInv'
<1> SUFFICES ASSUME PaperInv, [PaperNext]_paperVars PROVE PaperInv'
  OBVIOUS
<1>1. CASE UNCHANGED paperVars
  <2>1. UNCHANGED <<wording, arrived, paper, journal, batch>>
    BY <1>1 DEF paperVars
  <2>2. \A w \in PaperWorkers : Transacts(w)'
    BY <2>1 DEF PaperInv, Transacts, Overlay, Noted, Quiet, Loud
  <2> QED BY <2>1, <2>2 DEF PaperInv
<1>2. CASE Arrive
  <2>1. UNCHANGED <<wording, paper, journal, batch>> /\ arrived' \in 0..PaperRows
    BY <1>2, PaperAssumption DEF Arrive, PaperInv
  <2>2. \A w \in PaperWorkers : Transacts(w)'
    BY <2>1 DEF PaperInv, Transacts, Overlay, Noted, Quiet, Loud
  <2> QED BY <2>1, <2>2 DEF PaperInv
<1>3. ASSUME NEW w \in PaperWorkers, ClaimPaperBatch(w) PROVE PaperInv'
  <2> DEFINE free == Received \ RowsLocked
             todo == {r \in free : Cardinality({q \in free : q < r}) < BatchSize}
  <2>1. PICK b : /\ b = [NoBatch EXCEPT !.open = TRUE, !.todo = todo]
                 /\ batch' = [batch EXCEPT ![w] = b]
    BY <1>3 DEF ClaimPaperBatch
  <2>2. todo \subseteq 1..PaperRows
    BY PaperAssumption DEF Received, PaperInv
  <2>3. /\ DOMAIN b = {"todo", "done", "wrote", "noted", "lane", "open"}
        /\ b.todo = todo /\ b.wrote = NoBatch.wrote /\ b.noted = {} /\ b.lane = FALSE
    BY <2>1 DEF NoBatch
  <2> QED BY <1>3, <2>1, <2>2, <2>3, NewBatch DEF ClaimPaperBatch, tables
<1>4. ASSUME NEW w \in PaperWorkers, RollBack(w) PROVE PaperInv'
  <2>1. /\ DOMAIN NoBatch = {"todo", "done", "wrote", "noted", "lane", "open"}
        /\ NoBatch.todo = {} /\ NoBatch.noted = {} /\ NoBatch.lane = FALSE
    BY DEF NoBatch
  <2> QED BY <1>4, <2>1, NewBatch DEF RollBack
<1> QED BY <1>1, <1>2, <1>3, <1>4, HandleQuietKeeps, HandleEventKeeps, CommitKeepsStory
        DEF PaperNext

\* Through overlapping workers, batches that roll back and revisions of one message, the
\* transaction that has the lane sees a ledger that its own journal tells of, and the others
\* have written nothing that counts (handle_event, process_paper_batch).
THEOREM PaperInvariant == PaperSpec => []PaperInv
BY PaperStart, PaperSteps, PTL DEF PaperSpec

\* The paper ledger and its journal tell the same story, and a symbol is open once
\* (handle_event), for any messages, revisions, workers, batch size and rollbacks.
THEOREM LedgerMatchesJournal == PaperSpec => []PaperMatchesJournal
<1>1. PaperInv => PaperMatchesJournal
  BY DEF PaperInv, Story, PaperMatchesJournal
<1> QED BY <1>1, PaperInvariant, PTL

=============================================================================
