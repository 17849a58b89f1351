------------------------ MODULE EntryLifecycleProofs ------------------------
(***************************************************************************)
(* Proofs about what stands between a signal and its order at the venue.   *)
(*                                                                         *)
(* The margin ledger, for any set of order ids, dispatches and symbols,    *)
(* any margins, any balances and any position cap.                         *)
(*                                                                         *)
(* The entry lifecycle, for any set of dispatches, order ids and workers,  *)
(* any quantity and any number of crashes: every row and every local       *)
(* record keeps its type, every step on the ledger is a transaction of     *)
(* MarginLedger, and an entry is POSTed at most once.                      *)
(*                                                                         *)
(* Sizing, for any requests, contracts, balances and margins: a plan that  *)
(* is accepted keeps what the sizing promises of it.                       *)
(***************************************************************************)
EXTENDS EntryLifecycle, Sizing, FiniteSetTheorems, WellFoundedInduction, TLAPS

-----------------------------------------------------------------------------
(* The margin ledger.                                                      *)

(* The inductive invariant: the rows are well formed, no symbol has two    *)
(* active rows, and a reserved row has reported no fill.                   *)
LedgerInv == LedgerTypeOK /\ OneOwnerPerSymbol /\ ReservedHasNoFill

-----------------------------------------------------------------------------
(* The SQL CASE of resolve yields a state of the table, never "none".      *)
LEMMA ResolvedIsRow ==
    ASSUME NEW state \in RowStates \ {"none"}, NEW exposed \in BOOLEAN,
           NEW outcome \in Outcomes
    PROVE  Resolved(state, exposed, outcome) \in RowStates \ {"none"}
  BY DEF Resolved, ReportsFill, OutcomeState, RowStates, ActiveStates, Outcomes

(* resolve never turns a row that has reported a fill into a released one  *)
(* unless it was released before.                                          *)
LEMMA ResolvedKeepsExposure ==
    ASSUME NEW state \in ActiveStates, NEW outcome \in Outcomes
    PROVE  Resolved(state, TRUE, outcome) \in ActiveStates
  BY DEF Resolved, ReportsFill, OutcomeState, ActiveStates, Outcomes

(* resolve never yields a reserved row from another state.                 *)
LEMMA ResolvedNotReserved ==
    ASSUME NEW state \in RowStates \ {"none"}, NEW exposed \in BOOLEAN,
           NEW outcome \in Outcomes
    PROVE  Resolved(state, exposed, outcome) # "reserved"
  BY DEF Resolved, ReportsFill, OutcomeState, RowStates, ActiveStates, Outcomes

-----------------------------------------------------------------------------
(* The transactions of the ledger, one at a time.                          *)

(* An admission gives no symbol a second owner: the new row's symbol was   *)
(* free, and the swept rows were active before.                            *)
LEMMA ReservePreserves ==
    ASSUME LedgerInv, NEW o \in Oids, NEW d \in Dispatches,
           NEW provider \in SUBSET Symbols, NEW limit, NEW lapsed,
           Reserve(o, d, provider, limit, lapsed)
    PROVE  LedgerInv'
  <1>1. /\ resvState' = [p \in Oids |-> IF p = o THEN "reserved"
                                         ELSE IF p \in lapsed THEN "unknown"
                                         ELSE resvState[p]]
        /\ holder' = [holder EXCEPT ![o] = d]
        /\ hasExposure' = hasExposure /\ receipt' = receipt
        /\ resvState[o] = "none"
        /\ \A p \in lapsed : p \in Oids /\ resvState[p] = "reserved"
    BY DEF Reserve, RowFree, ReservedOids
  <1>2. \A p \in Oids : Active(p) => SymbolOf[p] # SymbolOf[o]
    BY DEF Reserve, SymbolFree, OwnedSymbols, ActiveOids
  <1>3. LedgerTypeOK'
    BY <1>1 DEF LedgerInv, LedgerTypeOK, RowStates, ActiveStates
  <1>4. \A p \in Oids : Active(p)' => p = o \/ Active(p)
    BY <1>1 DEF Active, ActiveStates
  <1>5. OneOwnerPerSymbol'
    BY <1>2, <1>4 DEF LedgerInv, OneOwnerPerSymbol
  <1>6. ReservedHasNoFill'
    BY <1>1 DEF LedgerInv, ReservedHasNoFill, LedgerTypeOK
  <1> QED BY <1>3, <1>5, <1>6 DEF LedgerInv

LEMMA ReserveRefusedPreserves ==
    ASSUME LedgerInv, NEW o \in Oids, NEW provider \in SUBSET Symbols, NEW limit,
           NEW lapsed, ReserveRefused(o, provider, limit, lapsed)
    PROVE  LedgerInv'
  <1>1. /\ resvState' = [p \in Oids |-> IF p \in lapsed THEN "unknown" ELSE resvState[p]]
        /\ holder' = holder /\ hasExposure' = hasExposure /\ receipt' = receipt
        /\ \A p \in lapsed : p \in Oids /\ resvState[p] = "reserved"
    BY DEF ReserveRefused, ExpireReserved, ReservedOids
  <1>2. LedgerTypeOK'
    BY <1>1 DEF LedgerInv, LedgerTypeOK, RowStates, ActiveStates
  <1>3. \A p \in Oids : Active(p)' => Active(p)
    BY <1>1 DEF Active, ActiveStates
  <1>4. OneOwnerPerSymbol'
    BY <1>3 DEF LedgerInv, OneOwnerPerSymbol
  <1>5. ReservedHasNoFill'
    BY <1>1 DEF LedgerInv, ReservedHasNoFill, LedgerTypeOK
  <1> QED BY <1>2, <1>4, <1>5 DEF LedgerInv

(* A late fill may bring a released row back; the unique index is what     *)
(* keeps its symbol from having two owners then.                           *)
LEMMA ResolvePreserves ==
    ASSUME LedgerInv, NEW o \in Oids, NEW outcome \in Outcomes, Resolve(o, outcome)
    PROVE  LedgerInv'
  <1>1. CASE outcome = "ACKNOWLEDGED"
    BY <1>1 DEF Resolve, ledgerVars, LedgerInv, LedgerTypeOK, OneOwnerPerSymbol,
                ReservedHasNoFill, Active
  <1>2. CASE outcome # "ACKNOWLEDGED"
    <2> DEFINE new == Resolved(resvState[o], hasExposure[o], outcome)
    <2>1. /\ resvState[o] # "none"
          /\ IndexAllows(o, new)
          /\ resvState' = [resvState EXCEPT ![o] = new]
          /\ hasExposure' = [hasExposure EXCEPT ![o] = @ \/ ReportsFill(outcome)]
          /\ receipt' = [receipt EXCEPT ![o] = FALSE]
          /\ holder' = holder
      BY <1>2 DEF Resolve, CanResolve
    <2>2. /\ resvState[o] \in RowStates \ {"none"}
          /\ hasExposure[o] \in BOOLEAN
      BY <2>1 DEF LedgerInv, LedgerTypeOK
    <2>3. new \in RowStates \ {"none"} /\ new # "reserved"
      BY <2>2, ResolvedIsRow, ResolvedNotReserved
    <2> HIDE DEF new
    <2>4. LedgerTypeOK'
      BY <2>1, <2>2, <2>3 DEF LedgerInv, LedgerTypeOK, ReportsFill
    <2>5. \A p \in Oids \ {o} : resvState'[p] = resvState[p] /\ hasExposure'[p] = hasExposure[p]
      BY <2>1 DEF LedgerInv, LedgerTypeOK
    <2>6. resvState'[o] = new
      BY <2>1 DEF LedgerInv, LedgerTypeOK
    <2>7. OneOwnerPerSymbol'
      BY <2>1, <2>5, <2>6 DEF LedgerInv, OneOwnerPerSymbol, Active, IndexAllows
    <2>8. ReservedHasNoFill'
      BY <2>3, <2>5, <2>6 DEF LedgerInv, ReservedHasNoFill
    <2> QED BY <2>4, <2>7, <2>8 DEF LedgerInv
  <1> QED BY <1>1, <1>2

LEMMA ReleasePreserves ==
    ASSUME LedgerInv, NEW o \in Oids, ReleaseVerifiedClose(o)
    PROVE  LedgerInv'
  <1>1. LedgerTypeOK'
    BY DEF LedgerInv, LedgerTypeOK, ReleaseVerifiedClose, RowStates
  <1>2. \A p \in Oids : Active(p)' => Active(p)
    BY DEF LedgerInv, LedgerTypeOK, ReleaseVerifiedClose, Active, ActiveStates
  <1>3. OneOwnerPerSymbol'
    BY <1>2 DEF LedgerInv, OneOwnerPerSymbol
  <1>4. ReservedHasNoFill'
    BY DEF LedgerInv, LedgerTypeOK, ReleaseVerifiedClose, ReservedHasNoFill
  <1> QED BY <1>1, <1>3, <1>4 DEF LedgerInv

LEMMA ExpirePreserves ==
    ASSUME LedgerInv, NEW ds \in SUBSET Dispatches, ExpireSources(ds)
    PROVE  LedgerInv'
  <1> DEFINE gone == {o \in ReservedOids : holder[o] \in ds}
  <1>1. /\ resvState' = [o \in Oids |-> IF o \in gone THEN "released" ELSE resvState[o]]
        /\ receipt' = [o \in Oids |-> o \notin gone /\ receipt[o]]
        /\ hasExposure' = hasExposure /\ holder' = holder
    BY DEF ExpireSources
  <1> HIDE DEF gone
  <1>2. LedgerTypeOK'
    BY <1>1 DEF LedgerInv, LedgerTypeOK, RowStates
  <1>3. \A p \in Oids : Active(p)' => Active(p)
    BY <1>1 DEF Active, ActiveStates
  <1>4. OneOwnerPerSymbol'
    BY <1>3 DEF LedgerInv, OneOwnerPerSymbol
  <1>5. ReservedHasNoFill'
    BY <1>1 DEF LedgerInv, ReservedHasNoFill
  <1> QED BY <1>2, <1>4, <1>5 DEF LedgerInv

LEMMA EscalatePreserves ==
    ASSUME LedgerInv, NEW o \in Oids, EscalateExpired(o)
    PROVE  LedgerInv'
  <1>1. LedgerTypeOK'
    BY DEF LedgerInv, LedgerTypeOK, EscalateExpired, RowStates, ActiveStates
  <1>2. \A p \in Oids : Active(p)' => Active(p)
    BY DEF LedgerInv, LedgerTypeOK, EscalateExpired, Active, ActiveStates
  <1>3. OneOwnerPerSymbol'
    BY <1>2 DEF LedgerInv, OneOwnerPerSymbol
  <1>4. ReservedHasNoFill'
    BY DEF LedgerInv, LedgerTypeOK, EscalateExpired, ReservedHasNoFill
  <1> QED BY <1>1, <1>3, <1>4 DEF LedgerInv

(* Every transaction keeps the inductive invariant.                        *)
LEMMA LedgerStep ==
    ASSUME LedgerInv, [LedgerNext]_ledgerVars
    PROVE  LedgerInv'
  <1>1. CASE UNCHANGED ledgerVars
    BY <1>1 DEF ledgerVars, LedgerInv, LedgerTypeOK, OneOwnerPerSymbol,
                ReservedHasNoFill, Active
  <1>2. CASE ReserveAny
    <2>1. PICK o \in Oids, d \in Dispatches, provider \in SUBSET Symbols, limit \in Balances :
              \E lapsed \in SUBSET ReservedOids :
                  \/ Reserve(o, d, provider, limit, lapsed)
                  \/ ReserveRefused(o, provider, limit, lapsed)
      BY <1>2 DEF ReserveAny
    <2> QED BY <2>1, ReservePreserves, ReserveRefusedPreserves
  <1>3. CASE ResolveAny
    BY <1>3, ResolvePreserves DEF ResolveAny
  <1>4. CASE ReleaseAny
    BY <1>4, ReleasePreserves DEF ReleaseAny
  <1>5. CASE ExpireAny
    BY <1>5, ExpirePreserves DEF ExpireAny
  <1>6. CASE EscalateAny
    BY <1>6, EscalatePreserves DEF EscalateAny
  <1> QED BY <1>1, <1>2, <1>3, <1>4, <1>5, <1>6 DEF LedgerNext

LEMMA LedgerInitHolds == LedgerInit => LedgerInv
  BY DEF LedgerInit, LedgerInv, LedgerTypeOK, OneOwnerPerSymbol, ReservedHasNoFill,
         Active, RowStates, ActiveStates, NoHolder

(* The ledger's rows stay well formed, no two active rows own one symbol,  *)
(* and no reserved row has reported a fill: for every set of orders and    *)
(* every interleaving of the transactions of balance_reservations.py.      *)
THEOREM LedgerInvariant == LedgerSpec => []LedgerInv
  <1>1. LedgerInv /\ [LedgerNext]_ledgerVars => LedgerInv'
    BY LedgerStep
  <1> QED BY <1>1, LedgerInitHolds, PTL DEF LedgerSpec

(* Type correctness of the reservation table.                              *)
THEOREM LedgerTypeCorrect == LedgerSpec => []LedgerTypeOK
  <1>1. LedgerInv => LedgerTypeOK
    BY DEF LedgerInv
  <1> QED BY <1>1, LedgerInvariant, PTL

(* reserve's owner check and the partial unique index forbid two active    *)
(* reservations on one symbol.                                             *)
THEOREM SymbolHasOneOwner == LedgerSpec => []OneOwnerPerSymbol
  <1>1. LedgerInv => OneOwnerPerSymbol
    BY DEF LedgerInv
  <1> QED BY <1>1, LedgerInvariant, PTL

-----------------------------------------------------------------------------
(* What a transaction may do to the row of an order with a reported fill.  *)
FreedOnlyByClose ==
    \A o \in Oids :
        hasExposure[o] /\ Active(o) /\ resvState'[o] \notin ActiveStates => receipt'[o]

LEMMA StepFreesByClose ==
    ASSUME LedgerInv, [LedgerNext]_ledgerVars
    PROVE  FreedOnlyByClose
  <1> SUFFICES ASSUME NEW p \in Oids, hasExposure[p], Active(p),
                      resvState'[p] \notin ActiveStates
               PROVE  receipt'[p]
    BY DEF FreedOnlyByClose
  <1>0. resvState[p] \in {"unknown", "consumed"} /\ hasExposure[p] = TRUE
    BY DEF LedgerInv, LedgerTypeOK, ReservedHasNoFill, Active, ActiveStates
  <1>1. CASE UNCHANGED ledgerVars
    BY <1>1 DEF ledgerVars, Active
  <1>2. CASE ReserveAny
    <2>1. PICK o \in Oids, d \in Dispatches, provider \in SUBSET Symbols, limit \in Balances,
               lapsed \in SUBSET ReservedOids :
                  \/ Reserve(o, d, provider, limit, lapsed)
                  \/ ReserveRefused(o, provider, limit, lapsed)
      BY <1>2 DEF ReserveAny
    <2>2. resvState'[p] \in {"reserved", "unknown", resvState[p]}
      BY <2>1 DEF Reserve, ReserveRefused, ExpireReserved
    <2> QED BY <2>2 DEF Active, ActiveStates
  <1>3. CASE ResolveAny
    <2>1. PICK o \in Oids, outcome \in Outcomes : Resolve(o, outcome)
      BY <1>3 DEF ResolveAny
    <2>2. CASE outcome = "ACKNOWLEDGED" \/ o # p
      <3>1. resvState'[p] = resvState[p]
        BY <2>1, <2>2 DEF Resolve, ledgerVars, LedgerInv, LedgerTypeOK
      <3> QED BY <3>1 DEF Active
    <2>3. CASE outcome # "ACKNOWLEDGED" /\ o = p
      <3>1. resvState'[p] = Resolved(resvState[p], TRUE, outcome)
        BY <1>0, <2>1, <2>3 DEF Resolve, LedgerInv, LedgerTypeOK
      <3>2. resvState'[p] \in ActiveStates
        BY <3>1, ResolvedKeepsExposure DEF Active
      <3> QED BY <3>2
    <2> QED BY <2>2, <2>3
  <1>4. CASE ReleaseAny
    <2>1. PICK o \in Oids : ReleaseVerifiedClose(o)
      BY <1>4 DEF ReleaseAny
    <2>2. CASE o = p
      BY <2>1, <2>2 DEF ReleaseVerifiedClose, LedgerInv, LedgerTypeOK
    <2>3. CASE o # p
      <3>1. resvState'[p] = resvState[p]
        BY <2>1, <2>3 DEF ReleaseVerifiedClose, LedgerInv, LedgerTypeOK
      <3> QED BY <3>1 DEF Active
    <2> QED BY <2>2, <2>3
  <1>5. CASE ExpireAny
    <2>1. p \notin ReservedOids
      BY <1>0 DEF ReservedOids
    <2>2. resvState'[p] = resvState[p]
      BY <1>5, <2>1 DEF ExpireAny, ExpireSources
    <2> QED BY <2>2 DEF Active
  <1>6. CASE EscalateAny
    <2>1. resvState'[p] \in {"unknown", resvState[p]}
      BY <1>6 DEF EscalateAny, EscalateExpired, LedgerInv, LedgerTypeOK
    <2> QED BY <2>1 DEF Active, ActiveStates
  <1> QED BY <1>1, <1>2, <1>3, <1>4, <1>5, <1>6 DEF LedgerNext

(* Margin behind a reported fill is freed by a verified close and by       *)
(* nothing else that writes the reservation table.                         *)
THEOREM FillsKeepMargin == LedgerSpec => ExposureNeedsVerifiedClose
  <1>1. LedgerInv /\ [LedgerNext]_ledgerVars => [FreedOnlyByClose]_ledgerVars
    BY StepFreesByClose
  <1> QED BY <1>1, LedgerInvariant, PTL
          DEF LedgerSpec, ExposureNeedsVerifiedClose, FreedOnlyByClose

-----------------------------------------------------------------------------
(* What a transaction leaves of the rows that exist.                       *)
KeepsRows ==
    \A o \in Oids : resvState[o] # "none" =>
        resvState'[o] # "none" /\ holder'[o] = holder[o]

LEMMA StepKeepsRows ==
    ASSUME LedgerInv, [LedgerNext]_ledgerVars
    PROVE  KeepsRows
  <1> SUFFICES ASSUME NEW p \in Oids, resvState[p] # "none"
               PROVE  resvState'[p] # "none" /\ holder'[p] = holder[p]
    BY DEF KeepsRows
  <1> USE DEF LedgerInv, LedgerTypeOK
  <1>1. CASE UNCHANGED ledgerVars
    BY <1>1 DEF ledgerVars
  <1>2. CASE ReserveAny
    <2>1. PICK o \in Oids, d \in Dispatches, provider \in SUBSET Symbols, limit \in Balances,
               lapsed \in SUBSET ReservedOids :
                  \/ Reserve(o, d, provider, limit, lapsed)
                  \/ ReserveRefused(o, provider, limit, lapsed)
      BY <1>2 DEF ReserveAny
    <2>2. CASE Reserve(o, d, provider, limit, lapsed)
      <3>1. o # p
        BY <2>2 DEF Reserve, RowFree
      <3> QED BY <2>2, <3>1 DEF Reserve
    <2>3. CASE ReserveRefused(o, provider, limit, lapsed)
      BY <2>3 DEF ReserveRefused, ExpireReserved
    <2> QED BY <2>1, <2>2, <2>3
  <1>3. CASE ResolveAny
    <2>1. PICK o \in Oids, outcome \in Outcomes : Resolve(o, outcome)
      BY <1>3 DEF ResolveAny
    <2>2. CASE outcome = "ACKNOWLEDGED"
      BY <2>1, <2>2 DEF Resolve, ledgerVars
    <2>3. CASE outcome # "ACKNOWLEDGED"
      <3>1. resvState'[p] \in {resvState[p], Resolved(resvState[p], hasExposure[p], outcome)}
        BY <2>1, <2>3 DEF Resolve
      <3>2. Resolved(resvState[p], hasExposure[p], outcome) \in RowStates \ {"none"}
        BY ResolvedIsRow
      <3>3. holder' = holder
        BY <2>1, <2>3 DEF Resolve
      <3> QED BY <3>1, <3>2, <3>3
    <2> QED BY <2>2, <2>3
  <1>4. CASE ReleaseAny
    BY <1>4 DEF ReleaseAny, ReleaseVerifiedClose
  <1>5. CASE ExpireAny
    BY <1>5 DEF ExpireAny, ExpireSources
  <1>6. CASE EscalateAny
    BY <1>6 DEF EscalateAny, EscalateExpired
  <1> QED BY <1>1, <1>2, <1>3, <1>4, <1>5, <1>6 DEF LedgerNext

(* One admission per client order id, for good: no transaction deletes a   *)
(* row or hands it to another dispatch.                                    *)
THEOREM RowsStay == LedgerSpec => RowsAreForever
  <1>1. LedgerInv /\ [LedgerNext]_ledgerVars => [KeepsRows]_ledgerVars
    BY StepKeepsRows
  <1> QED BY <1>1, LedgerInvariant, PTL DEF LedgerSpec, RowsAreForever, KeepsRows

-----------------------------------------------------------------------------
(* The entry lifecycle.                                                    *)

\* Where a worker has a dispatch in hand, where it may still send, and where recovery works on
\* a candidate.
SenderPcs    == {"veto", "setup", "armed"}
InHandPcs    == SenderPcs \cup
                {"gate", "positions", "reserve", "refused", "advance", "capped", "guard",
                 "vetoed", "recheck", "sent", "doubt", "store", "settle", "protect", "finish"}
CandidatePcs == {"recover-store", "recover-judge", "recover-closing",
                 "recover-closed", "recover-verdict", "recover-settle"}

\* What a worker's place in the code says of its own record.
Fits(r) ==
    /\ r.pc \in InHandPcs => r.d \in Dispatches
    /\ r.pc \in CandidatePcs => r.cand \in Dispatches
    /\ r.pc = "retire-release" => r.moot \in Oids

WorkersFit ==
    /\ worker \in [Workers -> WorkerRecords]
    /\ \A w \in Workers : Fits(worker[w])

\* A step gives nobody a licence to send: who may send after it could before.
NoNewLicence(w) ==
    worker'[w].pc \in SenderPcs => worker[w].pc \in SenderPcs /\ worker'[w].d = worker[w].d

\* What a step of worker w does to the workers.
OnlyWorker(w) ==
    /\ worker' \in [Workers -> WorkerRecords]
    /\ Fits(worker'[w])
    /\ \A v \in Workers \ {w} : worker'[v] = worker[v]

\* Every worker step but ClaimEntry and Post.
PlainWorker(w) == OnlyWorker(w) /\ NoNewLicence(w)

USE LedgerAssumption, EntryAssumption

\* A worker's record is replaced by one that fits.
LEMMA NewRecord ==
    ASSUME WorkersFit, NEW w \in Workers, NEW r \in WorkerRecords, Fits(r),
           worker' = [worker EXCEPT ![w] = r]
    PROVE  OnlyWorker(w) /\ worker'[w] = r
BY Zenon DEF WorkersFit, OnlyWorker

\* The readback of an order nobody has asked about.
LEMMA NoReadbackIsTyped == NoReadback \in Readbacks
<1>1. 0 \in 0..Qty
  BY DEF EntryAssumption
<1> QED BY <1>1, Zenon DEF NoReadback, Readbacks, Outcomes

\* The record of a process that has just started.
LEMMA RestFits == AtRest \in WorkerRecords /\ Fits(AtRest) /\ AtRest.pc = "idle"
<1>1. [d \in Dispatches |-> Unlisted] \in [Dispatches -> DispatchStates \cup {Unlisted}]
  BY Zenon
<1>2. {} \in SUBSET Symbols /\ {} \in SUBSET Issues /\ {} \in SUBSET Oids
  BY Zenon
<1>3. AtRest \in WorkerRecords
  <2>1. "idle" \in WorkerPcs /\ "none" \in DispatchReasons
    BY DEF WorkerPcs, DispatchReasons
  <2> QED BY <1>1, <1>2, <2>1, NoReadbackIsTyped, Zenon DEF AtRest, WorkerRecords
<1>4. AtRest.pc = "idle"
  BY Zenon DEF AtRest
<1> QED BY <1>3, <1>4 DEF Fits, InHandPcs, CandidatePcs, SenderPcs

\* An exception ends the step, and the process starts again with nothing in hand.
LEMMA RestartIsPlain ==
    ASSUME WorkersFit, NEW w \in Workers, Restart(w)
    PROVE  PlainWorker(w)
<1>1. worker' = [worker EXCEPT ![w] = AtRest]
  BY DEF Restart
<1>2. OnlyWorker(w) /\ worker'[w] = AtRest
  BY <1>1, RestFits, NewRecord
<1> QED BY <1>2, RestFits DEF PlainWorker, NoNewLicence, SenderPcs

\* A worker goes on to another place with what it has in hand.
LEMMA GoingIsPlain ==
    ASSUME WorkersFit, NEW w \in Workers, NEW pc \in WorkerPcs \ {"retire-release"},
           pc \in InHandPcs => worker[w].pc \in InHandPcs,
           pc \in CandidatePcs => worker[w].pc \in CandidatePcs,
           pc \in SenderPcs => worker[w].pc \in SenderPcs,
           worker' = [worker EXCEPT ![w].pc = pc]
    PROVE  PlainWorker(w)
<1> DEFINE r == [worker[w] EXCEPT !.pc = pc]
<1>1. worker[w] \in WorkerRecords /\ Fits(worker[w])
  BY DEF WorkersFit
<1>2. /\ r \in WorkerRecords /\ r.pc = pc /\ r.d = worker[w].d
      /\ r.cand = worker[w].cand
  BY <1>1, Zenon DEF WorkerRecords
<1>3. worker' = [worker EXCEPT ![w] = r]
  BY Zenon
<1> HIDE DEF r
<1>4. Fits(r)
  BY <1>1, <1>2 DEF Fits
<1> QED BY <1>2, <1>3, <1>4, NewRecord DEF PlainWorker, NoNewLicence

-----------------------------------------------------------------------------
\* The durable rows and the venue's side, in their ranges.
RowsFit ==
    /\ dispatch \in [Dispatches -> DispatchRows]
    /\ intent \in [Oids -> IntentRows]
    /\ cover \in [Oids -> {"none", "venue", "local"}]
    /\ venue \in [Oids -> VenueOrders]

\* Every dispatch has a client order id.
LEMMA OidIsTyped == ASSUME NEW d \in Dispatches PROVE OidOf[d] \in Oids
BY DEF EntryAssumption

\* The fields of the rows.
LEMMA RowFields ==
    ASSUME RowsFit, NEW o \in Oids, NEW d \in Dispatches
    PROVE  /\ dispatch[d].state \in DispatchStates /\ dispatch[d].reason \in DispatchReasons
           /\ intent[o].state \in IntentStates /\ intent[o].filled \in 0..Qty
           /\ intent[o].known \in BOOLEAN /\ intent[o].closed \in BOOLEAN
           /\ venue[o].filled \in 0..Qty
BY Zenon DEF RowsFit, DispatchRows, IntentRows, VenueOrders

\* The fields of a worker record.
LEMMA WorkerFields ==
    ASSUME WorkersFit, NEW w \in Workers
    PROVE  /\ worker[w] \in WorkerRecords /\ Fits(worker[w])
           /\ worker[w].res \in Readbacks /\ worker[w].issues \in SUBSET Issues
           /\ worker[w].res.status \in Outcomes /\ worker[w].res.qty \in 0..Qty
           /\ worker[w].res.known \in BOOLEAN
           /\ worker[w].seen \in SUBSET Symbols /\ worker[w].orphans \in SUBSET Oids
           /\ worker[w].reason \in DispatchReasons
           /\ worker[w].verified \in SUBSET Oids
           /\ worker[w].d \in Dispatches \cup {NoDispatch}
           /\ worker[w].listed \in [Dispatches -> DispatchStates \cup {Unlisted}]
BY Zenon DEF WorkersFit, WorkerRecords, Readbacks

\* reconcile_intent answers with an outcome and a quantity of the order.
LEMMA ReadbackIsTyped ==
    ASSUME RowsFit, NEW o \in Oids, NEW known \in BOOLEAN
    PROVE  Readback(o, known) \in Readbacks
<1>1. venue[o].filled \in 0..Qty /\ 0 \in 0..Qty
  <2>1. 0 \in 0..Qty
    BY DEF EntryAssumption
  <2> QED BY <2>1, Zenon DEF RowsFit, VenueOrders
<1>2. VenueStatus(o) \in Outcomes
  BY Zenon DEF VenueStatus, Outcomes
<1> QED BY <1>1, <1>2, Zenon DEF Readback, Readbacks, Outcomes

\* The list of a recovery.
LEMMA RecoveringFits ==
    ASSUME RowsFit, NEW d \in Dispatches \cup {NoDispatch}
    PROVE  Recovering(d) \in WorkerRecords /\ Fits(Recovering(d)) /\ Recovering(d).pc = "recover"
<1>1. Listing \in [Dispatches -> DispatchStates \cup {Unlisted}]
  <2>1. \A x \in Dispatches : dispatch[x].state \in DispatchStates
    BY Zenon DEF RowsFit, DispatchRows
  <2> QED BY <2>1, Zenon DEF Listing
<1>2. "recover" \in WorkerPcs
  BY DEF WorkerPcs
<1>3. Recovering(d) \in WorkerRecords /\ Recovering(d).pc = "recover"
  BY <1>1, <1>2, RestFits, Zenon DEF Recovering, WorkerRecords
<1> QED BY <1>3 DEF Fits, InHandPcs, CandidatePcs, SenderPcs

\* A worker's record is replaced by one that fits and sends nothing new.
LEMMA RecordIsPlain ==
    ASSUME WorkersFit, NEW w \in Workers, NEW r \in WorkerRecords, Fits(r), r.pc \notin SenderPcs,
           worker' = [worker EXCEPT ![w] = r]
    PROVE  PlainWorker(w)
BY NewRecord DEF PlainWorker, NoNewLicence

\* Recovery, one lemma per step: the worker's record afterwards.
LEMMA BeginRecoveryIsPlain ==
    ASSUME WorkersFit, RowsFit, NEW w \in Workers, BeginRecovery(w)
    PROVE  PlainWorker(w)
<1>1. worker' = [worker EXCEPT ![w] = Recovering(NoDispatch)]
  BY DEF BeginRecovery
<1> QED BY <1>1, RecoveringFits, RecordIsPlain DEF SenderPcs

\* A console worker inserts its dispatch and recovers first.
LEMMA OpenManualIsPlain ==
    ASSUME WorkersFit, RowsFit, NEW w \in Workers, NEW d \in Dispatches, OpenManual(w, d)
    PROVE  PlainWorker(w)
<1>1. worker' = [worker EXCEPT ![w] = Recovering(d)]
  BY DEF OpenManual
<1> QED BY <1>1, RecoveringFits, RecordIsPlain DEF SenderPcs

\* The candidate read is the one in hand afterwards.
LEMMA RecoverReadIsPlain ==
    ASSUME WorkersFit, RowsFit, NEW w \in Workers, NEW d \in Dispatches, RecoverRead(w, d)
    PROVE  PlainWorker(w)
<1> DEFINE res == Readback(OidOf[d], intent[OidOf[d]].known)
           r == [worker[w] EXCEPT !.pc = "recover-store", !.cand = d, !.res = res]
<1>1. Restart(w) \/ worker' = [worker EXCEPT ![w] = r]
  BY Zenon DEF RecoverRead
<1>2. res \in Readbacks
  BY OidIsTyped, RowFields, ReadbackIsTyped
<1>3. "recover-store" \in WorkerPcs
  BY DEF WorkerPcs
<1> HIDE DEF res
<1>4. r \in WorkerRecords /\ r.pc = "recover-store" /\ r.cand = d
  BY <1>2, <1>3, WorkerFields, ZenonT(60) DEF WorkerRecords
<1> HIDE DEF r
<1>5. Fits(r)
  BY <1>4 DEF Fits, InHandPcs, SenderPcs
<1> QED BY <1>1, <1>4, <1>5, RestartIsPlain, RecordIsPlain DEF SenderPcs

\* What was read is written, and the candidate is judged.
LEMMA RecoverStoreIsPlain ==
    ASSUME WorkersFit, NEW w \in Workers, RecoverStore(w)
    PROVE  PlainWorker(w)
<1> DEFINE res == worker[w].res
           pc == IF res.qty > 0 THEN "recover-judge" ELSE "recover-verdict"
           issues == IF res.qty > 0 \/ res.status = "REJECTED" THEN worker[w].issues
                     ELSE worker[w].issues \cup {"entry-pending"}
           r == [worker[w] EXCEPT !.pc = pc, !.reason = "none", !.issues = issues]
<1>1. Restart(w) \/ worker' = [worker EXCEPT ![w] = r]
  BY ZenonT(60) DEF RecoverStore, Abort
<1>2. issues \in SUBSET Issues
  BY WorkerFields DEF Issues
<1>3. /\ pc \in {"recover-judge", "recover-verdict"} /\ pc \in WorkerPcs
      /\ "none" \in DispatchReasons
  BY DEF WorkerPcs, DispatchReasons
<1> HIDE DEF pc, issues, res
<1>4. r \in WorkerRecords /\ r.pc = pc /\ r.cand = worker[w].cand
  BY <1>2, <1>3, WorkerFields, ZenonT(60) DEF WorkerRecords
<1> HIDE DEF r
<1>5. worker[w].cand \in Dispatches
  BY WorkerFields DEF RecoverStore, At, Fits, CandidatePcs
<1>6. Fits(r)
  BY <1>3, <1>4, <1>5 DEF Fits, InHandPcs, SenderPcs
<1> QED BY <1>1, <1>3, <1>4, <1>6, RestartIsPlain, RecordIsPlain DEF SenderPcs

\* The verdict on a filled candidate.
LEMMA RecoverJudgeIsPlain ==
    ASSUME WorkersFit, NEW w \in Workers, RecoverJudge(w)
    PROVE  PlainWorker(w)
<1>1. PICK bind, readable \in BOOLEAN : Judge(w, bind, readable)
  BY DEF RecoverJudge
<1> DEFINE o == OidOf[worker[w].cand]
           settled == (intent[o].closed \/ bind) /\ readable /\ FlatSymbol(SymbolOf[o])
           verdict == ProtectionVerdict(o, readable)
           covered == settled \/ verdict \in {"verified", "managed"}
           pc == IF settled THEN "recover-closing" ELSE "recover-verdict"
           reason == IF covered THEN "none" ELSE verdict
           verified == IF verdict = "verified" THEN worker[w].verified \cup {o}
                       ELSE worker[w].verified
           issues == IF covered THEN worker[w].issues ELSE worker[w].issues \cup {verdict}
           r == [worker[w] EXCEPT !.pc = pc, !.reason = reason, !.verified = verified,
                                  !.issues = issues]
<1>2. worker' = [worker EXCEPT ![w] = r]
  BY <1>1, Zenon DEF Judge
<1>3. worker[w].cand \in Dispatches
  BY WorkerFields DEF RecoverJudge, At, Fits, CandidatePcs
<1>4. o \in Oids
  BY <1>3, OidIsTyped
<1>5. verdict \in {"verified", "managed", "flat-unproven", "unprotected"}
  BY DEF ProtectionVerdict
<1> HIDE DEF verdict, settled, o
<1>6. pc \in {"recover-closing", "recover-verdict"} /\ pc \in WorkerPcs
  BY DEF WorkerPcs
<1>7. reason \in DispatchReasons
  BY <1>5 DEF DispatchReasons
<1>8. verified \in SUBSET Oids
  BY <1>4, WorkerFields
<1>9. issues \in SUBSET Issues
  BY <1>5, WorkerFields DEF Issues
<1> HIDE DEF covered, pc, reason, verified, issues
<1>10. r \in WorkerRecords /\ r.pc = pc /\ r.cand = worker[w].cand
  BY <1>6, <1>7, <1>8, <1>9, WorkerFields, ZenonT(60) DEF WorkerRecords
<1> HIDE DEF r
<1>11. Fits(r)
  BY <1>3, <1>6, <1>10 DEF Fits, InHandPcs, SenderPcs
<1> QED BY <1>2, <1>6, <1>10, <1>11, RecordIsPlain DEF SenderPcs

\* A settled candidate goes to CLOSING.
LEMMA RecoverClosingIsPlain ==
    ASSUME WorkersFit, NEW w \in Workers, RecoverClosing(w)
    PROVE  PlainWorker(w)
<1>1. Restart(w) \/ worker' = [worker EXCEPT ![w].pc = "recover-closed"]
  BY DEF RecoverClosing, Abort
<1>2. /\ "recover-closed" \in WorkerPcs \ {"retire-release"}
      /\ "recover-closed" \notin InHandPcs /\ "recover-closed" \notin SenderPcs
      /\ worker[w].pc \in CandidatePcs
  BY DEF RecoverClosing, At, WorkerPcs, InHandPcs, SenderPcs, CandidatePcs
<1> QED BY <1>1, <1>2, RestartIsPlain, GoingIsPlain, Zenon

\* And on to CLOSED, with the fill as its outcome.
LEMMA RecoverClosedIsPlain ==
    ASSUME WorkersFit, NEW w \in Workers, RecoverClosed(w)
    PROVE  PlainWorker(w)
<1> DEFINE res == [worker[w].res EXCEPT !.status = "FILLED"]
           r == [worker[w] EXCEPT !.pc = "recover-settle", !.res = res]
<1>1. Restart(w) \/ worker' = [worker EXCEPT ![w] = r]
  BY Zenon DEF RecoverClosed, Abort
<1>2. "recover-settle" \in WorkerPcs /\ "FILLED" \in Outcomes
  BY DEF WorkerPcs, Outcomes
<1>3. res \in Readbacks
  BY <1>2, WorkerFields, Zenon DEF Readbacks
<1> HIDE DEF res
<1>4. r \in WorkerRecords /\ r.pc = "recover-settle" /\ r.cand = worker[w].cand
  BY <1>2, <1>3, WorkerFields, ZenonT(60) DEF WorkerRecords
<1> HIDE DEF r
<1>5. worker[w].cand \in Dispatches
  BY WorkerFields DEF RecoverClosed, At, Fits, CandidatePcs
<1>6. Fits(r)
  BY <1>4, <1>5 DEF Fits, InHandPcs, SenderPcs
<1> QED BY <1>1, <1>4, <1>6, RestartIsPlain, RecordIsPlain DEF SenderPcs

\* The verdict is written to the dispatch, or what was listed has moved.
LEMMA RecoverVerdictIsPlain ==
    ASSUME WorkersFit, NEW w \in Workers, RecoverVerdict(w)
    PROVE  PlainWorker(w)
<1>1. Restart(w) \/ worker' = [worker EXCEPT ![w].pc = "recover-settle"]
  BY DEF RecoverVerdict, Abort
<1>2. /\ "recover-settle" \in WorkerPcs \ {"retire-release"}
      /\ "recover-settle" \notin InHandPcs /\ "recover-settle" \notin SenderPcs
      /\ worker[w].pc \in CandidatePcs
  BY DEF RecoverVerdict, At, WorkerPcs, InHandPcs, SenderPcs, CandidatePcs
<1> QED BY <1>1, <1>2, RestartIsPlain, GoingIsPlain, Zenon

\* The margin is resolved and the next candidate comes.
LEMMA RecoverSettleIsPlain ==
    ASSUME WorkersFit, NEW w \in Workers, RecoverSettle(w)
    PROVE  PlainWorker(w)
<1> DEFINE listed == [worker[w].listed EXCEPT ![worker[w].cand] = Unlisted]
           r == [worker[w] EXCEPT !.pc = "recover", !.cand = NoDispatch, !.listed = listed,
                                  !.res = NoReadback, !.reason = "none"]
<1>1. Restart(w) \/ worker' = [worker EXCEPT ![w] = r]
  BY ZenonT(60) DEF RecoverSettle, Abort
<1>2. "recover" \in WorkerPcs /\ "none" \in DispatchReasons
  BY DEF WorkerPcs, DispatchReasons
<1>3. listed \in [Dispatches -> DispatchStates \cup {Unlisted}]
  BY WorkerFields, Zenon
<1> HIDE DEF listed
<1>4. r \in WorkerRecords /\ r.pc = "recover"
  BY <1>2, <1>3, WorkerFields, NoReadbackIsTyped, ZenonT(60) DEF WorkerRecords
<1> HIDE DEF r
<1>5. Fits(r)
  BY <1>4 DEF Fits, InHandPcs, SenderPcs, CandidatePcs
<1> QED BY <1>1, <1>4, <1>5, RestartIsPlain, RecordIsPlain DEF SenderPcs

\* The margins without an entry intent are listed once.
LEMMA RetireListIsPlain ==
    ASSUME WorkersFit, NEW w \in Workers, RetireList(w)
    PROVE  PlainWorker(w)
<1> DEFINE orphans == {o \in ActiveOids : intent[o].state = "none"}
           r == [worker[w] EXCEPT !.pc = "retire", !.orphans = orphans]
<1>1. worker' = [worker EXCEPT ![w] = r]
  BY Zenon DEF RetireList
<1>2. orphans \in SUBSET Oids /\ "retire" \in WorkerPcs
  BY DEF ActiveOids, WorkerPcs
<1> HIDE DEF orphans
<1>3. r \in WorkerRecords /\ r.pc = "retire"
  BY <1>2, WorkerFields, ZenonT(60) DEF WorkerRecords
<1> HIDE DEF r
<1> QED BY <1>1, <1>3, RecordIsPlain DEF Fits, InHandPcs, SenderPcs, CandidatePcs

\* The orphan proven empty is the one in hand.
LEMMA RetireProveIsPlain ==
    ASSUME WorkersFit, NEW w \in Workers, NEW o \in Oids, RetireProve(w, o)
    PROVE  PlainWorker(w)
<1> DEFINE proved == EmptySymbol(SymbolOf[o])
           pc == IF proved THEN "retire-release" ELSE "retire"
           moot == IF proved THEN o ELSE NoOid
           r == [worker[w] EXCEPT !.pc = pc, !.orphans = worker[w].orphans \ {o}, !.moot = moot]
<1>1. worker' = [worker EXCEPT ![w] = r]
  BY Zenon DEF RetireProve, Asked
<1> HIDE DEF proved
<1>2. /\ pc \in {"retire", "retire-release"} /\ pc \in WorkerPcs
      /\ moot \in Oids \cup {NoOid} /\ (pc = "retire-release" => moot \in Oids)
      /\ worker[w].orphans \ {o} \in SUBSET Oids
  BY WorkerFields DEF WorkerPcs
<1> HIDE DEF pc, moot
<1>3. r \in WorkerRecords /\ r.pc = pc /\ r.moot = moot
  BY <1>2, WorkerFields, ZenonT(60) DEF WorkerRecords
<1> HIDE DEF r
<1> QED BY <1>1, <1>2, <1>3, RecordIsPlain DEF Fits, InHandPcs, SenderPcs, CandidatePcs

\* Its margin goes, and it is off the list.
LEMMA RetireReleaseIsPlain ==
    ASSUME WorkersFit, NEW w \in Workers, RetireRelease(w)
    PROVE  PlainWorker(w)
<1> DEFINE r == [worker[w] EXCEPT !.pc = "retire", !.moot = NoOid]
<1>1. worker' = [worker EXCEPT ![w] = r]
  BY Zenon DEF RetireRelease
<1>2. "retire" \in WorkerPcs
  BY DEF WorkerPcs
<1>3. r \in WorkerRecords /\ r.pc = "retire"
  BY <1>2, WorkerFields, ZenonT(60) DEF WorkerRecords
<1> HIDE DEF r
<1> QED BY <1>1, <1>3, RecordIsPlain DEF Fits, InHandPcs, SenderPcs, CandidatePcs

\* Recovery ends: with what it had in hand, with a claim, or with nothing.
LEMMA FinishRecoveryIsPlain ==
    ASSUME WorkersFit, NEW w \in Workers, FinishRecovery(w)
    PROVE  PlainWorker(w)
<1> DEFINE issues == worker[w].issues \cup InventoryIssues(w)
           pc == AfterRecovery(w, issues)
           ready == (issues = {})
           r == [AtRest EXCEPT !.pc = pc, !.d = worker[w].d, !.ready = ready]
<1>1. \/ worker' = [worker EXCEPT ![w] = AtRest]
      \/ worker' = [worker EXCEPT ![w] = r] /\ pc # "idle"
  BY Zenon DEF FinishRecovery
<1>2. ready \in BOOLEAN
  BY Zenon
<1>3. pc \in {"idle", "gate", "claim"} /\ (pc = "gate" => worker[w].d \in Dispatches)
  BY WorkerFields DEF AfterRecovery
<1>4. pc \in WorkerPcs
  BY <1>3 DEF WorkerPcs
<1> HIDE DEF pc, ready
<1>5. r \in WorkerRecords /\ r.pc = pc /\ r.d = worker[w].d
  BY <1>2, <1>4, RestFits, WorkerFields, Zenon DEF WorkerRecords
<1> HIDE DEF r
<1>6. Fits(r)
  BY <1>3, <1>5 DEF Fits, InHandPcs, SenderPcs, CandidatePcs
<1> QED BY <1>1, <1>3, <1>5, <1>6, RestartIsPlain, RecordIsPlain DEF Restart, SenderPcs

-----------------------------------------------------------------------------
\* A status and a reason for run_once to record.
LEMMA FinishingFits ==
    ASSUME WorkersFit, NEW w \in Workers, worker[w].pc \in InHandPcs,
           NEW status \in Outcomes, NEW reason \in DispatchReasons
    PROVE  /\ Finishing(w, status, reason) \in WorkerRecords
           /\ Fits(Finishing(w, status, reason))
           /\ Finishing(w, status, reason).pc \notin SenderPcs
<1> DEFINE res == [NoReadback EXCEPT !.status = status]
<1>1. res \in Readbacks
  BY NoReadbackIsTyped, Zenon DEF Readbacks
<1>2. "finish" \in WorkerPcs
  BY DEF WorkerPcs
<1> HIDE DEF res
<1>3. [worker[w] EXCEPT !.pc = "finish", !.res = res, !.reason = reason] \in WorkerRecords
  BY <1>1, <1>2, WorkerFields, ZenonT(60) DEF WorkerRecords
<1>4. /\ [worker[w] EXCEPT !.pc = "finish", !.res = res, !.reason = reason].pc = "finish"
      /\ [worker[w] EXCEPT !.pc = "finish", !.res = res, !.reason = reason].d = worker[w].d
  BY WorkerFields, Zenon DEF WorkerRecords
<1>5. Finishing(w, status, reason)
        = [worker[w] EXCEPT !.pc = "finish", !.res = res, !.reason = reason]
  BY Zenon DEF Finishing, res
<1>6. Finishing(w, status, reason).pc = "finish" /\ Finishing(w, status, reason).d \in Dispatches
  BY <1>4, <1>5, WorkerFields, Zenon DEF Fits
<1> QED BY <1>3, <1>5, <1>6 DEF Fits, CandidatePcs, SenderPcs

\* The dispatch keeps its hands on what it has and only its result changes.
LEMMA FinishingIsPlain ==
    ASSUME WorkersFit, NEW w \in Workers, worker[w].pc \in InHandPcs,
           NEW status \in Outcomes, NEW reason \in DispatchReasons,
           worker' = [worker EXCEPT ![w] = Finishing(w, status, reason)]
    PROVE  PlainWorker(w)
BY FinishingFits, RecordIsPlain

\* A worker goes on within what it has in hand.
LEMMA InHandIsPlain ==
    ASSUME WorkersFit, NEW w \in Workers, worker[w].pc \in InHandPcs,
           NEW pc \in InHandPcs, pc \in SenderPcs => worker[w].pc \in SenderPcs,
           worker' = [worker EXCEPT ![w].pc = pc]
    PROVE  PlainWorker(w)
<1>1. pc \in WorkerPcs \ {"retire-release"} /\ pc \notin CandidatePcs
  BY DEF InHandPcs, WorkerPcs, CandidatePcs, SenderPcs
<1> QED BY <1>1, GoingIsPlain, Zenon

\* A transition that ends the dispatch's work.
LEMMA StepToRestIsPlain ==
    ASSUME WorkersFit, NEW w \in Workers, NEW from, NEW to, NEW reason,
           Step(w, from, to, reason, AtRest)
    PROVE  PlainWorker(w)
<1>1. Restart(w)
  BY Zenon DEF Step, Restart
<1> QED BY <1>1, RestartIsPlain

\* A transition after which the work goes on.
LEMMA StepOnIsPlain ==
    ASSUME WorkersFit, NEW w \in Workers, NEW from, NEW to, NEW reason,
           worker[w].pc \in InHandPcs, NEW pc \in InHandPcs \ SenderPcs,
           Step(w, from, to, reason, Going(w, pc))
    PROVE  PlainWorker(w)
<1>1. Restart(w) \/ worker' = [worker EXCEPT ![w].pc = pc]
  BY Zenon DEF Step, Going
<1> QED BY <1>1, RestartIsPlain, InHandIsPlain, Zenon

\* The dispatch claimed is the one in hand.
LEMMA ClaimIsPlain ==
    ASSUME WorkersFit, NEW w \in Workers, NEW d \in Dispatches, Claim(w, d)
    PROVE  PlainWorker(w)
<1> DEFINE r == [worker[w] EXCEPT !.pc = "gate", !.d = d]
<1>1. worker' = [worker EXCEPT ![w] = r]
  BY Zenon DEF Claim
<1>2. "gate" \in WorkerPcs
  BY DEF WorkerPcs
<1>3. r \in WorkerRecords /\ r.pc = "gate" /\ r.d = d
  BY <1>2, WorkerFields, ZenonT(60) DEF WorkerRecords
<1> HIDE DEF r
<1> QED BY <1>1, <1>3, RecordIsPlain DEF Fits, SenderPcs, CandidatePcs

\* What the preflight reads is a set of symbols.
LEMMA PreflightReadIsPlain ==
    ASSUME WorkersFit, NEW w \in Workers, PreflightRead(w)
    PROVE  PlainWorker(w)
<1> DEFINE r == [worker[w] EXCEPT !.pc = "reserve", !.seen = OpenSymbols]
<1>1. worker' = [worker EXCEPT ![w] = r] /\ worker[w].pc \in InHandPcs
  BY Zenon DEF PreflightRead, At, InHandPcs
<1>2. "reserve" \in WorkerPcs
  BY DEF WorkerPcs
<1>3. OpenSymbols \in SUBSET Symbols
  BY DEF OpenSymbols, LedgerAssumption
<1>4. r \in WorkerRecords /\ r.pc = "reserve" /\ r.d = worker[w].d
  BY <1>2, <1>3, WorkerFields, ZenonT(60) DEF WorkerRecords
<1>5. worker[w].d \in Dispatches
  BY <1>1, WorkerFields DEF Fits
<1> HIDE DEF r
<1> QED BY <1>1, <1>4, <1>5, RecordIsPlain DEF Fits, SenderPcs, CandidatePcs

\* The admission is granted in the hands of the claimer.
LEMMA AdmitIsPlain ==
    ASSUME WorkersFit, NEW w \in Workers, Admit(w) \/ AdmitRefused(w)
    PROVE  PlainWorker(w)
<1>1. PICK pc \in {"advance", "refused"} :
        worker' = [worker EXCEPT ![w].pc = pc, ![w].seen = {}]
  BY DEF Admit, AdmitRefused
<1> DEFINE r == [worker[w] EXCEPT !.pc = pc, !.seen = {}]
<1>2. worker' = [worker EXCEPT ![w] = r]
  BY <1>1, Zenon
<1>3. worker[w].d \in Dispatches
  BY WorkerFields DEF Admit, AdmitRefused, At, Fits, InHandPcs
<1>4. pc \in WorkerPcs
  BY DEF WorkerPcs
<1>5. r \in WorkerRecords /\ r.pc = pc /\ r.d = worker[w].d
  BY <1>4, RestFits, WorkerFields, ZenonT(60) DEF WorkerRecords, AtRest
<1> HIDE DEF r
<1> QED BY <1>2, <1>3, <1>5, RecordIsPlain DEF Fits, SenderPcs, CandidatePcs

\* The states between the admission and the submission.
LEMMA AdvanceIsPlain ==
    ASSUME WorkersFit, NEW w \in Workers, Advance(w)
    PROVE  PlainWorker(w)
<1> DEFINE from == dispatch[worker[w].d].state
           pc == IF from = "VALIDATED" THEN "guard" ELSE "advance"
<1>1. Step(w, from, NextState[from], "none", Going(w, pc)) /\ worker[w].pc \in InHandPcs
  BY Zenon DEF Advance, At, InHandPcs
<1>2. pc \in InHandPcs \ SenderPcs
  BY DEF InHandPcs, SenderPcs
<1> HIDE DEF pc
<1> QED BY <1>1, <1>2, StepOnIsPlain

\* The other steps from the claim to the dispatch's SUBMITTING commit.
LEMMA AdmissionIsPlain ==
    ASSUME WorkersFit, NEW w \in Workers, Admission(w)
    PROVE  PlainWorker(w)
<1>1. CASE ClaimNothing(w) \/ AdmitStale(w)
  BY <1>1, RestartIsPlain DEF ClaimNothing, AdmitStale
<1>2. CASE Gate(w)
  BY <1>2, StepOnIsPlain DEF Gate, At, InHandPcs, SenderPcs
<1>3. CASE GateReject(w) \/ PreflightReject(w) \/ RejectValidated(w)
  BY <1>3, StepToRestIsPlain DEF GateReject, PreflightReject, RejectValidated
<1>4. CASE ReleaseAdmission(w)
  <2>1. worker' = [worker EXCEPT ![w].pc = "capped"]
    BY <1>4, Zenon DEF ReleaseAdmission
  <2>2. worker[w].pc \in InHandPcs /\ "capped" \in InHandPcs /\ "capped" \notin SenderPcs
    BY <1>4 DEF ReleaseAdmission, At, InHandPcs, SenderPcs
  <2> QED BY <2>1, <2>2, InHandIsPlain, Zenon
<1> QED BY <1>1, <1>2, <1>3, <1>4, ClaimIsPlain, PreflightReadIsPlain, AdmitIsPlain,
           AdvanceIsPlain DEF Admission

\* What is read back after the POST is in its range.
LEMMA RespondIsPlain ==
    ASSUME WorkersFit, RowsFit, NEW w \in Workers, Respond(w)
    PROVE  PlainWorker(w)
<1> DEFINE res == Readback(Oid(w), FALSE)
           r == [worker[w] EXCEPT !.pc = "store", !.res = res]
<1>1. worker' = [worker EXCEPT ![w] = r] /\ worker[w].pc \in InHandPcs
  BY Zenon DEF Respond, At, InHandPcs
<1>2. worker[w].d \in Dispatches
  BY <1>1, WorkerFields DEF Fits
<1>3. res \in Readbacks /\ "store" \in WorkerPcs
  BY <1>2, OidIsTyped, ReadbackIsTyped DEF Oid, WorkerPcs
<1> HIDE DEF res
<1>4. r \in WorkerRecords /\ r.pc = "store" /\ r.d = worker[w].d
  BY <1>3, WorkerFields, ZenonT(60) DEF WorkerRecords
<1> HIDE DEF r
<1> QED BY <1>1, <1>2, <1>4, RecordIsPlain DEF Fits, SenderPcs, CandidatePcs

\* Who loses the claim reads the order back; who wins it may send, for the dispatch in hand.
LEMMA ClaimEntryWorker ==
    ASSUME WorkersFit, RowsFit, NEW w \in Workers, ClaimEntry(w)
    PROVE  /\ OnlyWorker(w)
           /\ \/ intent[Oid(w)].state # "none" /\ NoNewLicence(w)
              \/ intent[Oid(w)].state = "none" /\ worker'[w].d = worker[w].d
<1>1. worker[w].pc \in InHandPcs /\ worker[w].d \in Dispatches
  BY WorkerFields DEF ClaimEntry, At, Fits, InHandPcs
<1>2. CASE intent[Oid(w)].state # "none"
  <2> DEFINE res == Readback(Oid(w), intent[Oid(w)].known)
             r == [worker[w] EXCEPT !.pc = "store", !.mine = FALSE, !.res = res]
  <2>1. worker' = [worker EXCEPT ![w] = r]
    BY <1>2, Zenon DEF ClaimEntry
  <2>2. res \in Readbacks /\ "store" \in WorkerPcs
    BY <1>1, OidIsTyped, RowFields, ReadbackIsTyped DEF Oid, WorkerPcs
  <2> HIDE DEF res
  <2>3. r \in WorkerRecords /\ r.pc = "store" /\ r.d = worker[w].d
    BY <2>2, WorkerFields, ZenonT(60) DEF WorkerRecords
  <2> HIDE DEF r
  <2>4. PlainWorker(w)
    BY <1>1, <2>1, <2>3, RecordIsPlain DEF Fits, SenderPcs, CandidatePcs
  <2> QED BY <1>2, <2>4 DEF PlainWorker
<1>3. CASE intent[Oid(w)].state = "none"
  <2> DEFINE r == [worker[w] EXCEPT !.pc = "veto", !.mine = TRUE]
  <2>1. worker' = [worker EXCEPT ![w] = r]
    BY <1>3, Zenon DEF ClaimEntry
  <2>2. "veto" \in WorkerPcs
    BY DEF WorkerPcs
  <2>3. r \in WorkerRecords /\ r.pc = "veto" /\ r.d = worker[w].d
    BY <2>2, WorkerFields, ZenonT(60) DEF WorkerRecords
  <2> HIDE DEF r
  <2>4. OnlyWorker(w) /\ worker'[w] = r
    BY <1>1, <2>1, <2>3, NewRecord DEF Fits, CandidatePcs
  <2> QED BY <1>3, <2>3, <2>4
<1> QED BY <1>2, <1>3

\* The last veto lets the order through.
LEMMA VetoPassIsPlain ==
    ASSUME WorkersFit, NEW w \in Workers, VetoPass(w)
    PROVE  PlainWorker(w)
<1> DEFINE pc == IF worker[w].pc = "veto" THEN "setup" ELSE "armed"
<1>1. worker' = [worker EXCEPT ![w].pc = pc]
  BY Zenon DEF VetoPass
<1>2. worker[w].pc \in SenderPcs /\ worker[w].pc \in InHandPcs /\ pc \in InHandPcs
  BY DEF VetoPass, Vetoing, At, SenderPcs, InHandPcs
<1> HIDE DEF pc
<1> QED BY <1>1, <1>2, InHandIsPlain, Zenon

\* The POST spends the licence of the worker that sends it.
LEMMA PostWorker ==
    ASSUME WorkersFit, NEW w \in Workers, Post(w)
    PROVE  PlainWorker(w) /\ worker'[w].pc \notin SenderPcs
<1>1. worker' = [worker EXCEPT ![w].pc = "sent"]
  BY Zenon DEF Post
<1>2. worker[w].pc \in InHandPcs /\ "sent" \in InHandPcs /\ "sent" \notin SenderPcs
  BY DEF Post, At, InHandPcs, SenderPcs
<1>3. PlainWorker(w)
  BY <1>1, <1>2, InHandIsPlain, Zenon
<1>4. worker'[w].pc = "sent"
  BY <1>1, WorkerFields, Zenon DEF WorkersFit, WorkerRecords
<1> QED BY <1>2, <1>3, <1>4

\* A doubt takes no licence.
LEMMA AmbiguousIsPlain ==
    ASSUME WorkersFit, NEW w \in Workers, Ambiguous(w)
    PROVE  PlainWorker(w)
<1>1. \/ worker' = [worker EXCEPT ![w].pc = "doubt"]
      \/ worker' = [worker EXCEPT ![w] = Finishing(w, "UNKNOWN", "none")]
  BY Zenon DEF Ambiguous
<1>2. worker[w].pc \in InHandPcs /\ "doubt" \in InHandPcs /\ "doubt" \notin SenderPcs
  BY DEF Ambiguous, At, InHandPcs, SenderPcs
<1>3. "UNKNOWN" \in Outcomes /\ "none" \in DispatchReasons
  BY DEF Outcomes, DispatchReasons
<1> QED BY <1>1, <1>2, <1>3, InHandIsPlain, FinishingIsPlain, Zenon

\* The readback is written.
LEMMA StoreEntryIsPlain ==
    ASSUME WorkersFit, NEW w \in Workers, StoreEntry(w)
    PROVE  PlainWorker(w)
<1>1. \/ worker' = [worker EXCEPT ![w].pc = "settle"]
      \/ worker' = [worker EXCEPT ![w] = Finishing(w, "UNKNOWN", "none")]
  BY Zenon DEF StoreEntry
<1>2. worker[w].pc \in InHandPcs /\ "settle" \in InHandPcs /\ "settle" \notin SenderPcs
  BY DEF StoreEntry, At, InHandPcs, SenderPcs
<1>3. "UNKNOWN" \in Outcomes /\ "none" \in DispatchReasons
  BY DEF Outcomes, DispatchReasons
<1> QED BY <1>1, <1>2, <1>3, InHandIsPlain, FinishingIsPlain, Zenon

\* The margin is settled.
LEMMA SettleEntryIsPlain ==
    ASSUME WorkersFit, NEW w \in Workers, SettleEntry(w)
    PROVE  PlainWorker(w)
<1>1. \/ worker' = [worker EXCEPT ![w].pc = "protect"]
      \/ worker' = [worker EXCEPT ![w] = Finishing(w, "UNKNOWN", "none")]
      \/ worker' = [worker EXCEPT ![w] = Finishing(w, worker[w].res.status, "none")]
  BY Zenon DEF SettleEntry, Going
<1>2. worker[w].pc \in InHandPcs /\ "protect" \in InHandPcs /\ "protect" \notin SenderPcs
  BY DEF SettleEntry, At, InHandPcs, SenderPcs
<1>3. "UNKNOWN" \in Outcomes /\ "none" \in DispatchReasons /\ worker[w].res.status \in Outcomes
  BY WorkerFields DEF Outcomes, DispatchReasons
<1> QED BY <1>1, <1>2, <1>3, InHandIsPlain, FinishingIsPlain, Zenon

\* The position is protected.
LEMMA ProtectIsPlain ==
    ASSUME WorkersFit, NEW w \in Workers, Protect(w)
    PROVE  PlainWorker(w)
<1>1. PICK reason \in {"none", "unprotected"} :
        worker' = [worker EXCEPT ![w] = Finishing(w, worker[w].res.status, reason)]
  BY Zenon DEF Protect
<1>2. worker[w].pc \in InHandPcs
  BY DEF Protect, At, InHandPcs
<1>3. reason \in DispatchReasons /\ worker[w].res.status \in Outcomes
  BY WorkerFields DEF DispatchReasons
<1> QED BY <1>1, <1>2, <1>3, FinishingIsPlain

\* Every step of the submission but the two that are about the licence to send.
LEMMA SubmissionIsPlain ==
    ASSUME WorkersFit, RowsFit, NEW w \in Workers, Submission(w), ~ ClaimEntry(w)
    PROVE  PlainWorker(w)
<1>1. CASE GuardReject(w) \/ VetoRelease(w)
  <2>1. worker' = [worker EXCEPT ![w] = Finishing(w, "REJECTED", "none")]
    BY <1>1, Zenon DEF GuardReject, VetoRelease
  <2>2. worker[w].pc \in InHandPcs /\ "REJECTED" \in Outcomes /\ "none" \in DispatchReasons
    BY <1>1 DEF GuardReject, VetoRelease, At, InHandPcs, Outcomes, DispatchReasons
  <2> QED BY <2>1, <2>2, FinishingIsPlain
<1>2. CASE GuardExpire(w) \/ Recheck(w)
  BY <1>2, RestartIsPlain DEF GuardExpire, Recheck
<1>3. CASE VetoReject(w) \/ VetoExpire(w)
  <2>1. PICK pc \in {"vetoed", "recheck"} : worker' = [worker EXCEPT ![w].pc = pc]
    BY <1>3, Zenon DEF VetoReject, VetoExpire, RejectClaim
  <2>2. worker[w].pc \in InHandPcs /\ pc \in InHandPcs /\ pc \notin SenderPcs
    BY <1>3 DEF VetoReject, VetoExpire, Vetoing, At, InHandPcs, SenderPcs
  <2> QED BY <2>1, <2>2, InHandIsPlain, Zenon
<1>4. CASE RetainMargin(w)
  <2>1. worker' = [worker EXCEPT ![w] = Finishing(w, "UNKNOWN", "none")]
    BY <1>4, Zenon DEF RetainMargin
  <2>2. worker[w].pc \in InHandPcs /\ "UNKNOWN" \in Outcomes /\ "none" \in DispatchReasons
    BY <1>4 DEF RetainMargin, At, InHandPcs, Outcomes, DispatchReasons
  <2> QED BY <2>1, <2>2, FinishingIsPlain
<1>5. CASE Finish(w)
  BY <1>5, StepToRestIsPlain DEF Finish
<1> QED BY <1>1, <1>2, <1>3, <1>4, <1>5, RespondIsPlain, VetoPassIsPlain, PostWorker,
           AmbiguousIsPlain, StoreEntryIsPlain, SettleEntryIsPlain, ProtectIsPlain
        DEF Submission

\* What any step of a worker does to the workers' records.
LEMMA WorkerStepIsPlain ==
    ASSUME WorkersFit, RowsFit, NEW w \in Workers, WorkerStep(w) \/ Crash(w), ~ ClaimEntry(w)
    PROVE  PlainWorker(w)
<1>1. CASE Recovery(w)
  BY <1>1, BeginRecoveryIsPlain, OpenManualIsPlain, RecoverReadIsPlain, RecoverStoreIsPlain,
     RecoverJudgeIsPlain, RecoverClosingIsPlain, RecoverClosedIsPlain, RecoverVerdictIsPlain,
     RecoverSettleIsPlain, RetireListIsPlain, RetireProveIsPlain, RetireReleaseIsPlain,
     FinishRecoveryIsPlain DEF Recovery
<1>2. CASE Crash(w)
  BY <1>2, RestartIsPlain DEF Crash, Abort
<1> QED BY <1>1, <1>2, AdmissionIsPlain, SubmissionIsPlain DEF WorkerStep

-----------------------------------------------------------------------------
\* The rows of dispatches.
LEMMA MoveFits ==
    ASSUME RowsFit, NEW d, NEW to \in DispatchStates, NEW reason \in DispatchReasons,
           Move(d, to, reason)
    PROVE  dispatch' \in [Dispatches -> DispatchRows]
<1>1. [state |-> to, reason |-> reason, leased |-> FALSE] \in DispatchRows
  BY Zenon DEF DispatchRows
<1> QED BY <1>1, Zenon DEF Move, RowsFit

\* Expired dispatches are rows.
LEMMA ExpiredFits ==
    ASSUME RowsFit, NEW ds
    PROVE  Expired(ds) \in [Dispatches -> DispatchRows]
<1>1. "EXPIRED" \in DispatchStates /\ "none" \in DispatchReasons
  BY DEF DispatchStates, DispatchReasons
<1>2. [state |-> "EXPIRED", reason |-> "none", leased |-> FALSE] \in DispatchRows
  BY <1>1, Zenon DEF DispatchRows
<1> QED BY <1>2, Zenon DEF Expired, RowsFit

\* A transition of the dispatch in hand gives a row.
LEMMA StepMoves ==
    ASSUME RowsFit, NEW w \in Workers, NEW from, NEW to \in DispatchStates,
           NEW reason \in DispatchReasons, NEW next, Step(w, from, to, reason, next)
    PROVE  dispatch' \in [Dispatches -> DispatchRows]
<1>1. Move(worker[w].d, to, reason) \/ UNCHANGED dispatch
  BY Zenon DEF Step
<1> QED BY <1>1, MoveFits DEF RowsFit

\* A lease that lapses leaves a row.
LEMMA LeaseFits ==
    ASSUME NEW rows \in [Dispatches -> DispatchRows], NEW d \in Dispatches
    PROVE  /\ [rows EXCEPT ![d].leased = TRUE] \in [Dispatches -> DispatchRows]
           /\ [rows EXCEPT ![d].leased = FALSE] \in [Dispatches -> DispatchRows]
BY Zenon DEF DispatchRows

\* DispatchTarget names a state of the table.
LEMMA TargetIsState ==
    ASSUME NEW status \in Outcomes
    PROVE  DispatchTarget(status) \in DispatchStates
BY DEF DispatchTarget, Outcomes, DispatchStates

\* Recovery writes rows of dispatches.
LEMMA RecoveryDispatches ==
    ASSUME WorkersFit, RowsFit, NEW w \in Workers, Recovery(w)
    PROVE  dispatch' \in [Dispatches -> DispatchRows]
<1>1. CASE \/ BeginRecovery(w) \/ RecoverStore(w) \/ RecoverJudge(w) \/ RecoverSettle(w)
           \/ RetireList(w) \/ RetireRelease(w) \/ FinishRecovery(w)
           \/ (\E d \in Dispatches : RecoverRead(w, d)) \/ (\E o \in Oids : RetireProve(w, o))
  <2>1. UNCHANGED dispatch
    BY <1>1, Zenon DEF BeginRecovery, RecoverStore, RecoverJudge, RecoverSettle, RetireList,
       RetireRelease, FinishRecovery, RecoverRead, RetireProve, Abort
  <2> QED BY <2>1 DEF RowsFit
<1>2. ASSUME NEW d \in Dispatches, OpenManual(w, d)
      PROVE  dispatch' \in [Dispatches -> DispatchRows]
  <2>1. "QUEUED" \in DispatchStates
    BY DEF DispatchStates, EntryStates
  <2>2. dispatch' = [dispatch EXCEPT ![d].state = "QUEUED", ![d].leased = TRUE]
    BY <1>2, Zenon DEF OpenManual
  <2> QED BY <2>1, <2>2, ZenonT(60) DEF RowsFit, DispatchRows
<1>3. CASE RecoverClosing(w) \/ RecoverClosed(w)
  <2>1. UNCHANGED dispatch \/ \E to \in {"CLOSING", "CLOSED"} : Move(worker[w].cand, to, "none")
    BY <1>3, Zenon DEF RecoverClosing, RecoverClosed, Abort
  <2>2. "CLOSING" \in DispatchStates /\ "CLOSED" \in DispatchStates /\ "none" \in DispatchReasons
    BY DEF DispatchStates, DispatchReasons
  <2> QED BY <2>1, <2>2, MoveFits DEF RowsFit
<1>4. CASE RecoverVerdict(w)
  <2>1. \/ UNCHANGED dispatch
        \/ Move(worker[w].cand, DispatchTarget(worker[w].res.status), worker[w].reason)
    BY <1>4, Zenon DEF RecoverVerdict, Abort
  <2> QED BY <2>1, WorkerFields, TargetIsState, MoveFits DEF RowsFit
<1> QED BY <1>1, <1>2, <1>3, <1>4 DEF Recovery

\* So does the preflight.
LEMMA AdmissionDispatches ==
    ASSUME WorkersFit, RowsFit, NEW w \in Workers, Admission(w)
    PROVE  dispatch' \in [Dispatches -> DispatchRows]
<1>0. /\ {"PREFLIGHT", "SIZED", "VALIDATED", "SUBMITTING", "REJECTED"} \subseteq DispatchStates
      /\ "none" \in DispatchReasons
  BY DEF DispatchStates, EntryStates, DispatchReasons
<1>1. CASE PreflightRead(w) \/ Admit(w) \/ AdmitRefused(w) \/ ReleaseAdmission(w)
  <2>1. UNCHANGED dispatch
    BY <1>1 DEF PreflightRead, Admit, AdmitRefused, ReleaseAdmission
  <2> QED BY <2>1 DEF RowsFit
<1>2. ASSUME NEW d \in Dispatches, Claim(w, d)
      PROVE  dispatch' \in [Dispatches -> DispatchRows]
  <2>1. dispatch' = [Expired(StaleQueued) EXCEPT ![d].leased = TRUE]
    BY <1>2, Zenon DEF Claim
  <2> QED BY <2>1, ExpiredFits, LeaseFits
<1>3. CASE ClaimNothing(w) \/ AdmitStale(w)
  <2>1. \E ds : dispatch' = Expired(ds)
    BY <1>3, Zenon DEF ClaimNothing, AdmitStale
  <2> QED BY <2>1, ExpiredFits
<1>4. CASE Gate(w) \/ GateReject(w) \/ PreflightReject(w) \/ RejectValidated(w)
  BY <1>0, <1>4, StepMoves DEF Gate, GateReject, PreflightReject, RejectValidated
<1>5. CASE Advance(w)
  <2>1. PICK from \in DOMAIN NextState :
          \E next : Step(w, from, NextState[from], "none", next)
    BY <1>5, Zenon DEF Advance
  <2>2. NextState[from] \in {"SIZED", "VALIDATED", "SUBMITTING"}
    BY DEF NextState
  <2> QED BY <1>0, <2>1, <2>2, StepMoves
<1> QED BY <1>1, <1>2, <1>3, <1>4, <1>5 DEF Admission

\* And so does the submission.
LEMMA SubmissionDispatches ==
    ASSUME WorkersFit, RowsFit, NEW w \in Workers, Submission(w)
    PROVE  dispatch' \in [Dispatches -> DispatchRows]
<1>1. CASE \/ GuardReject(w) \/ ClaimEntry(w) \/ VetoPass(w) \/ VetoReject(w) \/ VetoRelease(w)
           \/ VetoExpire(w) \/ Post(w) \/ Respond(w) \/ Ambiguous(w) \/ RetainMargin(w)
           \/ StoreEntry(w) \/ SettleEntry(w) \/ Protect(w)
  <2>1. UNCHANGED dispatch
    BY <1>1, Zenon DEF GuardReject, ClaimEntry, VetoPass, VetoReject, VetoRelease, VetoExpire,
       RejectClaim, Post, Respond, Ambiguous, RetainMargin, StoreEntry, SettleEntry, Protect
  <2> QED BY <2>1 DEF RowsFit
<1>2. CASE GuardExpire(w) \/ Recheck(w)
  <2>1. \E ds : dispatch' = Expired(ds)
    BY <1>2, Zenon DEF GuardExpire, Recheck
  <2> QED BY <2>1, ExpiredFits
<1>3. CASE Finish(w)
  BY <1>3, WorkerFields, TargetIsState, StepMoves DEF Finish
<1> QED BY <1>1, <1>2, <1>3 DEF Submission

-----------------------------------------------------------------------------
\* The journal of intents: its rows keep their types, and none is ever taken back.
HasIntent(o) == intent[o].state # "none"

IntentsKept ==
    /\ intent' \in [Oids -> IntentRows]
    /\ \A o \in Oids : HasIntent(o) => HasIntent(o)'

\* The fields of an intent row.
LEMMA IntentIsTyped ==
    ASSUME RowsFit, NEW o \in Oids
    PROVE  /\ intent[o] \in IntentRows
           /\ intent[o].filled \in 0..Qty /\ 0 \in 0..Qty
<1>1. 0 \in 0..Qty
  BY DEF EntryAssumption
<1> QED BY <1>1, Zenon DEF RowsFit, IntentRows

\* Intents that stay as they are.
LEMMA SameIntents == ASSUME RowsFit, UNCHANGED intent PROVE IntentsKept
BY DEF RowsFit, IntentsKept, HasIntent

\* A row is rewritten, never emptied.
LEMMA RewrittenIntent ==
    ASSUME RowsFit, NEW o, NEW i \in IntentRows, i.state # "none",
           intent' = [intent EXCEPT ![o] = i]
    PROVE  IntentsKept
BY Zenon DEF RowsFit, IntentsKept, HasIntent

\* An intent row gets another state.
LEMMA NewState ==
    ASSUME RowsFit, NEW o \in Oids, NEW state \in IntentStates \ {"none"},
           intent' = [intent EXCEPT ![o].state = state]
    PROVE  IntentsKept
<1> DEFINE i == [intent[o] EXCEPT !.state = state]
<1>1. i \in IntentRows /\ i.state = state
  BY IntentIsTyped, Zenon DEF IntentRows
<1>2. intent' = [intent EXCEPT ![o] = i]
  BY Zenon
<1> HIDE DEF i
<1> QED BY <1>1, <1>2, RewrittenIntent

\* A readback is written over an intent row.
LEMMA ReadbackIsRecorded ==
    ASSUME RowsFit, NEW o \in Oids, NEW r \in Readbacks, RecordReadback(o, r)
    PROVE  IntentsKept
<1> DEFINE state == IntentState(r.status)
           known == intent[o].known \/ r.known
           i == [intent[o] EXCEPT !.state = state, !.filled = r.qty, !.known = known]
<1>1. intent' = [intent EXCEPT ![o] = i]
  BY Zenon DEF RecordReadback
<1>2. state \in IntentStates /\ state # "none"
  BY DEF IntentState, IntentStates
<1>3. known \in BOOLEAN /\ r.qty \in 0..Qty
  BY Zenon DEF Readbacks
<1> HIDE DEF state, known
<1>4. i \in IntentRows /\ i.state = state
  BY <1>2, <1>3, IntentIsTyped, Zenon DEF IntentRows
<1> HIDE DEF i
<1> QED BY <1>1, <1>2, <1>4, RewrittenIntent

\* Recovery writes rows of intents, and journals no order.
LEMMA RecoveryIntents ==
    ASSUME WorkersFit, RowsFit, NEW w \in Workers, Recovery(w)
    PROVE  IntentsKept
<1>1. CASE \/ BeginRecovery(w) \/ RecoverClosing(w) \/ RecoverClosed(w) \/ RecoverVerdict(w)
           \/ RecoverSettle(w) \/ RetireList(w) \/ RetireRelease(w) \/ FinishRecovery(w)
           \/ (\E d \in Dispatches : OpenManual(w, d) \/ RecoverRead(w, d))
           \/ (\E o \in Oids : RetireProve(w, o))
  <2>1. UNCHANGED intent
    BY <1>1, Zenon DEF BeginRecovery, RecoverClosing, RecoverClosed, RecoverVerdict,
       RecoverSettle, RetireList, RetireRelease, FinishRecovery, OpenManual, RecoverRead,
       RetireProve, Abort
  <2> QED BY <2>1, SameIntents
<1>2. CASE RecoverStore(w)
  <2>1. worker[w].cand \in Dispatches
    BY <1>2, WorkerFields DEF RecoverStore, At, Fits, CandidatePcs
  <2>2. UNCHANGED intent \/ RecordReadback(OidOf[worker[w].cand], worker[w].res)
    BY <1>2, Zenon DEF RecoverStore, Abort
  <2> QED BY <2>1, <2>2, SameIntents, OidIsTyped, WorkerFields, ReadbackIsRecorded
<1>3. CASE RecoverJudge(w)
  <2>1. PICK bind, readable \in BOOLEAN : Judge(w, bind, readable)
    BY <1>3 DEF RecoverJudge
  <2> DEFINE o == OidOf[worker[w].cand]
             closed == intent[o].closed \/ bind
             settled == closed /\ readable /\ FlatSymbol(SymbolOf[o])
             state == IF settled THEN "reconciled" ELSE intent[o].state
             i == [intent[o] EXCEPT !.closed = closed, !.state = state]
  <2>2. intent' = [intent EXCEPT ![o] = i]
    BY <2>1, Zenon DEF Judge
  <2>3. worker[w].cand \in Dispatches
    BY <1>3, WorkerFields DEF RecoverJudge, At, Fits, CandidatePcs
  <2>4. o \in Oids
    BY <2>3, OidIsTyped
  <2>5. closed \in BOOLEAN
    BY Zenon
  <2> HIDE DEF o, closed, settled
  <2>6. state \in IntentStates /\ (intent[o].state # "none" => state # "none")
    BY <2>4, RowFields, <2>3 DEF IntentStates
  <2> HIDE DEF state
  <2>7. i \in IntentRows /\ i.state = state
    BY <2>4, <2>5, <2>6, IntentIsTyped, Zenon DEF IntentRows
  <2> HIDE DEF i
  <2> QED BY <2>2, <2>4, <2>6, <2>7, Zenon DEF IntentsKept, RowsFit, HasIntent
<1> QED BY <1>1, <1>2, <1>3 DEF Recovery

\* The preflight leaves the intents alone.
LEMMA AdmissionIntents ==
    ASSUME RowsFit, NEW w \in Workers, Admission(w)
    PROVE  IntentsKept
<1>1. CASE (\E d \in Dispatches : Claim(w, d)) \/ ClaimNothing(w) \/ AdmitStale(w)
           \/ Admit(w) \/ AdmitRefused(w)
  BY <1>1, SameIntents DEF Claim, ClaimNothing, AdmitStale, Admit, AdmitRefused
<1>2. CASE \/ Gate(w) \/ GateReject(w) \/ PreflightRead(w) \/ PreflightReject(w) \/ Advance(w)
           \/ ReleaseAdmission(w) \/ RejectValidated(w)
  <2>1. UNCHANGED intent
    BY <1>2, Zenon DEF Gate, GateReject, PreflightRead, PreflightReject, Advance,
       ReleaseAdmission, RejectValidated
  <2> QED BY <2>1, SameIntents
<1> QED BY <1>1, <1>2 DEF Admission

\* The submission writes rows of intents and takes none away.
LEMMA SubmissionIntents ==
    ASSUME WorkersFit, RowsFit, NEW w \in Workers, Submission(w)
    PROVE  IntentsKept
<1>0. {"requested", "rejected", "unknown"} \subseteq IntentStates \ {"none"}
  BY DEF IntentStates
<1>1. CASE \/ GuardReject(w) \/ GuardExpire(w) \/ VetoPass(w) \/ VetoRelease(w) \/ Recheck(w)
           \/ Post(w) \/ Respond(w) \/ RetainMargin(w) \/ SettleEntry(w) \/ Protect(w)
           \/ Finish(w)
  <2>1. UNCHANGED intent
    BY <1>1, Zenon DEF GuardReject, GuardExpire, VetoPass, VetoRelease, Recheck, Post, Respond,
       RetainMargin, SettleEntry, Protect, Finish
  <2> QED BY <2>1, SameIntents
<1>2. CASE ClaimEntry(w) \/ VetoReject(w) \/ VetoExpire(w)
  <2>1. Oid(w) \in Oids
    BY <1>2, WorkerFields, OidIsTyped
       DEF ClaimEntry, VetoReject, VetoExpire, Vetoing, At, Fits, InHandPcs, SenderPcs, Oid
  <2>2. UNCHANGED intent \/ \E state \in {"requested", "rejected"} :
                               intent' = [intent EXCEPT ![Oid(w)].state = state]
    BY <1>2, Zenon DEF ClaimEntry, VetoReject, VetoExpire, RejectClaim
  <2> QED BY <1>0, <2>1, <2>2, SameIntents, NewState, Zenon
<1>3. CASE Ambiguous(w)
  <2> DEFINE o == Oid(w)
             filled == IF worker[w].mine THEN 0 ELSE intent[o].filled
             i == [intent[o] EXCEPT !.state = "unknown", !.filled = filled]
  <2>1. o \in Oids
    BY <1>3, WorkerFields, OidIsTyped DEF Ambiguous, At, Fits, InHandPcs, SenderPcs, Oid
  <2>2. UNCHANGED intent \/ intent' = [intent EXCEPT ![o] = i]
    BY <1>3, Zenon DEF Ambiguous
  <2>3. filled \in 0..Qty
    BY <2>1, IntentIsTyped
  <2>4. "unknown" \in IntentStates
    BY DEF IntentStates
  <2> HIDE DEF filled, o
  <2>5. i \in IntentRows /\ i.state = "unknown"
    BY <2>1, <2>3, <2>4, IntentIsTyped, Zenon DEF IntentRows
  <2> HIDE DEF i
  <2> QED BY <2>2, <2>5, SameIntents, RewrittenIntent
<1>4. CASE StoreEntry(w)
  <2>1. Oid(w) \in Oids
    BY <1>4, WorkerFields, OidIsTyped DEF StoreEntry, At, Fits, InHandPcs, Oid
  <2>2. UNCHANGED intent \/ RecordReadback(Oid(w), worker[w].res)
    BY <1>4, Zenon DEF StoreEntry
  <2> QED BY <2>1, <2>2, SameIntents, WorkerFields, ReadbackIsRecorded
<1> QED BY <1>1, <1>2, <1>3, <1>4 DEF Submission

-----------------------------------------------------------------------------
\* The margin ledger: what each caller does to it is one of its transactions, or nothing.
LEMMA ResolveIsALedgerStep ==
    ASSUME NEW o \in Oids, NEW outcome \in Outcomes, Resolve(o, outcome)
    PROVE  LedgerNext
BY DEF LedgerNext, ResolveAny

\* expire_source_dispatch is a transaction of the ledger.
LEMMA ExpireIsALedgerStep ==
    ASSUME NEW ds \in SUBSET Dispatches, ExpireSources(ds)
    PROVE  LedgerNext
BY DEF LedgerNext, ExpireAny

\* So is the reservation.
LEMMA ReserveIsALedgerStep ==
    ASSUME NEW o \in Oids, NEW d \in Dispatches, NEW provider \in SUBSET Symbols,
           NEW limit \in Balances, NEW lapsed \in SUBSET ReservedOids,
           Reserve(o, d, provider, limit, lapsed) \/ ReserveRefused(o, provider, limit, lapsed)
    PROVE  LedgerNext
BY DEF LedgerNext, ReserveAny

\* What recovery does to the ledger is one of its transactions.
LEMMA RecoveryLedger ==
    ASSUME WorkersFit, NEW w \in Workers, Recovery(w)
    PROVE  [LedgerNext]_ledgerVars
<1>1. CASE \/ BeginRecovery(w) \/ RecoverStore(w) \/ RecoverJudge(w) \/ RecoverClosing(w)
           \/ RecoverClosed(w) \/ RecoverVerdict(w) \/ RetireList(w) \/ FinishRecovery(w)
           \/ (\E d \in Dispatches : OpenManual(w, d) \/ RecoverRead(w, d))
           \/ (\E o \in Oids : RetireProve(w, o))
  <2>1. UNCHANGED ledgerVars
    BY <1>1, Zenon DEF BeginRecovery, RecoverStore, RecoverJudge, RecoverClosing, RecoverClosed,
       RecoverVerdict, RetireList, FinishRecovery, OpenManual, RecoverRead, RetireProve, Abort
  <2> QED BY <2>1
<1>2. CASE RecoverSettle(w)
  <2>1. worker[w].cand \in Dispatches
    BY <1>2, WorkerFields DEF RecoverSettle, At, Fits, CandidatePcs
  <2>2. UNCHANGED ledgerVars \/ Resolve(OidOf[worker[w].cand], worker[w].res.status)
    BY <1>2, Zenon DEF RecoverSettle, Abort
  <2> QED BY <2>1, <2>2, OidIsTyped, WorkerFields, ResolveIsALedgerStep
<1>3. CASE RetireRelease(w)
  <2>1. worker[w].moot \in Oids /\ "REJECTED" \in Outcomes
    BY <1>3, WorkerFields DEF RetireRelease, At, Fits, Outcomes
  <2>2. Resolve(worker[w].moot, "REJECTED")
    BY <1>3, Zenon DEF RetireRelease
  <2> QED BY <2>1, <2>2, ResolveIsALedgerStep
<1> QED BY <1>1, <1>2, <1>3 DEF Recovery

\* And so is what the preflight does to it.
LEMMA AdmissionLedger ==
    ASSUME WorkersFit, NEW w \in Workers, Admission(w)
    PROVE  [LedgerNext]_ledgerVars
<1>1. CASE \/ Gate(w) \/ GateReject(w) \/ PreflightRead(w) \/ PreflightReject(w) \/ Advance(w)
           \/ RejectValidated(w)
  <2>1. UNCHANGED ledgerVars
    BY <1>1, Zenon DEF Gate, GateReject, PreflightRead, PreflightReject, Advance, RejectValidated
  <2> QED BY <2>1
<1>2. CASE (\E d \in Dispatches : Claim(w, d)) \/ ClaimNothing(w)
  <2>1. ExpireSources(StaleQueued)
    BY <1>2, Zenon DEF Claim, ClaimNothing
  <2>2. StaleQueued \in SUBSET Dispatches
    BY DEF StaleQueued
  <2> QED BY <2>1, <2>2, ExpireIsALedgerStep
<1>3. CASE AdmitStale(w)
  <2>1. ExpireSources({d \in {worker[w].d} : Expirable(d, intent)})
    BY <1>3, Zenon DEF AdmitStale
  <2>2. worker[w].d \in Dispatches
    BY <1>3, WorkerFields DEF AdmitStale, At, Fits, InHandPcs
  <2> QED BY <2>1, <2>2, ExpireIsALedgerStep
<1>4. CASE Admit(w) \/ AdmitRefused(w)
  <2>1. worker[w].d \in Dispatches
    BY <1>4, WorkerFields DEF Admit, AdmitRefused, At, Fits, InHandPcs
  <2>2. \E limit \in Balances, lapsed \in SUBSET ReservedOids :
          \/ Reserve(OidOf[worker[w].d], worker[w].d, worker[w].seen, limit, lapsed)
          \/ ReserveRefused(OidOf[worker[w].d], worker[w].seen, limit, lapsed)
    BY <1>4, Zenon DEF Admit, AdmitRefused
  <2> QED BY <2>1, <2>2, OidIsTyped, WorkerFields, ReserveIsALedgerStep
<1>5. CASE ReleaseAdmission(w)
  <2>1. Resolve(OidOf[worker[w].d], "REJECTED") /\ "REJECTED" \in Outcomes
    BY <1>5, Zenon DEF ReleaseAdmission, Outcomes
  <2>2. worker[w].d \in Dispatches
    BY <1>5, WorkerFields DEF ReleaseAdmission, At, Fits, InHandPcs
  <2> QED BY <2>1, <2>2, OidIsTyped, ResolveIsALedgerStep
<1> QED BY <1>1, <1>2, <1>3, <1>4, <1>5 DEF Admission

\* And what the submission does to it.
LEMMA SubmissionLedger ==
    ASSUME WorkersFit, NEW w \in Workers, Submission(w)
    PROVE  [LedgerNext]_ledgerVars
<1>1. CASE \/ GuardReject(w) \/ ClaimEntry(w) \/ VetoPass(w) \/ VetoReject(w) \/ VetoExpire(w)
           \/ Post(w) \/ Respond(w) \/ Ambiguous(w) \/ StoreEntry(w) \/ Protect(w) \/ Finish(w)
  <2>1. UNCHANGED ledgerVars
    BY <1>1, Zenon DEF GuardReject, ClaimEntry, VetoPass, VetoReject, VetoExpire, RejectClaim,
       Post, Respond, Ambiguous, StoreEntry, Protect, Finish
  <2> QED BY <2>1
<1>2. CASE GuardExpire(w) \/ Recheck(w)
  <2>1. ExpireSources(ExpiredByCheck(worker[w].d, intent))
    BY <1>2, Zenon DEF GuardExpire, Recheck
  <2>2. worker[w].d \in Dispatches
    BY <1>2, WorkerFields DEF GuardExpire, Recheck, At, Fits, InHandPcs
  <2>3. ExpiredByCheck(worker[w].d, intent) \in SUBSET Dispatches
    BY <2>2 DEF ExpiredByCheck
  <2> QED BY <2>1, <2>3, ExpireIsALedgerStep
<1>3. CASE VetoRelease(w) \/ RetainMargin(w) \/ SettleEntry(w)
  <2>1. Oid(w) \in Oids
    BY <1>3, WorkerFields, OidIsTyped
       DEF VetoRelease, RetainMargin, SettleEntry, At, Fits, InHandPcs, Oid
  <2>2. \/ UNCHANGED ledgerVars
        \/ \E outcome \in {"REJECTED", "UNKNOWN", worker[w].res.status} : Resolve(Oid(w), outcome)
    BY <1>3, Zenon DEF VetoRelease, RetainMargin, SettleEntry
  <2>3. {"REJECTED", "UNKNOWN", worker[w].res.status} \subseteq Outcomes
    BY WorkerFields DEF Outcomes
  <2> QED BY <2>1, <2>2, <2>3, ResolveIsALedgerStep
<1> QED BY <1>1, <1>2, <1>3 DEF Submission

-----------------------------------------------------------------------------
\* Protection and the venue's side.
LEMMA RecoveryOutside ==
    ASSUME NEW w \in Workers, Recovery(w) \/ Admission(w)
    PROVE  UNCHANGED <<cover, outsideVars>>
<1>1. CASE Recovery(w)
  BY <1>1, Zenon DEF Recovery, BeginRecovery, RecoverStore, RecoverJudge, RecoverClosing,
     RecoverClosed, RecoverVerdict, RecoverSettle, RetireList, RetireRelease, FinishRecovery,
     OpenManual, RecoverRead, RetireProve, Abort
<1>2. CASE Admission(w)
  BY <1>2, Zenon DEF Admission, Claim, ClaimNothing, AdmitStale, Admit, AdmitRefused, Gate,
     GateReject, PreflightRead, PreflightReject, Advance, ReleaseAdmission, RejectValidated
<1> QED BY <1>1, <1>2

\* Of what lies outside the database, a submission changes only the venue and the count.
LEMMA SubmissionOutside ==
    ASSUME NEW w \in Workers, Submission(w), ~ Post(w)
    PROVE  UNCHANGED outsideVars
BY Zenon DEF Submission, GuardReject, GuardExpire, ClaimEntry, VetoPass, VetoReject, VetoRelease,
   VetoExpire, RejectClaim, Recheck, Respond, Ambiguous, RetainMargin, StoreEntry, SettleEntry,
   Protect, Finish

\* The submission's protection is in its range.
LEMMA SubmissionCover ==
    ASSUME WorkersFit, RowsFit, NEW w \in Workers, Submission(w)
    PROVE  cover' \in [Oids -> {"none", "venue", "local"}]
<1>1. CASE Protect(w)
  <2>1. Oid(w) \in Oids
    BY <1>1, WorkerFields, OidIsTyped DEF Protect, At, Fits, InHandPcs, Oid
  <2>2. PICK k \in IF worker[w].mine THEN Covers ELSE {cover[Oid(w)]} :
          cover' = [cover EXCEPT ![Oid(w)] = k]
    BY <1>1, Zenon DEF Protect
  <2>3. k \in {"none", "venue", "local"}
    BY <2>1, <2>2 DEF RowsFit, EntryAssumption
  <2> QED BY <2>2, <2>3 DEF RowsFit
<1>2. CASE ~ Protect(w)
  <2>1. UNCHANGED cover
    BY <1>2, Zenon DEF Submission, GuardReject, GuardExpire, ClaimEntry, VetoPass, VetoReject,
       VetoRelease, VetoExpire, RejectClaim, Recheck, Post, Respond, Ambiguous, RetainMargin,
       StoreEntry, SettleEntry, Finish
  <2> QED BY <2>1 DEF RowsFit
<1> QED BY <1>1, <1>2

-----------------------------------------------------------------------------
\* The rest of the state, in its ranges.
OutsideFits ==
    /\ monitor = MonitorIdle \/ monitor \in [oid : Oids, res : Readbacks]
    /\ fresh \subseteq Dispatches
    /\ killed \in BOOLEAN /\ paused \in BOOLEAN
    /\ crashes \in Nat

\* Only an order that is done is filled completely: a live one can take another fill.
VenueInv == \A o \in Oids : venue[o].order # "done" => venue[o].filled < Qty

\* The licence to send.  One worker has it, only for an order that is journaled and was never
\* sent; an order that is not journaled was never sent.
Sender(w) == worker[w].pc \in SenderPcs

SendInv ==
    /\ posts \in [Oids -> Nat]
    /\ \A o \in Oids : posts[o] <= 1 /\ (~ HasIntent(o) => posts[o] = 0)
    /\ \A w \in Workers : Sender(w) => HasIntent(Oid(w)) /\ posts[Oid(w)] = 0
    /\ \A v, w \in Workers : Sender(v) /\ Sender(w) /\ Oid(v) = Oid(w) => v = w

EntryInv == LedgerInv /\ WorkersFit /\ RowsFit /\ OutsideFits /\ VenueInv /\ SendInv

\* The records of all workers after a step of one.
LEMMA OnlyWorkerFits ==
    ASSUME WorkersFit, NEW w \in Workers, OnlyWorker(w)
    PROVE  WorkersFit'
<1>1. \A v \in Workers : Fits(worker'[v])
  BY DEF WorkersFit, OnlyWorker
<1> QED BY <1>1 DEF WorkersFit, OnlyWorker, Fits

\* A plain step licenses nobody, so it keeps the senders apart.
LEMMA PlainKeepsSends ==
    ASSUME WorkersFit, SendInv, NEW w \in Workers, PlainWorker(w), IntentsKept, UNCHANGED posts
    PROVE  SendInv'
<1>1. \A v \in Workers : Sender(v)' => Sender(v) /\ Oid(v)' = Oid(v)
  BY DEF PlainWorker, OnlyWorker, NoNewLicence, Sender, Oid
<1>2. \A v \in Workers : Sender(v) => Oid(v) \in Oids
  BY WorkerFields, OidIsTyped DEF Sender, Oid, Fits, InHandPcs
<1>3. \A o \in Oids : HasIntent(o) => HasIntent(o)'
  BY DEF IntentsKept
<1>4. \A v \in Workers : Sender(v)' => HasIntent(Oid(v))' /\ posts'[Oid(v)'] = 0
  BY <1>1, <1>2, <1>3 DEF SendInv, HasIntent
<1>5. \A u, v \in Workers : Sender(u)' /\ Sender(v)' /\ Oid(u)' = Oid(v)' => u = v
  BY <1>1 DEF SendInv
<1>6. \A o \in Oids : posts'[o] <= 1 /\ (~ HasIntent(o)' => posts'[o] = 0)
  BY <1>3 DEF SendInv
<1> QED BY <1>4, <1>5, <1>6 DEF SendInv

\* The claim of the intent is the one step that gives the licence: the row was empty, so the
\* order was never sent and nobody else may send it.
LEMMA ClaimKeepsSends ==
    ASSUME WorkersFit, RowsFit, SendInv, NEW w \in Workers, ClaimEntry(w), IntentsKept
    PROVE  SendInv'
<1>1. UNCHANGED posts
  BY Zenon DEF ClaimEntry, outsideVars
<1>2. CASE intent[Oid(w)].state # "none"
  BY <1>1, <1>2, ClaimEntryWorker, PlainKeepsSends DEF PlainWorker
<1>3. CASE intent[Oid(w)].state = "none"
  <2>1. Oid(w) \in Oids
    BY WorkerFields, OidIsTyped DEF ClaimEntry, At, Fits, InHandPcs, Oid
  <2>2. OnlyWorker(w) /\ Oid(w)' = Oid(w)
    BY <1>3, ClaimEntryWorker DEF Oid
  <2>3. intent'[Oid(w)].state = "requested"
    <3>1. intent' = [intent EXCEPT ![Oid(w)].state = "requested"]
      BY <1>3, Zenon DEF ClaimEntry
    <3> QED BY <2>1, <3>1, ZenonT(60) DEF RowsFit, IntentRows
  <2>4. \A v \in Workers \ {w} : Sender(v)' => Sender(v) /\ Oid(v)' = Oid(v) /\ Oid(v) # Oid(w)
    BY <1>3, <2>2 DEF OnlyWorker, Sender, Oid, SendInv, HasIntent
  <2>5. \A o \in Oids : HasIntent(o) => HasIntent(o)'
    BY DEF IntentsKept
  <2>6. \A v \in Workers : Sender(v) => Oid(v) \in Oids
    BY WorkerFields, OidIsTyped DEF Sender, Oid, Fits, InHandPcs
  <2>7. \A v \in Workers : Sender(v)' => HasIntent(Oid(v))' /\ posts'[Oid(v)'] = 0
    BY <1>1, <1>3, <2>1, <2>2, <2>3, <2>4, <2>5, <2>6 DEF SendInv, HasIntent
  <2>8. \A u, v \in Workers : Sender(u)' /\ Sender(v)' /\ Oid(u)' = Oid(v)' => u = v
    BY <2>2, <2>4 DEF SendInv
  <2>9. \A o \in Oids : posts'[o] <= 1 /\ (~ HasIntent(o)' => posts'[o] = 0)
    BY <1>1, <2>5 DEF SendInv
  <2> QED BY <1>1, <2>7, <2>8, <2>9 DEF SendInv
<1> QED BY <1>2, <1>3

\* The POST: the count becomes one, and the licence is spent.
LEMMA PostKeepsSends ==
    ASSUME WorkersFit, SendInv, NEW w \in Workers, Post(w), UNCHANGED intent
    PROVE  SendInv'
<1>1. /\ posts' = [posts EXCEPT ![Oid(w)] = @ + 1]
      /\ Sender(w)
  BY Zenon DEF Post, At, Sender, SenderPcs
<1>2. PlainWorker(w) /\ ~ Sender(w)'
  BY PostWorker DEF Sender
<1>3. Oid(w) \in Oids /\ posts[Oid(w)] = 0 /\ HasIntent(Oid(w))
  BY <1>1, WorkerFields, OidIsTyped DEF Sender, Oid, Fits, InHandPcs, SendInv
<1>4. \A v \in Workers : Sender(v)' => Sender(v) /\ Oid(v)' = Oid(v) /\ Oid(v) # Oid(w)
  BY <1>1, <1>2 DEF PlainWorker, OnlyWorker, NoNewLicence, Sender, Oid, SendInv
<1>5. posts' \in [Oids -> Nat] /\ posts'[Oid(w)] = 1
      /\ \A o \in Oids \ {Oid(w)} : posts'[o] = posts[o]
  BY <1>1, <1>3 DEF SendInv
<1>6. \A v \in Workers : Sender(v) => Oid(v) \in Oids
  BY WorkerFields, OidIsTyped DEF Sender, Oid, Fits, InHandPcs
<1>7. \A v \in Workers : Sender(v)' => HasIntent(Oid(v))' /\ posts'[Oid(v)'] = 0
  BY <1>4, <1>5, <1>6 DEF SendInv, HasIntent
<1>8. \A u, v \in Workers : Sender(u)' /\ Sender(v)' /\ Oid(u)' = Oid(v)' => u = v
  BY <1>4 DEF SendInv
<1>9. \A o \in Oids : posts'[o] <= 1 /\ (~ HasIntent(o)' => posts'[o] = 0)
  BY <1>3, <1>5 DEF SendInv, HasIntent
<1> QED BY <1>5, <1>7, <1>8, <1>9 DEF SendInv

-----------------------------------------------------------------------------
\* An order at the venue is replaced by one in range, with room for a fill unless it is done.
LEMMA VenueRow ==
    ASSUME RowsFit, VenueInv, NEW o \in Oids, NEW v \in VenueOrders,
           v.order # "done" => v.filled < Qty,
           venue' = [venue EXCEPT ![o] = v]
    PROVE  venue' \in [Oids -> VenueOrders] /\ VenueInv'
<1>1. venue' \in [Oids -> VenueOrders]
  BY Zenon DEF RowsFit
<1>2. venue'[o] = v /\ \A p \in Oids \ {o} : venue'[p] = venue[p]
  BY Zenon DEF RowsFit
<1> QED BY <1>1, <1>2 DEF VenueInv

OrderStates == {"none", "flying", "live", "refused", "done"}

\* The state of an order at the venue is written.
LEMMA OrderWritten ==
    ASSUME NEW x \in VenueOrders, NEW order \in OrderStates
    PROVE  /\ [x EXCEPT !.order = order] \in VenueOrders
           /\ [x EXCEPT !.order = order].order = order
           /\ [x EXCEPT !.order = order].filled = x.filled
BY Zenon DEF VenueOrders, OrderStates

\* The fill of an order at the venue is written.
LEMMA FillWritten ==
    ASSUME NEW x \in VenueOrders, NEW filled \in 0..Qty
    PROVE  /\ [x EXCEPT !.filled = filled] \in VenueOrders
           /\ [x EXCEPT !.filled = filled].filled = filled
           /\ [x EXCEPT !.filled = filled].order = x.order
BY Zenon DEF VenueOrders, OrderStates

\* Its position ends.
LEMMA ExitWritten ==
    ASSUME NEW x \in VenueOrders, NEW how \in {"none", "owned", "alien"}
    PROVE  /\ [x EXCEPT !.exit = how] \in VenueOrders
           /\ [x EXCEPT !.exit = how].order = x.order
           /\ [x EXCEPT !.exit = how].filled = x.filled
BY Zenon DEF VenueOrders

\* The fields of an order at the venue.
LEMMA VenueFields ==
    ASSUME RowsFit, NEW o \in Oids
    PROVE  /\ venue[o] \in VenueOrders /\ venue[o].filled \in 0..Qty
           /\ venue[o].order \in {"none", "flying", "live", "refused", "done"}
BY Zenon DEF RowsFit, VenueOrders

\* A POST reaches an order with room for a fill.
LEMMA PostAtVenue ==
    ASSUME WorkersFit, RowsFit, VenueInv, NEW w \in Workers, Post(w)
    PROVE  venue' \in [Oids -> VenueOrders] /\ VenueInv'
<1>1. PICK fate \in IF LatePosts THEN {"flying"} ELSE {"live", "refused"} :
        venue' = [venue EXCEPT ![Oid(w)].order = IF @ = "none" THEN fate ELSE @]
  BY Zenon DEF Post
<1>2. Oid(w) \in Oids
  BY WorkerFields, OidIsTyped DEF Post, At, Fits, InHandPcs, SenderPcs, Oid
<1> DEFINE order == IF venue[Oid(w)].order = "none" THEN fate ELSE venue[Oid(w)].order
           v == [venue[Oid(w)] EXCEPT !.order = order]
<1>3. venue' = [venue EXCEPT ![Oid(w)] = v]
  BY <1>1, Zenon
<1>4. /\ order \in OrderStates
      /\ order = "done" => venue[Oid(w)].order = "done"
      /\ order # "done" => venue[Oid(w)].order # "done"
  BY <1>2, VenueFields DEF OrderStates
<1> HIDE DEF order
<1>5. v \in VenueOrders /\ v.order = order /\ v.filled = venue[Oid(w)].filled
  <2>1. venue[Oid(w)] \in VenueOrders
    BY <1>2, VenueFields
  <2> QED BY <1>4, <2>1, OrderWritten, Zenon
<1> HIDE DEF v
<1>6. v.order # "done" => v.filled < Qty
  BY <1>2, <1>4, <1>5 DEF VenueInv
<1> QED BY <1>2, <1>3, <1>5, <1>6, VenueRow

\* The venue's own steps.
LEMMA VenueStepFits ==
    ASSUME RowsFit, VenueInv, VenueStep
    PROVE  venue' \in [Oids -> VenueOrders] /\ VenueInv'
<1>1. PICK o \in Oids :
        VenueAccept(o) \/ VenueRefuse(o) \/ VenueFill(o) \/ VenueCancel(o)
          \/ \E how \in Exits : VenueExit(o, how)
  BY DEF VenueStep
<1>2. VenueInv => (venue[o].order # "done" => venue[o].filled < Qty)
  BY DEF VenueInv
<1>3. ASSUME NEW order \in {"live", "refused", "done"}, venue[o].order # "done",
             venue' = [venue EXCEPT ![o] = [venue[o] EXCEPT !.order = order]]
      PROVE  venue' \in [Oids -> VenueOrders] /\ VenueInv'
  <2> DEFINE v == [venue[o] EXCEPT !.order = order]
  <2>1. v \in VenueOrders /\ v.filled = venue[o].filled
    <3>1. venue[o] \in VenueOrders /\ order \in OrderStates
      BY VenueFields DEF OrderStates
    <3> QED BY <3>1, OrderWritten, Zenon
  <2> HIDE DEF v
  <2>2. venue' = [venue EXCEPT ![o] = v]
    BY <1>3, Zenon DEF v
  <2> QED BY <1>2, <1>3, <2>1, <2>2, VenueRow
<1>4. CASE VenueAccept(o) \/ VenueRefuse(o) \/ VenueCancel(o)
  <2>1. \E order \in {"live", "refused", "done"} :
          /\ venue[o].order # "done"
          /\ venue' = [venue EXCEPT ![o] = [venue[o] EXCEPT !.order = order]]
    BY <1>4, Zenon DEF VenueAccept, VenueRefuse, VenueCancel, Resting, SetVenue
  <2> QED BY <1>3, <2>1
<1>5. CASE VenueFill(o)
  <2> DEFINE filled == venue[o].filled + 1
             order == IF filled = Qty THEN "done" ELSE venue[o].order
             v == [venue[o] EXCEPT !.filled = filled, !.order = order]
  <2>1. venue' = [venue EXCEPT ![o] = v] /\ venue[o].order = "live"
    BY <1>5, Zenon DEF VenueFill, SetVenue, Resting
  <2>2. filled \in 0..Qty /\ (filled # Qty => filled < Qty)
    BY <1>2, <2>1, VenueFields DEF EntryAssumption
  <2>3. /\ order \in OrderStates
        /\ order # "done" => filled # Qty
    BY VenueFields DEF OrderStates
  <2> HIDE DEF filled, order
  <2>4. v \in VenueOrders /\ v.filled = filled /\ v.order = order
    <3>1. venue[o] \in VenueOrders
      BY VenueFields
    <3>2. filled \in 0..Qty /\ order \in OrderStates
      BY <2>2, <2>3
    <3> DEFINE x == [venue[o] EXCEPT !.filled = filled]
    <3>3. x \in VenueOrders /\ x.filled = filled
      BY <3>1, <3>2, FillWritten, Zenon
    <3>4. v = [x EXCEPT !.order = order]
      BY Zenon
    <3> HIDE DEF x, v
    <3> QED BY <3>2, <3>3, <3>4, OrderWritten, Zenon
  <2> HIDE DEF v
  <2> QED BY <2>1, <2>2, <2>3, <2>4, VenueRow
<1>6. ASSUME NEW how \in Exits, VenueExit(o, how)
      PROVE  venue' \in [Oids -> VenueOrders] /\ VenueInv'
  <2> DEFINE v == [venue[o] EXCEPT !.exit = how]
  <2>1. venue' = [venue EXCEPT ![o] = v]
    BY <1>6, Zenon DEF VenueExit, SetVenue
  <2>2. how \in {"none", "owned", "alien"}
    BY DEF EntryAssumption
  <2>3. v \in VenueOrders /\ v.filled = venue[o].filled /\ v.order = venue[o].order
    BY <2>2, VenueFields, ExitWritten
  <2> HIDE DEF v
  <2> QED BY <1>2, <2>1, <2>3, VenueRow
<1> QED BY <1>1, <1>4, <1>5, <1>6

-----------------------------------------------------------------------------
\* Nothing happens to what a step leaves alone.
LEMMA SendsStay ==
    ASSUME WorkersFit, SendInv, IntentsKept, UNCHANGED <<worker, posts>>
    PROVE  SendInv'
<1>1. \A v \in Workers : Sender(v)' = Sender(v) /\ Oid(v)' = Oid(v)
  BY DEF Sender, Oid
<1>2. \A v \in Workers : Sender(v) => Oid(v) \in Oids
  BY WorkerFields, OidIsTyped DEF Sender, Oid, Fits, InHandPcs
<1>3. \A o \in Oids : HasIntent(o) => HasIntent(o)'
  BY DEF IntentsKept
<1> QED BY <1>1, <1>2, <1>3 DEF SendInv

\* The steps of a worker.
LEMMA WorkerStepHolds ==
    ASSUME EntryInv, NEW w \in Workers, WorkerStep(w) \/ Crash(w)
    PROVE  EntryInv' /\ [LedgerNext]_ledgerVars
<1> USE DEF EntryInv
<1>1. [LedgerNext]_ledgerVars
  <2>1. CASE Crash(w)
    BY <2>1, Zenon DEF Crash, Abort
  <2> QED BY <2>1, RecoveryLedger, AdmissionLedger, SubmissionLedger DEF WorkerStep
<1>2. LedgerInv'
  BY <1>1, LedgerStep
<1>3. dispatch' \in [Dispatches -> DispatchRows]
  <2>1. CASE Crash(w)
    BY <2>1 DEF Crash, Abort, RowsFit
  <2> QED BY <2>1, RecoveryDispatches, AdmissionDispatches, SubmissionDispatches DEF WorkerStep
<1>4. IntentsKept
  <2>1. CASE Crash(w)
    BY <2>1, SameIntents DEF Crash, Abort
  <2> QED BY <2>1, RecoveryIntents, AdmissionIntents, SubmissionIntents DEF WorkerStep
<1>5. cover' \in [Oids -> {"none", "venue", "local"}]
  <2>1. CASE Crash(w)
    BY <2>1 DEF Crash, Abort, RowsFit
  <2> QED BY <2>1, RecoveryOutside, SubmissionCover DEF WorkerStep, RowsFit
<1>6. WorkersFit'
  BY WorkerStepIsPlain, ClaimEntryWorker, OnlyWorkerFits DEF PlainWorker
<1>7. CASE Post(w)
  <2>1. UNCHANGED <<intent, monitor, fresh, killed, paused, crashes>>
    BY <1>7, Zenon DEF Post
  <2>2. OutsideFits'
    BY <2>1 DEF OutsideFits
  <2> QED BY <1>1, <1>2, <1>3, <1>4, <1>5, <1>6, <1>7, <2>1, <2>2, PostAtVenue, PostKeepsSends
          DEF RowsFit, IntentsKept
<1>8. CASE Crash(w)
  <2>1. UNCHANGED <<venue, monitor, fresh, killed, paused, posts>> /\ crashes' = crashes + 1
    BY <1>8 DEF Crash
  <2>2. OutsideFits'
    BY <2>1 DEF OutsideFits
  <2>3. RowsFit'
    BY <1>3, <1>4, <1>5, <2>1 DEF RowsFit, IntentsKept
  <2>4. VenueInv'
    BY <2>1 DEF VenueInv
  <2>5. PlainWorker(w)
    BY <1>8, RestartIsPlain DEF Crash, Abort
  <2> QED BY <1>1, <1>2, <1>4, <1>6, <2>1, <2>2, <2>3, <2>4, <2>5, PlainKeepsSends
<1>9. CASE WorkerStep(w) /\ ~ Post(w)
  <2>1. UNCHANGED outsideVars
    BY <1>9, RecoveryOutside, SubmissionOutside DEF WorkerStep
  <2>2. OutsideFits' /\ VenueInv' /\ UNCHANGED posts /\ UNCHANGED venue
    BY <2>1 DEF outsideVars, OutsideFits, VenueInv
  <2>3. RowsFit'
    BY <1>3, <1>4, <1>5, <2>2 DEF RowsFit, IntentsKept
  <2>4. SendInv'
    BY <1>4, <1>9, <2>2, WorkerStepIsPlain, PlainKeepsSends, ClaimKeepsSends
  <2> QED BY <1>1, <1>2, <1>6, <2>2, <2>3, <2>4
<1> QED BY <1>7, <1>8, <1>9

\* The monitor rewrites rows of the journal and takes none back.
LEMMA MonitorIntents ==
    ASSUME RowsFit, OutsideFits, MonitorStep
    PROVE  IntentsKept
<1>1. CASE MonitorWrite
  <2>1. monitor.oid \in Oids /\ monitor.res \in Readbacks
    BY <1>1, Zenon DEF MonitorWrite, OutsideFits
  <2>2. RecordReadback(monitor.oid, monitor.res)
    BY <1>1, Zenon DEF MonitorWrite
  <2> QED BY <2>1, <2>2, ReadbackIsRecorded
<1>2. ASSUME NEW o \in Oids, MonitorAtOnce(o)
      PROVE  IntentsKept
  <2>1. intent[o].known \in BOOLEAN
    BY Zenon DEF RowsFit, IntentRows
  <2>2. RecordReadback(o, Readback(o, intent[o].known))
    BY <1>2, Zenon DEF MonitorAtOnce
  <2> QED BY <2>1, <2>2, ReadbackIsTyped, ReadbackIsRecorded
<1>3. ASSUME NEW o \in Oids, BindExit(o)
      PROVE  IntentsKept
  <2> DEFINE i == [intent[o] EXCEPT !.closed = TRUE]
  <2>1. intent' = [intent EXCEPT ![o] = i]
    BY <1>3, Zenon DEF BindExit
  <2>2. i \in IntentRows /\ i.state = intent[o].state
    BY IntentIsTyped, Zenon DEF IntentRows
  <2> HIDE DEF i
  <2> QED BY <2>1, <2>2, Zenon DEF IntentsKept, RowsFit, HasIntent
<1>4. CASE \E o \in Oids : MonitorRead(o) \/ VerifiedRelease(o)
  <2>1. UNCHANGED intent
    BY <1>4, Zenon DEF MonitorRead, VerifiedRelease
  <2> QED BY <2>1, SameIntents
<1> QED BY <1>1, <1>2, <1>3, <1>4 DEF MonitorStep

\* The reconciliation monitor.
LEMMA MonitorStepHolds ==
    ASSUME EntryInv, MonitorStep
    PROVE  EntryInv' /\ [LedgerNext]_ledgerVars
<1> USE DEF EntryInv
<1>1. UNCHANGED <<dispatch, cover, venue, worker, fresh, killed, paused, posts, crashes>>
  BY Zenon DEF MonitorStep, MonitorRead, MonitorWrite, MonitorAtOnce, BindExit, VerifiedRelease,
     outsideVars
<1>2. [LedgerNext]_ledgerVars
  <2>1. CASE \E o \in Oids : VerifiedRelease(o)
    BY <2>1 DEF VerifiedRelease, LedgerNext, ReleaseAny
  <2>2. CASE MonitorWrite \/ \E o \in Oids : MonitorRead(o) \/ MonitorAtOnce(o) \/ BindExit(o)
    BY <2>2, Zenon DEF MonitorWrite, MonitorRead, MonitorAtOnce, BindExit
  <2> QED BY <2>1, <2>2 DEF MonitorStep
<1>3. monitor' = MonitorIdle \/ monitor' \in [oid : Oids, res : Readbacks]
  <2>1. ASSUME NEW o \in Oids, MonitorRead(o)
        PROVE  monitor' \in [oid : Oids, res : Readbacks]
    <3> DEFINE res == Readback(o, intent[o].known)
    <3>1. intent[o].known \in BOOLEAN
      BY Zenon DEF RowsFit, IntentRows
    <3>2. res \in Readbacks
      BY <3>1, ReadbackIsTyped
    <3> HIDE DEF res
    <3>3. monitor' = [oid |-> o, res |-> res]
      BY <2>1, Zenon DEF MonitorRead, res
    <3> QED BY <3>2, <3>3, Zenon
  <2>2. CASE MonitorWrite
    BY <2>2, Zenon DEF MonitorWrite
  <2>3. CASE \E o \in Oids : MonitorAtOnce(o) \/ BindExit(o) \/ VerifiedRelease(o)
    <3>1. UNCHANGED monitor
      BY <2>3, Zenon DEF MonitorAtOnce, BindExit, VerifiedRelease, outsideVars
    <3> QED BY <3>1 DEF OutsideFits
  <2> QED BY <2>1, <2>2, <2>3 DEF MonitorStep
<1>4. IntentsKept
  BY MonitorIntents
<1>5. RowsFit' /\ OutsideFits' /\ VenueInv' /\ WorkersFit'
  BY <1>1, <1>3, <1>4 DEF RowsFit, OutsideFits, VenueInv, WorkersFit, IntentsKept, Fits
<1>6. SendInv'
  BY <1>1, <1>4, SendsStay
<1> QED BY <1>2, <1>5, <1>6, LedgerStep

\* The venue, the clocks and the operators.
LEMMA WorldStepHolds ==
    ASSUME EntryInv, VenueStep \/ ControlStep
    PROVE  EntryInv' /\ [LedgerNext]_ledgerVars
<1> USE DEF EntryInv
<1>1. UNCHANGED <<ledgerVars, intent, cover, worker, monitor, posts, crashes>>
  BY Zenon DEF VenueStep, VenueAccept, VenueRefuse, VenueFill, VenueCancel, VenueExit, SetVenue,
     ControlStep, FlipKill, FlipPause, Stale, Control, LeaseLapse, outsideVars
<1>2. venue' \in [Oids -> VenueOrders] /\ VenueInv'
  <2>1. CASE ControlStep
    <3>1. UNCHANGED venue
      BY <2>1, Zenon DEF ControlStep, FlipKill, FlipPause, Stale, Control, LeaseLapse, outsideVars
    <3> QED BY <3>1 DEF RowsFit, VenueInv
  <2> QED BY <2>1, VenueStepFits
<1>3. dispatch' \in [Dispatches -> DispatchRows]
  <2>1. ASSUME NEW d \in Dispatches, LeaseLapse(d)
        PROVE  dispatch' \in [Dispatches -> DispatchRows]
    <3>1. dispatch' = [dispatch EXCEPT ![d].leased = FALSE]
      BY <2>1, Zenon DEF LeaseLapse
    <3> QED BY <3>1, LeaseFits DEF RowsFit
  <2>2. CASE ~ \E d \in Dispatches : LeaseLapse(d)
    <3>1. UNCHANGED dispatch
      BY <2>2, Zenon DEF VenueStep, VenueAccept, VenueRefuse, VenueFill, VenueCancel, VenueExit,
         SetVenue, ControlStep, FlipKill, FlipPause, Stale, Control
    <3> QED BY <3>1 DEF RowsFit
  <2> QED BY <2>1, <2>2
<1>4. fresh' \subseteq Dispatches /\ killed' \in BOOLEAN /\ paused' \in BOOLEAN
  <2>1. CASE VenueStep \/ \E d \in Dispatches : LeaseLapse(d)
    <3>1. UNCHANGED <<fresh, killed, paused>>
      BY <2>1, Zenon DEF VenueStep, VenueAccept, VenueRefuse, VenueFill, VenueCancel, VenueExit,
         SetVenue, LeaseLapse, outsideVars
    <3> QED BY <3>1 DEF OutsideFits
  <2>2. CASE FlipKill \/ FlipPause \/ \E d \in Dispatches : Stale(d)
    <3>1. CASE FlipKill
      BY <3>1 DEF FlipKill, Control, OutsideFits
    <3>2. CASE FlipPause
      BY <3>2 DEF FlipPause, Control, OutsideFits
    <3>3. CASE \E d \in Dispatches : Stale(d)
      BY <3>3 DEF Stale, Control, OutsideFits
    <3> QED BY <2>2, <3>1, <3>2, <3>3
  <2> QED BY <2>1, <2>2 DEF ControlStep
<1>5. IntentsKept
  BY <1>1, SameIntents
<1>6. RowsFit' /\ OutsideFits' /\ WorkersFit' /\ LedgerInv'
  BY <1>1, <1>2, <1>3, <1>4, LedgerStep DEF RowsFit, OutsideFits, WorkersFit, Fits
<1>7. SendInv'
  BY <1>1, <1>5, SendsStay
<1> QED BY <1>1, <1>2, <1>6, <1>7

\* Every step keeps the invariant, and is a transaction of the ledger or none.
LEMMA EntryStepHolds ==
    ASSUME EntryInv, [EntryNext]_entryVars
    PROVE  EntryInv' /\ [LedgerNext]_ledgerVars
<1>1. CASE UNCHANGED entryVars
  <2>1. UNCHANGED <<ledgerVars, dispatch, intent, cover, venue, worker, monitor, fresh, killed,
                    paused, posts, crashes>>
    BY <1>1 DEF entryVars
  <2>2. IntentsKept
    BY <2>1, SameIntents DEF EntryInv
  <2>3. SendInv'
    BY <2>1, <2>2, SendsStay DEF EntryInv
  <2> QED BY <2>1, <2>3, LedgerStep
          DEF EntryInv, WorkersFit, Fits, RowsFit, OutsideFits, VenueInv
<1> QED BY <1>1, WorkerStepHolds, MonitorStepHolds, WorldStepHolds DEF EntryNext

-----------------------------------------------------------------------------
\* No order is journaled, sent or filled when the system starts.
LEMMA EntryInitHolds == EntryInit => EntryInv
<1> SUFFICES ASSUME EntryInit PROVE EntryInv
  OBVIOUS
<1>1. LedgerInv
  BY LedgerInitHolds DEF EntryInit
<1>2. WorkersFit
  <2>1. worker = [w \in Workers |-> AtRest]
    BY Zenon DEF EntryInit
  <2>2. worker \in [Workers -> WorkerRecords]
    BY <2>1, RestFits, Zenon
  <2>3. \A w \in Workers : worker[w] = AtRest
    BY <2>1, Zenon
  <2> QED BY <2>2, <2>3, RestFits DEF WorkersFit
<1>3. 0 \in 0..Qty /\ 0 < Qty
  BY DEF EntryAssumption
<1>4. dispatch \in [Dispatches -> DispatchRows]
  <2>1. \A d \in Dispatches :
          [state |-> IF d \in Manual THEN "absent" ELSE "QUEUED",
           reason |-> "none", leased |-> FALSE] \in DispatchRows
    <3>1. "absent" \in DispatchStates /\ "QUEUED" \in DispatchStates
      BY DEF DispatchStates, EntryStates
    <3>2. "none" \in DispatchReasons
      BY DEF DispatchReasons
    <3> QED BY <3>1, <3>2, Zenon DEF DispatchRows
  <2> QED BY <2>1, Zenon DEF EntryInit
<1>5. /\ intent \in [Oids -> IntentRows]
      /\ \A o \in Oids : intent[o].state = "none"
  <2>1. "none" \in IntentStates
    BY DEF IntentStates
  <2> DEFINE i == [state |-> "none", filled |-> 0, known |-> FALSE, closed |-> FALSE]
  <2>2. i \in IntentRows /\ i.state = "none"
    BY <1>3, <2>1, Zenon DEF IntentRows
  <2>3. intent = [o \in Oids |-> i]
    BY Zenon DEF EntryInit
  <2> HIDE DEF i
  <2> QED BY <2>2, <2>3, Zenon
<1>6. /\ venue \in [Oids -> VenueOrders]
      /\ VenueInv
  <2> DEFINE v == [order |-> "none", filled |-> 0, exit |-> "none"]
  <2>1. v \in VenueOrders /\ v.filled = 0
    BY <1>3, Zenon DEF VenueOrders
  <2>2. venue = [o \in Oids |-> v]
    BY Zenon DEF EntryInit
  <2> HIDE DEF v
  <2>3. venue \in [Oids -> VenueOrders] /\ \A o \in Oids : venue[o].filled = 0
    BY <2>1, <2>2, Zenon
  <2> QED BY <1>3, <2>3 DEF VenueInv
<1>7. cover \in [Oids -> {"none", "venue", "local"}]
  BY DEF EntryInit
<1>8. OutsideFits
  <2>1. monitor = MonitorIdle /\ fresh = Dispatches /\ killed = FALSE /\ paused = FALSE
        /\ crashes = 0
    BY Zenon DEF EntryInit
  <2> QED BY <2>1 DEF OutsideFits
<1>9. SendInv
  <2>1. posts = [o \in Oids |-> 0]
    BY Zenon DEF EntryInit
  <2>2. \A w \in Workers : worker[w] = AtRest
    BY Zenon DEF EntryInit
  <2> QED BY <2>1, <2>2, RestFits DEF SendInv, Sender, SenderPcs
<1> QED BY <1>1, <1>2, <1>4, <1>5, <1>6, <1>7, <1>8, <1>9 DEF EntryInv, RowsFit

\* The inductive invariant of the entry lifecycle: types, what a place in the code says of the
\* record at it, a resting order has room for a fill, and the licence to send.
THEOREM EntryInvariant == EntrySpec => []EntryInv
<1>1. EntryInv /\ [EntryNext]_entryVars => EntryInv'
  BY EntryStepHolds
<1> QED BY <1>1, EntryInitHolds, PTL DEF EntrySpec

\* Every row of the dispatcher and every local record of a worker stays in its range.
THEOREM EntryTypeCorrect == EntrySpec => []EntryTypeOK
<1>1. EntryInv => EntryTypeOK
  BY DEF EntryInv, EntryTypeOK, LedgerInv, WorkersFit, RowsFit, OutsideFits, SendInv
<1> QED BY <1>1, EntryInvariant, PTL

\* A client order id is POSTed at most once, whatever crashes, lapsed leases, ambiguous answers
\* and concurrent workers come between: submit and _try_claim_entry.
THEOREM OrderIsSentOnce == EntrySpec => []AtMostOnePost
<1>1. EntryInv => AtMostOnePost
  BY DEF EntryInv, SendInv, AtMostOnePost
<1> QED BY <1>1, EntryInvariant, PTL

\* The dispatcher, the monitor and the recovery write the margin ledger only through its own
\* transactions: the entry lifecycle implements MarginLedger.
THEOREM EntryRefinesLedger == EntrySpec => LedgerSpec
<1>1. EntryInit => LedgerInit
  BY Zenon DEF EntryInit
<1>2. EntryInv /\ [EntryNext]_entryVars => [LedgerNext]_ledgerVars
  BY EntryStepHolds
<1> QED BY <1>1, <1>2, EntryInvariant, PTL DEF EntrySpec, LedgerSpec

\* So what the ledger guarantees of every client holds of this one: a symbol has one owner.
THEOREM EntryKeepsOneOwner == EntrySpec => []OneOwnerPerSymbol
BY EntryRefinesLedger, SymbolHasOneOwner, PTL

\* And margin that backs a fill goes only by a verified close.
THEOREM EntryKeepsFillMargin == EntrySpec => ExposureNeedsVerifiedClose
BY EntryRefinesLedger, FillsKeepMargin, PTL

-----------------------------------------------------------------------------
(* Quotients *)

\* A quotient of natural numbers, times the divisor, is at most the dividend.
LEMMA QuotientIsBelow ==
    ASSUME NEW n \in Nat, NEW d \in Nat \ {0}
    PROVE  n \div d \in Nat /\ (n \div d) * d <= n
  BY SMT

\* DownTo of a whole number does not exceed it.
LEMMA DownToOne ==
    ASSUME NEW n \in Nat, NEW step \in Nat \ {0}
    PROVE  /\ DownTo(n, 1, step) \in Nat /\ DownTo(n, 1, step) <= n
           /\ \E k \in Nat: DownTo(n, 1, step) = k * step
<1>1. n \div step \in Nat /\ (n \div step) * step <= n
  BY QuotientIsBelow
<1>2. PICK k \in Nat : k = n \div step
  BY <1>1
<1>3. DownTo(n, 1, step) = k * step /\ k * step \in Nat
  BY <1>2 DEF DownTo
<1> QED BY <1>1, <1>2, <1>3

\* DownTo is a multiple of its step, and does not exceed the fraction.
LEMMA DownToIsBelow ==
    ASSUME NEW num \in Nat, NEW den \in Nat \ {0}, NEW step \in Nat \ {0}
    PROVE  /\ DownTo(num, den, step) \in Nat
           /\ DownTo(num, den, step) * den <= num
           /\ \E k \in Nat: DownTo(num, den, step) = k * step
<1>1. den * step \in Nat \ {0}
  BY SMT
<1>2. num \div (den * step) \in Nat /\ (num \div (den * step)) * (den * step) <= num
  BY <1>1, QuotientIsBelow
<1>3. PICK k \in Nat : k = num \div (den * step)
  BY <1>2
<1>4. DownTo(num, den, step) = k * step
  BY <1>3 DEF DownTo
<1>5. k * (den * step) <= num /\ k * step \in Nat
  BY <1>2, <1>3
<1>6. (k * step) * den = k * (den * step)
  BY SMT
<1> QED BY <1>4, <1>5, <1>6

\* Rounding to the tick gives a natural number, which is rounded to itself.
LEMMA NearestIsStable ==
    ASSUME NEW num \in Nat, NEW tick \in Nat \ {0}
    PROVE  /\ Nearest(num, 1, tick) \in Nat
           /\ Nearest(Nearest(num, 1, tick), 1, tick) = Nearest(num, 1, tick)
<1>1. 2 * num + tick \in Nat /\ 2 * tick \in Nat \ {0}
  BY SMT
<1>2. PICK k \in Nat : k = (2 * num + tick) \div (2 * tick)
  BY <1>1, QuotientIsBelow
<1>3. Nearest(num, 1, tick) = k * tick
  BY <1>2 DEF Nearest
<1>4. k * tick \in Nat
  BY SMT
<1>5. (2 * (k * tick) + tick) \div (2 * tick) = k
  BY SMT
<1> QED BY <1>3, <1>4, <1>5 DEF Nearest

-----------------------------------------------------------------------------
(* plan_live_position *)

\* What the venue may publish of a contract.
SaneContract(c) ==
    /\ {c.tick, c.step, c.minQty, c.value, c.maxLeverage} \subseteq Nat \ {0}
    /\ {c.minNotional, c.maxQty, c.maxMarketQty} \subseteq Nat

\* Its maintenance tiers.
SaneTiers(c) == c.tiers \in Seq([bound: Nat, mmr: 0..Rate])

\* What plan_live_position may be asked.
SaneOrder(o) ==
    /\ SaneContract(o.contract) /\ o.split \in BOOLEAN
    /\ o.entry \in Nat \ {0} /\ o.cap \in 0..MarginCap /\ o.pct \in 0..100
    /\ {o.available, o.desired, o.low, o.active, o.stop} \subseteq Nat
    /\ o.direction \in Directions /\ SaneTiers(o.contract)

\* The promises about an order and a quantity at leverage l.
LegalAt(o, l, qty) ==
    /\ qty \in Nat
    /\ qty * PerQty(o) <= Lesser(MarginCap, o.available) * l
    /\ l \in Lowest..Lesser(Highest, o.contract.maxLeverage)
    /\ \E k \in Nat: qty = k * Quantum(o)
    /\ IF o.split THEN SplitLegal(o, qty)
       ELSE ChildLegal(o.contract, qty, o.entry, o.contract.maxMarketQty)
    /\ StopBeforeLiquidation(o.contract, o.direction, l, qty, o.entry, o.stop)

\* The step of an order and what one unit of it costs are positive.
LEMMA QuantumAndPrice ==
    ASSUME NEW o, SaneOrder(o)
    PROVE  Quantum(o) \in Nat \ {0} /\ PerQty(o) \in Nat \ {0}
<1>1. o.contract.step \in Nat \ {0} /\ o.entry \in Nat \ {0} /\ o.contract.value \in Nat \ {0}
      /\ o.split \in BOOLEAN
  BY DEF SaneOrder, SaneContract
<1>2. \A a, b \in Nat \ {0}: a * b \in Nat \ {0}
  BY SMT
<1>3. PerQty(o) \in Nat \ {0}
  BY <1>1, <1>2 DEF PerQty
<1>4. Quantum(o) \in Nat \ {0}
  BY <1>1 DEF Quantum
<1> QED BY <1>3, <1>4

\* What the margin buys is paid by it, and fits a market order.
LEMMA AffordableIsPaid ==
    ASSUME NEW o, SaneOrder(o), NEW l \in Nat, NEW margin \in Nat
    PROVE  /\ Affordable(o, l, margin) \in Nat
           /\ Affordable(o, l, margin) * PerQty(o) <= margin * l
           /\ ~o.split /\ o.contract.maxMarketQty # Unset =>
                 Affordable(o, l, margin) <= o.contract.maxMarketQty
<1> DEFINE c == o.contract
           bought == DownTo(margin * l, PerQty(o), Quantum(o))
           whole == DownTo(c.maxMarketQty, 1, c.step)
           market == whole * (IF o.split THEN 4 ELSE 1)
           part == DownTo(c.maxQty, 1, 3 * c.step)
           limit == 4 * (part \div 3)
           atMarket == IF c.maxMarketQty = Unset THEN bought ELSE Lesser(bought, market)
<1>1. /\ c.step \in Nat \ {0} /\ c.maxMarketQty \in Nat /\ c.maxQty \in Nat
      /\ o.split \in BOOLEAN /\ 3 * c.step \in Nat \ {0}
  BY DEF SaneOrder, SaneContract
<1>2. bought \in Nat /\ bought * PerQty(o) <= margin * l
  <2>1. margin * l \in Nat
    BY SMT
  <2> QED BY <2>1, QuantumAndPrice, DownToIsBelow
<1>3. whole \in Nat /\ whole <= c.maxMarketQty
  BY <1>1, DownToOne
<1>4. limit \in Nat
  <2>1. part \in Nat
    BY <1>1, DownToOne
  <2> HIDE DEF part
  <2> QED BY <2>1
<1>5. Affordable(o, l, margin) =
        IF o.split /\ c.maxQty # Unset THEN Lesser(atMarket, limit) ELSE atMarket
  BY DEF Affordable
<1> HIDE DEF bought, whole, part, limit
<1>6. market \in Nat /\ (~o.split => market = whole)
  BY <1>1, <1>3
<1> HIDE DEF market
<1>7. /\ atMarket \in Nat /\ atMarket <= bought
      /\ ~o.split /\ c.maxMarketQty # Unset => atMarket <= c.maxMarketQty
  BY <1>1, <1>2, <1>3, <1>6 DEF Lesser
<1> HIDE DEF atMarket
<1>8. /\ Affordable(o, l, margin) \in Nat /\ Affordable(o, l, margin) <= bought
      /\ ~o.split /\ c.maxMarketQty # Unset => Affordable(o, l, margin) <= c.maxMarketQty
  BY <1>1, <1>2, <1>4, <1>5, <1>7 DEF Lesser
<1>9. \A a, b, p, m \in Nat: a <= b /\ b * p <= m => a * p <= m
  BY SMT
<1>10. PerQty(o) \in Nat /\ margin * l \in Nat
  BY QuantumAndPrice, SMT
<1> QED BY <1>2, <1>8, <1>9, <1>10

\* A usable attempt keeps every promise, if the margin is within the cap and the balance.
LEMMA UsableAttempt ==
    ASSUME NEW o, SaneOrder(o), MarginCap \in Nat, NEW l \in LeverageBounds(o),
           NEW margin \in Nat, margin <= o.cap, margin <= o.available,
           PlanAtLeverage(o, l, margin).tag = "ok"
    PROVE  /\ PlanAtLeverage(o, l, margin).leverage = l
           /\ LegalAt(o, l, PlanAtLeverage(o, l, margin).qty)
<1> DEFINE aff == Affordable(o, l, margin)
           wanted == DownTo(aff, 1, Quantum(o))
           capped == DownTo(o.cap * l, PerQty(o), Quantum(o))
           qty == EnforceMarginCap(o, l, aff)
<1>1. /\ l \in Lowest..Lesser(Highest, o.contract.maxLeverage) /\ l \in Nat
      /\ o.cap \in Nat /\ o.cap <= MarginCap /\ o.available \in Nat /\ o.split \in BOOLEAN
      /\ o.contract.minNotional \in Nat /\ o.contract.minQty \in Nat
      /\ o.contract.maxMarketQty \in Nat
  BY DEF LeverageBounds, Greater, Lesser, Lowest, Highest, SaneOrder, SaneContract
<1>2. PlanAtLeverage(o, l, margin) =
        [leverage |-> l, qty |-> qty, tag |-> Verdict(o, l, aff, qty)]
  BY DEF PlanAtLeverage, Capped, Tried
<1>3. /\ aff \in Nat /\ aff * PerQty(o) <= margin * l
      /\ ~o.split /\ o.contract.maxMarketQty # Unset => aff <= o.contract.maxMarketQty
  BY <1>1, AffordableIsPaid
<1>4. PerQty(o) \in Nat \ {0} /\ Quantum(o) \in Nat \ {0}
  BY QuantumAndPrice
<1>5. Verdict(o, l, aff, qty) = "ok"
  BY <1>2
<1> HIDE DEF aff
<1>6. wanted \in Nat /\ wanted <= aff /\ \E k \in Nat: wanted = k * Quantum(o)
  BY <1>3, <1>4, DownToOne
<1>7. capped \in Nat /\ \E k \in Nat: capped = k * Quantum(o)
  <2>1. o.cap * l \in Nat
    BY <1>1
  <2> QED BY <1>4, <2>1, DownToIsBelow
<1>8. qty = Lesser(wanted, capped)
  BY DEF EnforceMarginCap
<1> HIDE DEF wanted, capped, qty
<1>9. qty \in Nat /\ qty <= aff /\ \E k \in Nat: qty = k * Quantum(o)
  BY <1>3, <1>6, <1>7, <1>8 DEF Lesser
<1>10. qty * PerQty(o) <= Lesser(MarginCap, o.available) * l
  <2>1. \A a, b, p, m \in Nat: a <= b /\ b * p <= m => a * p <= m
    BY SMT
  <2>2. qty * PerQty(o) <= margin * l
    <3>1. margin * l \in Nat
      BY <1>1, SMT
    <3> QED BY <1>3, <1>4, <1>9, <2>1, <3>1
  <2>3. PICK most \in Nat : most = Lesser(MarginCap, o.available)
    BY <1>1 DEF Lesser
  <2>4. margin <= most
    BY <1>1, <2>3 DEF Lesser
  <2>5. margin * l <= most * l
    BY <1>1, <2>4, SMT
  <2>6. qty * PerQty(o) \in Nat /\ margin * l \in Nat /\ most * l \in Nat
    BY <1>1, <1>4, <1>9, SMT
  <2> QED BY <2>2, <2>3, <2>5, <2>6
<1>11. /\ qty >= o.contract.minQty
       /\ o.split => SplitLegal(o, qty)
       /\ qty * PerQty(o) >= RequiredNotional(o)
       /\ StopBeforeLiquidation(o.contract, o.direction, l, qty, o.entry, o.stop)
  <2>1. qty * PerQty(o) \in Nat
    BY <1>4, <1>9, SMT
  <2>2. RequiredNotional(o) \in Nat
    <3>1. o.contract.minQty * PerQty(o) \in Nat
      BY <1>1, <1>4, SMT
    <3> QED BY <1>1, <3>1 DEF RequiredNotional, Greater
  <2>3. /\ ~(qty < o.contract.minQty) /\ ~(o.split /\ ~SplitLegal(o, qty))
        /\ ~(qty * PerQty(o) < RequiredNotional(o))
        /\ StopBeforeLiquidation(o.contract, o.direction, l, qty, o.entry, o.stop)
    BY <1>5, Zenon DEF Verdict
  <2> QED BY <1>1, <1>9, <2>1, <2>2, <2>3
<1>12. ~o.split => ChildLegal(o.contract, qty, o.entry, o.contract.maxMarketQty)
  <2>1. qty * PerQty(o) = qty * o.entry * o.contract.value
    BY <1>9, SMT DEF PerQty, SaneOrder, SaneContract
  <2>2. qty * PerQty(o) >= o.contract.minNotional
    <3>1. o.contract.minQty * PerQty(o) \in Nat /\ qty * PerQty(o) \in Nat
      BY <1>1, <1>4, <1>9, SMT
    <3> QED BY <1>1, <1>11, <3>1 DEF RequiredNotional, Greater
  <2> QED BY <1>1, <1>3, <1>9, <1>11, <2>1, <2>2 DEF ChildLegal
<1>13. LegalAt(o, l, qty)
  BY <1>1, <1>9, <1>10, <1>11, <1>12 DEF LegalAt
<1> QED BY <1>2, <1>13 DEF qty

\* A bounded set of numbers has a greatest one.
LEMMA GreatestExists ==
    ASSUME NEW N \in Nat, NEW S \in SUBSET (0..N), S # {}
    PROVE  \E m \in S: \A y \in S: y <= m
<1> DEFINE D == {N - x: x \in S}
<1>1. \A x \in S: x \in Nat /\ N - x \in Nat
  OBVIOUS
<1>2. D \subseteq Nat /\ D # {}
  BY <1>1
<1>3. PICK d \in D : \A e \in D : ~ (<<e, d>> \in OpToRel(<, Nat))
  BY <1>2, NatLessThanWellFounded, WFMin
<1>4. \A e \in D : ~ (e < d)
  BY <1>2, <1>3 DEF OpToRel
<1>5. PICK m \in S : d = N - m
  OBVIOUS
<1>6. ASSUME NEW y \in S PROVE y <= m
  <2>1. N - y \in D /\ y \in Nat /\ m \in Nat
    BY <1>1
  <2>2. ~ (N - y < N - m)
    BY <1>4, <1>5, <2>1
  <2> QED BY <2>1, <2>2
<1> QED BY <1>6

\* The plan that is selected is one of the usable attempts.
LEMMA SelectedIsUsable ==
    ASSUME NEW tried, \A t \in tried: t.leverage \in 0..Highest,
           SelectPlan(tried) # NoPlan
    PROVE  \E t \in tried: /\ t.tag = "ok"
                           /\ SelectPlan(tried) = [leverage |-> t.leverage, qty |-> t.qty]
<1> DEFINE usable == {t \in tried : t.tag = "ok"}
           best == CHOOSE t \in usable : \A u \in usable : u.leverage <= t.leverage
           L == {t.leverage: t \in usable}
<1>1. SelectPlan(tried) = IF usable = {} THEN NoPlan
                          ELSE [leverage |-> best.leverage, qty |-> best.qty]
  BY DEF SelectPlan
<1>2. usable # {}
  BY <1>1
<1>3. L \in SUBSET (0..Highest) /\ L # {} /\ Highest \in Nat
  BY <1>2 DEF Highest
<1>4. PICK m \in L : \A y \in L: y <= m
  BY <1>3, GreatestExists
<1>5. PICK t \in usable : m = t.leverage
  OBVIOUS
<1>6. \A u \in usable : u.leverage <= t.leverage
  BY <1>4, <1>5
<1>7. best \in usable
  BY <1>5, <1>6
<1> HIDE DEF best
<1> QED BY <1>1, <1>2, <1>7

\* Every plan that is accepted keeps the promises, whichever search found it.
LEMMA AcceptedPlan ==
    ASSUME NEW o, SaneOrder(o), MarginCap \in Nat, MaxNormal \in Nat,
           PlanLivePosition(o) # NoPlan
    PROVE  LegalAt(o, PlanLivePosition(o).leverage, PlanLivePosition(o).qty)
           /\ o.active < MaxNormal
<1> DEFINE first == Lesser((o.pct * o.available) \div 100, o.cap)
           second == Lesser(o.available, o.cap)
<1>1. o.cap \in Nat /\ o.available \in Nat /\ o.pct \in 0..100 /\ o.active \in Nat
  BY DEF SaneOrder
<1>2. first \in Nat /\ first <= o.cap /\ first <= o.available
  <2>1. o.pct * o.available \in Nat /\ o.pct * o.available <= 100 * o.available
    BY <1>1, SMT
  <2>2. PICK n \in Nat : n = o.pct * o.available
    BY <2>1
  <2>3. n \div 100 \in Nat /\ n \div 100 <= o.available
    BY <1>1, <2>1, <2>2
  <2> QED BY <1>1, <2>2, <2>3 DEF Lesser
<1>3. second \in Nat /\ second <= o.cap /\ second <= o.available
  BY <1>1 DEF Lesser
<1>4. /\ o.active < MaxNormal
      /\ \/ PlanLivePosition(o) = SelectPlan(Attempts(o, first))
         \/ PlanLivePosition(o) = SelectPlan(Attempts(o, second))
  BY <1>1 DEF PlanLivePosition, PlanOrAllIn
<1>5. PICK margin \in Nat : /\ margin <= o.cap /\ margin <= o.available
                            /\ PlanLivePosition(o) = SelectPlan(Attempts(o, margin))
  BY <1>2, <1>3, <1>4
<1>6. \A l \in LeverageBounds(o): l \in 0..Highest
                                  /\ PlanAtLeverage(o, l, margin).leverage = l
  <2> SUFFICES ASSUME NEW l \in LeverageBounds(o)
               PROVE  l \in 0..Highest /\ PlanAtLeverage(o, l, margin).leverage = l
    OBVIOUS
  <2>1. l \in 0..Highest
    BY DEF LeverageBounds, Greater, Lesser, Lowest, Highest, SaneOrder, SaneContract
  <2>2. PlanAtLeverage(o, l, margin).leverage = l
    BY DEF PlanAtLeverage, Capped, Tried
  <2> QED BY <2>1, <2>2
<1>7. \A t \in Attempts(o, margin): t.leverage \in 0..Highest
  BY <1>6 DEF Attempts
<1>8. PICK t \in Attempts(o, margin) :
        /\ t.tag = "ok"
        /\ PlanLivePosition(o) = [leverage |-> t.leverage, qty |-> t.qty]
  BY <1>5, <1>7, SelectedIsUsable
<1>9. PICK l \in LeverageBounds(o) : t = PlanAtLeverage(o, l, margin)
  BY DEF Attempts
<1>10. t.leverage = l /\ LegalAt(o, l, t.qty)
  BY <1>5, <1>8, <1>9, UsableAttempt
<1> QED BY <1>4, <1>8, <1>10

\* A legal quantity is on the step of its contract, and a split divides by four.
LEMMA LegalIsRouted ==
    ASSUME NEW o, SaneOrder(o), NEW plan, LegalAt(o, plan.leverage, plan.qty)
    PROVE  plan.qty % o.contract.step = 0 /\ RouteLegal(o, plan)
<1>1. o.contract.step \in Nat \ {0} /\ o.split \in BOOLEAN
  BY DEF SaneOrder, SaneContract
<1>2. PICK k \in Nat : plan.qty = k * Quantum(o)
  BY DEF LegalAt
<1>3. PICK step \in Nat \ {0} : step = o.contract.step
  BY <1>1
<1>4. CASE o.split
  <2>1. plan.qty = k * (4 * step)
    BY <1>2, <1>3, <1>4 DEF Quantum
  <2>2. /\ (k * (4 * step)) % 4 = 0 /\ (k * (4 * step)) \div 4 = k * step
    <3>1. k * step \in Nat /\ k * (4 * step) = 4 * (k * step)
      BY SMT
    <3>2. PICK m \in Nat : m = k * step
      BY <3>1
    <3>3. (4 * m) % 4 = 0 /\ (4 * m) \div 4 = m
      BY SMT
    <3> QED BY <3>1, <3>2, <3>3
  <2>3. (k * step) % step = 0 /\ (k * (4 * step)) % step = 0
    <3>1. \A n \in Nat: (n * step) % step = 0
      BY SMT
    <3>2. 4 * k \in Nat /\ k * (4 * step) = (4 * k) * step
      BY SMT
    <3> QED BY <3>1, <3>2
  <2>4. SplitLegal(o, plan.qty)
    BY <1>4 DEF LegalAt
  <2> QED BY <1>3, <2>1, <2>2, <2>3, <2>4 DEF RouteLegal
<1>5. CASE ~o.split
  <2>1. plan.qty = k * step
    BY <1>2, <1>3, <1>5 DEF Quantum
  <2>2. (k * step) % step = 0
    BY SMT
  <2> QED BY <1>3, <1>5, <2>1, <2>2 DEF RouteLegal
<1> QED BY <1>1, <1>4, <1>5

LEMMA ElementIsIn ==
    ASSUME NEW S, NEW s \in Seq(S), NEW i \in DOMAIN s PROVE s[i] \in S
  OBVIOUS

\* The tier the venue keeps a notional by is the one select_mmr takes.
LEMMA TiersAgree ==
    ASSUME NEW c, SaneTiers(c), NEW notional \in Nat, NEW i \in DOMAIN c.tiers,
           KeptBy(c, i, notional)
    PROVE  SelectMmr(c, notional) = c.tiers[i].mmr
<1> DEFINE Holds(j) == c.tiers[j].bound = Unset \/ notional <= c.tiers[j].bound
           holds == {j \in DOMAIN c.tiers: Holds(j)}
           first == CHOOSE k \in holds: \A j \in holds: k <= j
<1>1. DOMAIN c.tiers = 1..Len(c.tiers) /\ Len(c.tiers) \in Nat
  BY DEF SaneTiers
<1>2. /\ \A j \in 1..(i - 1): ~Holds(j)
      /\ Holds(i) \/ i = Len(c.tiers)
  BY DEF KeptBy
<1>3. SelectMmr(c, notional) = c.tiers[IF holds = {} THEN Len(c.tiers) ELSE first].mmr
  BY DEF SelectMmr
<1> HIDE DEF Holds
<1>4. CASE Holds(i)
  <2>1. i \in holds
    BY <1>4
  <2>2. \A j \in holds: i <= j
    BY <1>1, <1>2
  <2>3. first \in holds /\ \A j \in holds: first <= j
    BY <2>1, <2>2
  <2>4. first = i
    <3>1. first <= i /\ i <= first
      BY <2>1, <2>2, <2>3
    <3>2. first \in Int /\ i \in Int
      BY <1>1, <2>3
    <3> HIDE DEF first
    <3> QED BY <3>1, <3>2
  <2> QED BY <1>3, <2>1, <2>4
<1>5. CASE ~Holds(i)
  <2>1. i = Len(c.tiers)
    BY <1>2, <1>5
  <2>2. holds = {}
    <3> SUFFICES ASSUME NEW j \in DOMAIN c.tiers, Holds(j) PROVE FALSE
      OBVIOUS
    <3>1. j # i /\ j \in 1..i
      BY <1>1, <1>5, <2>1
    <3>2. j \in 1..(i - 1)
      BY <1>1, <3>1
    <3> QED BY <1>2, <3>2
  <2> QED BY <1>3, <2>1, <2>2
<1> QED BY <1>4, <1>5

\* The guard on ratios of the price is the guard on the money of a quantity.
LEMMA RatioIsMoney ==
    ASSUME NEW e \in Nat, NEW q \in Nat, NEW v \in Nat, NEW ahead \in Int, NEW l \in Nat,
           NEW R \in Nat, NEW B \in Nat, NEW k \in Int,
           (e * k - ahead * l * R) * R >= e * k * B
    PROVE  ahead * q * v * l * R * R <= (e * q * v) * k * (R - B)
<1> DEFINE X == ahead * l * R * R
           Y == e * k * (R - B)
           w == q * v
<1>1. X \in Int /\ Y \in Int /\ w \in Nat
  BY SMT
<1>2. X <= Y
  <2>1. (e * k - ahead * l * R) * R = e * k * R - X
    BY SMT
  <2>2. Y = e * k * R - e * k * B
    BY SMT
  <2>3. e * k * R \in Int /\ e * k * B \in Int
    BY SMT
  <2> QED BY <1>1, <2>1, <2>2, <2>3
<1>3. X * w <= Y * w
  <2> HIDE DEF X, Y, w
  <2> QED BY <1>1, <1>2, SMT
<1>4. ahead * q * v * l * R * R = X * w /\ (e * q * v) * k * (R - B) = Y * w
  BY SMT
<1> QED BY <1>3, <1>4

\* A legal quantity stops out before it is liquidated.
LEMMA LegalStopsOut ==
    ASSUME NEW o, SaneOrder(o), NEW l, NEW qty, LegalAt(o, l, qty), qty > 0
    PROVE  StopsOutFirst(o, l, qty)
<1> DEFINE c == o.contract
           notional == o.entry * qty * c.value
           ahead == Ahead(o.direction, o.entry, o.stop)
           k == LiquidationSpan(c, l, notional)
<1>1. /\ qty \in Nat \ {0} /\ l \in Nat /\ o.entry \in Nat \ {0} /\ o.stop \in Nat
      /\ c.value \in Nat \ {0} /\ o.direction \in Directions /\ SaneTiers(c)
      /\ Rate \in Nat /\ Buffer \in Nat /\ FeeRate \in Nat
  BY SizingAssumption DEF LegalAt, SaneOrder, SaneContract, Lowest
<1>2. ahead \in Int
  BY <1>1 DEF Ahead
<1>3. notional \in Nat
  BY <1>1, SMT
<1>4. /\ 0 < ahead * l * Rate
      /\ (o.entry * k - ahead * l * Rate) * Rate >= o.entry * k * Buffer
  BY DEF LegalAt, StopBeforeLiquidation
<1> HIDE DEF ahead, notional
<1>5. ahead > 0
  <2>1. \A a \in Int, b \in Nat: 0 < a * b => 0 < a
    BY SMT
  <2>2. ahead * l * Rate = ahead * (l * Rate) /\ l * Rate \in Nat
    BY <1>1, <1>2, SMT
  <2> QED BY <1>2, <1>4, <2>1, <2>2
<1>6. ahead * qty * c.value > 0
  <2>1. \A a, b \in Int: 0 < a /\ 0 < b => 0 < a * b /\ a * b \in Int
    BY SMT
  <2>2. qty \in Int /\ 0 < qty /\ c.value \in Int /\ 0 < c.value
    BY <1>1
  <2> QED BY <1>2, <1>5, <2>1, <2>2
<1>7. ASSUME NEW i \in DOMAIN c.tiers, KeptBy(c, i, notional)
      PROVE  ahead * qty * c.value * l * Rate * Rate <=
                notional * (Rate - (c.tiers[i].mmr + FeeRate) * l) * (Rate - Buffer)
  <2>1. k = Rate - (c.tiers[i].mmr + FeeRate) * l
    BY <1>1, <1>3, <1>7, TiersAgree DEF LiquidationSpan
  <2>2. c.tiers[i].mmr \in Nat
    <3>1. c.tiers[i] \in [bound: Nat, mmr: 0..Rate]
      BY <1>1, <1>7, ElementIsIn DEF SaneTiers
    <3> QED BY <3>1
  <2>3. k \in Int
    <3>1. \A a, b \in Nat: a * b \in Nat
      BY SMT
    <3>2. (c.tiers[i].mmr + FeeRate) * l \in Nat
      BY <1>1, <2>2, <3>1
    <3> QED BY <1>1, <2>1, <3>2
  <2> HIDE DEF k
  <2>4. ahead * qty * c.value * l * Rate * Rate
            <= (o.entry * qty * c.value) * k * (Rate - Buffer)
    BY <1>1, <1>2, <1>4, <2>3, RatioIsMoney
  <2> QED BY <2>1, <2>4 DEF notional
<1> QED BY <1>6, <1>7 DEF StopsOutFirst, notional, ahead

\* The venue takes every order of a legal quantity.
LEMMA LegalIsTaken ==
    ASSUME NEW o, SaneOrder(o), NEW plan, LegalAt(o, plan.leverage, plan.qty)
    PROVE  /\ plan.qty > 0
           /\ \A x \in PlacedOrders(o, plan.qty): TakenByVenue(o.contract, x)
<1> DEFINE c == o.contract
           qty == plan.qty
<1>1. /\ c.step \in Nat \ {0} /\ c.minQty \in Nat \ {0} /\ o.split \in BOOLEAN /\ qty \in Nat
  BY DEF SaneOrder, SaneContract, LegalAt
<1>2. qty % c.step = 0 /\ RouteLegal(o, plan)
  BY LegalIsRouted
<1>3. CASE ~o.split
  <2>1. ChildLegal(c, qty, o.entry, c.maxMarketQty)
    BY <1>3 DEF LegalAt
  <2> QED BY <1>1, <1>2, <1>3, <2>1 DEF ChildLegal, PlacedOrders, TakenByVenue
<1>4. CASE o.split
  <2>1. /\ qty % 4 = 0 /\ (qty \div 4) % c.step = 0
        /\ ChildLegal(c, qty \div 4, o.market, c.maxMarketQty)
        /\ ChildLegal(c, 3 * (qty \div 4), o.limit, c.maxQty)
    BY <1>2, <1>4 DEF RouteLegal, SplitLegal
  <2>2. PICK m \in Nat : m = qty \div 4
    BY <1>1
  <2>3. qty = 4 * m /\ qty - qty \div 4 = 3 * m
    BY <1>1, <2>1, <2>2
  <2>4. (3 * m) % c.step = 0
    <3>1. PICK s \in Nat \ {0} : s = c.step
      BY <1>1
    <3>2. PICK n \in Nat : n = m \div s
      BY <3>1, QuotientIsBelow
    <3>3. m = n * s
      BY <2>1, <2>2, <3>1, <3>2
    <3>4. 3 * m = (3 * n) * s /\ 3 * n \in Nat
      BY <3>3, SMT
    <3>5. \A a \in Nat: (a * s) % s = 0
      BY SMT
    <3> QED BY <3>1, <3>4, <3>5
  <2>5. PlacedOrders(o, qty) = {[qty |-> m, price |-> o.market, most |-> c.maxMarketQty],
                               [qty |-> 3 * m, price |-> o.limit, most |-> c.maxQty]}
    BY <1>4, <2>2, <2>3 DEF PlacedOrders
  <2>6. TakenByVenue(c, [qty |-> m, price |-> o.market, most |-> c.maxMarketQty])
    BY <2>1, <2>2 DEF ChildLegal, TakenByVenue
  <2>7. TakenByVenue(c, [qty |-> 3 * m, price |-> o.limit, most |-> c.maxQty])
    BY <2>1, <2>2, <2>4 DEF ChildLegal, TakenByVenue
  <2>8. m >= c.minQty
    BY <2>1, <2>2 DEF ChildLegal
  <2> QED BY <1>1, <2>3, <2>5, <2>6, <2>7, <2>8
<1> QED BY <1>1, <1>3, <1>4

\* What PlanIsLegal says of an order and its plan.
IsKept(o, plan) ==
    LET c == o.contract
        l == plan.leverage
        qty == plan.qty
    IN /\ o.entry * qty * c.value <= MarginCap * l
       /\ o.entry * qty * c.value <= o.available * l
       /\ l \in Lowest..Highest /\ l <= c.maxLeverage
       /\ \A x \in PlacedOrders(o, qty): TakenByVenue(c, x)
       /\ StopsOutFirst(o, l, qty)

\* A legal plan keeps the promises as they are said of the orders and the money.
LEMMA AcceptedIsKept ==
    ASSUME NEW o, SaneOrder(o), MarginCap \in Nat, NEW plan,
           LegalAt(o, plan.leverage, plan.qty)
    PROVE  IsKept(o, plan)
<1> DEFINE l == plan.leverage
           qty == plan.qty
<1>1. /\ l \in Lowest..Lesser(Highest, o.contract.maxLeverage) /\ qty \in Nat
      /\ qty * PerQty(o) <= Lesser(MarginCap, o.available) * l
  BY DEF LegalAt
<1>2. /\ o.contract.maxLeverage \in Nat /\ o.available \in Nat /\ o.entry \in Nat
      /\ o.contract.value \in Nat
  BY DEF SaneOrder, SaneContract
<1>3. l \in Lowest..Highest /\ l <= o.contract.maxLeverage /\ l \in Nat
  BY <1>1, <1>2 DEF Lesser, Lowest, Highest
<1>4. o.entry * qty * o.contract.value = qty * PerQty(o)
  BY <1>1, <1>2, SMT DEF PerQty
<1>5. PICK most \in Nat : most = Lesser(MarginCap, o.available)
  BY <1>2 DEF Lesser
<1>6. most <= MarginCap /\ most <= o.available
  BY <1>2, <1>5 DEF Lesser
<1>7. most * l <= MarginCap * l /\ most * l <= o.available * l
  <2>1. \A a, b, n \in Nat: a <= b => a * n <= b * n
    BY SMT
  <2> QED BY <1>2, <1>3, <1>6, <2>1
<1>8. /\ most * l \in Nat /\ MarginCap * l \in Nat /\ o.available * l \in Nat
      /\ qty * PerQty(o) \in Nat
  <2>1. \A a, b \in Nat: a * b \in Nat
    BY SMT
  <2>2. PerQty(o) \in Nat
    BY QuantumAndPrice
  <2> QED BY <1>1, <1>2, <1>3, <2>1, <2>2
<1>9. /\ o.entry * qty * o.contract.value <= MarginCap * l
      /\ o.entry * qty * o.contract.value <= o.available * l
  BY <1>1, <1>4, <1>5, <1>7, <1>8
<1>10. /\ qty > 0
       /\ \A x \in PlacedOrders(o, qty): TakenByVenue(o.contract, x)
  BY LegalIsTaken
<1>11. StopsOutFirst(o, l, qty)
  BY <1>10, LegalStopsOut
<1> QED BY <1>3, <1>9, <1>10, <1>11 DEF IsKept

-----------------------------------------------------------------------------
(* preflight *)

\* What may be asked, whatever unit it was quoted in.
Askable == [kind: EntryKinds, direction: Directions, entry: Nat, stop: Nat, target: Nat,
            margin: Nat, leverage: Nat]

\* A request in the venue's unit is a request.
LEMMA AlignedIsAsked ==
    ASSUME NEW r \in Askable, NEW market \in Nat
    PROVE  Aligned(r, market) \in Askable
<1> DEFINE s == Scale(r, market)
           entry == (r.entry * s[1]) \div s[2]
           stop == (r.stop * s[1]) \div s[2]
           target == (r.target * s[1]) \div s[2]
           scaled == [r EXCEPT !.entry = entry, !.stop = stop, !.target = target]
<1>1. Aligned(r, market) = scaled \/ Aligned(r, market) = r
  BY DEF Aligned
<1>2. s \in {<<1, 10>>, <<10, 1>>, <<1, 1>>}
  BY DEF Scale
<1>3. s[1] \in Nat /\ s[2] \in Nat \ {0}
  BY <1>2
<1> HIDE DEF s
<1>4. \A n \in Nat: (n * s[1]) \div s[2] \in Nat
  <2> SUFFICES ASSUME NEW n \in Nat PROVE (n * s[1]) \div s[2] \in Nat
    OBVIOUS
  <2>1. n * s[1] \in Nat
    BY <1>3, SMT
  <2> QED BY <1>3, <2>1, QuotientIsBelow
<1>5. r.entry \in Nat /\ r.stop \in Nat /\ r.target \in Nat
  BY DEF Askable
<1>6. entry \in Nat /\ stop \in Nat /\ target \in Nat
  BY <1>4, <1>5
<1> HIDE DEF entry, stop, target
<1>7. scaled \in Askable
  BY <1>6, Zenon DEF Askable
<1> QED BY <1>1, <1>7

\* A request whose prices clear gives orders that plan_live_position may be asked.
LEMMA OrderIsSane ==
    ASSUME NEW r \in Askable, NEW c \in Contracts, NEW s, s.price \in Nat,
           s.balance \in Accounts, s.active \in Nat, NEW split \in BOOLEAN,
           NEW price \in Nat, Nearest(price, 1, c.tick) > 0, RequestAllowed(r, c)
    PROVE  SaneOrder(Order(r, c, s, split, price))
<1> DEFINE o == Order(r, c, s, split, price)
<1>1. /\ SaneContract(c) /\ MarginCap \in Nat /\ AllocationPct \in 0..100
      /\ FixedMargin \in Nat /\ s.balance.available \in Nat /\ s.balance.equity \in Nat
      /\ DefaultLeverage \in Nat /\ MinLeverage \in Nat
  <2>1. SaneContract(c)
    BY SizingAssumption DEF SaneContract
  <2>2. s.balance.available \in Nat /\ s.balance.equity \in Nat
    <3>1. Accounts \subseteq [available: Nat, equity: Nat]
      BY SizingAssumption
    <3> QED BY <3>1
  <2>3. /\ MarginCap \in Nat /\ AllocationPct \in 0..100 /\ FixedMargin \in Nat
        /\ DefaultLeverage \in Nat /\ MinLeverage \in Nat
    <3>1. /\ {MarginCap, AllocationPct, FixedMargin} \subseteq Nat \ {0}
          /\ AllocationPct <= 100
          /\ DefaultLeverage \in Lowest..Highest /\ MinLeverage \in Lowest..Highest
      BY SizingAssumption
    <3> QED BY <3>1 DEF Lowest, Highest
  <2> QED BY <2>1, <2>2, <2>3
<1>2. Allocation(r, s.balance) \in 0..MarginCap
  <2> DEFINE budget == CASE MarginMode = "FIXED_USDT" /\ ~ByHand(r) -> FixedMargin
                         [] MarginMode = "PERCENTAGE" /\ ~ByHand(r) ->
                              (s.balance.equity * AllocationPct) \div 100
                         [] OTHER -> (s.balance.available * AllocationPct) \div 100
  <2>1. \A n \in Nat: (n * AllocationPct) \div 100 \in Nat
    <3> SUFFICES ASSUME NEW n \in Nat PROVE (n * AllocationPct) \div 100 \in Nat
      OBVIOUS
    <3>1. n * AllocationPct \in Nat
      BY <1>1, SMT
    <3> QED BY <3>1, QuotientIsBelow
  <2>2. budget \in Nat
    <3>1. \/ budget = FixedMargin \/ budget = (s.balance.equity * AllocationPct) \div 100
          \/ budget = (s.balance.available * AllocationPct) \div 100
      OBVIOUS
    <3> HIDE DEF budget
    <3> QED BY <1>1, <2>1, <3>1
  <2>3. Allocation(r, s.balance) = Lesser(budget, Lesser(s.balance.available, MarginCap))
    BY DEF Allocation
  <2> HIDE DEF budget
  <2> QED BY <1>1, <2>2, <2>3 DEF Lesser
<1>3. r.margin \in Nat /\ r.leverage \in Nat
  BY DEF Askable
<1>4. r.margin <= MarginCap
  BY DEF RequestAllowed
<1>5. o.contract = c /\ o.split = split /\ o.entry = Nearest(price, 1, c.tick)
      /\ o.available = s.balance.available /\ o.active = s.active
      /\ o.direction = r.direction /\ o.stop = Nearest(r.stop, 1, c.tick)
      /\ o.cap = (IF r.margin # Unset THEN r.margin ELSE Allocation(r, s.balance))
      /\ o.pct \in {100, AllocationPct}
      /\ o.desired \in {r.leverage, Highest, DefaultLeverage}
      /\ o.low \in {r.leverage, Lesser(MinLeverage, Highest),
                    Lesser(MinLeverage, DefaultLeverage)}
  BY DEF Order
<1> HIDE DEF o
<1>6. o.entry \in Nat \ {0}
  BY <1>1, <1>5, NearestIsStable DEF SaneContract
<1>7. o.cap \in 0..MarginCap /\ o.pct \in 0..100
  BY <1>1, <1>2, <1>3, <1>4, <1>5
<1>8. o.desired \in Nat /\ o.low \in Nat
  BY <1>1, <1>3, <1>5 DEF Lesser, Highest
<1>9. o.direction \in Directions /\ o.stop \in Nat /\ SaneTiers(c)
  <2>1. c.tick \in Nat \ {0} /\ r.stop \in Nat /\ r.direction \in Directions
    BY <1>1 DEF Askable, SaneContract
  <2>2. SaneTiers(c)
    BY SizingAssumption DEF SaneTiers
  <2> QED BY <1>5, <2>1, <2>2, NearestIsStable
<1>10. SaneOrder(o)
  BY <1>1, <1>5, <1>6, <1>7, <1>8, <1>9 DEF SaneOrder
<1> QED BY <1>10 DEF o

\* What the stages of an entry's sizing know, and the promises.
SizingInv ==
    /\ sizing.stage \in {"asked", "seen", "refused", "admitted"}
    /\ sizing.stage = "asked" => sizing.request \in Requests /\ sizing.contract \in Contracts
    /\ sizing.stage = "seen" =>
         LET r == sizing.request
             c == sizing.contract
             entry == Nearest(r.entry, 1, c.tick)
         IN  /\ r \in Askable /\ c \in Contracts
             /\ sizing.price \in Prices /\ sizing.balance \in Accounts
             /\ RequestAllowed(r, c) /\ entry > 0
             /\ Nearest(SizingPrice(r, entry, sizing.price), 1, c.tick) > 0
    /\ PlanIsLegal

\* The price an order is valued at is the market's or the signal's.
LEMMA SizingPriceIsNat ==
    ASSUME NEW r, NEW entry \in Nat, NEW market \in Nat
    PROVE  SizingPrice(r, entry, market) \in Nat
  BY DEF SizingPrice, Greater

\* Preflight admits nothing but legal plans.
LEMMA PlanEntryKeeps ==
    ASSUME SizingInv, PlanEntry
    PROVE  SizingInv'
<1>1. PICK active \in 0..MaxNormal :
        LET r == sizing.request
            c == sizing.contract
            s == [price |-> sizing.price, balance |-> sizing.balance, active |-> active]
        IN sizing' = PlanFor(r, c, OrdersFor(r, c, s, Nearest(r.entry, 1, c.tick)))
  BY DEF PlanEntry
<1> DEFINE r == sizing.request
           c == sizing.contract
           s == [price |-> sizing.price, balance |-> sizing.balance, active |-> active]
           entry == Nearest(r.entry, 1, c.tick)
           orders == OrdersFor(r, c, s, entry)
           plans == [i \in DOMAIN orders |-> PlanLivePosition(orders[i])]
<1>2. /\ r \in Askable /\ c \in Contracts /\ sizing.price \in Prices
      /\ sizing.balance \in Accounts /\ RequestAllowed(r, c) /\ entry > 0
      /\ Nearest(SizingPrice(r, entry, sizing.price), 1, c.tick) > 0
  BY DEF PlanEntry, SizingInv
<1>3. /\ sizing.price \in Nat /\ MaxNormal \in Nat /\ MarginCap \in Nat
      /\ c.tick \in Nat \ {0} /\ r.entry \in Nat
  BY <1>2, SizingAssumption DEF Askable
<1>4. s.price \in Nat /\ s.balance \in Accounts /\ s.active \in Nat /\ s.price = sizing.price
  BY <1>2, <1>3
<1>5. entry \in Nat /\ Nearest(entry, 1, c.tick) = entry
  BY <1>3, NearestIsStable
<1>6. sizing' = Outcome(r, c, orders, plans)
  BY <1>1 DEF PlanFor
<1> HIDE DEF s, entry
<1>7. SizingPrice(r, entry, s.price) \in Nat
  BY <1>4, <1>5, SizingPriceIsNat
<1>8. \A i \in DOMAIN orders: SaneOrder(orders[i])
  <2> DEFINE routed == Order(r, c, s, Splits(r, entry, s.price),
                             SizingPrice(r, entry, s.price))
             single == Order(r, c, s, FALSE, entry)
  <2>1. Splits(r, entry, s.price) \in BOOLEAN
    BY DEF Splits
  <2>2. SaneOrder(routed)
    BY <1>2, <1>4, <1>7, <2>1, OrderIsSane
  <2>3. SaneOrder(single)
    BY <1>2, <1>4, <1>5, OrderIsSane
  <2>4. orders = <<routed, single>> \/ orders = <<routed>>
    BY DEF OrdersFor
  <2> HIDE DEF orders, routed, single
  <2>5. /\ DOMAIN <<routed, single>> = {1, 2} /\ DOMAIN <<routed>> = {1}
        /\ <<routed, single>>[1] = routed /\ <<routed, single>>[2] = single
        /\ <<routed>>[1] = routed
    OBVIOUS
  <2>6. \A i \in DOMAIN orders: orders[i] = routed \/ orders[i] = single
    BY <2>4, <2>5
  <2> QED BY <2>2, <2>3, <2>6
<1>9. DOMAIN orders \subseteq 1..2 /\ DOMAIN plans = DOMAIN orders
  BY DEF OrdersFor
<1> HIDE DEF orders
<1> DEFINE planned == {i \in DOMAIN plans : plans[i] # NoPlan}
           i == CHOOSE i \in planned : \A j \in planned : i <= j
<1>10. CASE planned = {}
  <2>1. sizing' = [stage |-> "refused", request |-> r, contract |-> c]
    BY <1>6, <1>10 DEF Outcome
  <2>2. sizing'.stage = "refused"
    BY <2>1
  <2>3. PlanIsLegal'
    BY <2>2 DEF PlanIsLegal
  <2> QED BY <2>2, <2>3 DEF SizingInv
<1>11. CASE planned # {}
  <2>1. i \in planned
    <3>1. planned \subseteq {1, 2}
      <4>1. 1..2 = {1, 2}
        OBVIOUS
      <4> QED BY <1>9, <4>1
    <3>2. CASE 1 \in planned
      <4>1. \A j \in planned : 1 <= j
        BY <3>1
      <4> HIDE DEF planned
      <4>2. \E k \in planned : \A j \in planned : k <= j
        BY <3>2, <4>1
      <4> QED BY <4>2
    <3>3. CASE 1 \notin planned
      <4> HIDE DEF planned
      <4>1. planned = {2}
        BY <1>11, <3>1, <3>3
      <4> QED BY <4>1
    <3> QED BY <3>2, <3>3
  <2>2. sizing' = [stage |-> IF RouteLegal(orders[i], plans[i]) THEN "admitted"
                                                                ELSE "misrouted",
                   order |-> orders[i], plan |-> plans[i], request |-> r]
    BY <1>6, <1>11 DEF Outcome
  <2> HIDE DEF i
  <2>3. SaneOrder(orders[i]) /\ plans[i] = PlanLivePosition(orders[i]) /\ plans[i] # NoPlan
    BY <1>8, <1>9, <2>1
  <2>4. LegalAt(orders[i], plans[i].leverage, plans[i].qty) /\ orders[i].active < MaxNormal
    BY <1>3, <2>3, AcceptedPlan
  <2>5. plans[i].qty % orders[i].contract.step = 0 /\ RouteLegal(orders[i], plans[i])
    BY <2>3, <2>4, LegalIsRouted
  <2>6. sizing' = [stage |-> "admitted", order |-> orders[i], plan |-> plans[i], request |-> r]
    BY <2>2, <2>5
  <2> HIDE DEF plans, planned
  <2>7. sizing'.stage = "admitted" /\ sizing'.order = orders[i] /\ sizing'.plan = plans[i]
    BY <2>6
  <2>8. IsKept(orders[i], plans[i])
    BY <1>3, <2>3, <2>4, AcceptedIsKept
  <2>9. PlanIsLegal'
    BY <2>4, <2>7, <2>8 DEF PlanIsLegal, IsKept
  <2> QED BY <2>7, <2>9 DEF SizingInv
<1> QED BY <1>10, <1>11

\* The stages of the sizing are kept by every step.
THEOREM SizingInvariant == SizingSpec => []SizingInv
<1>1. SizingInit => SizingInv
  <2> SUFFICES ASSUME SizingInit PROVE SizingInv
    OBVIOUS
  <2>1. PICK r \in Requests, c \in Contracts :
            sizing = [stage |-> "asked", request |-> r, contract |-> c]
    BY DEF SizingInit
  <2> QED BY <2>1 DEF SizingInv, PlanIsLegal
<1>2. SizingInv /\ [SizingNext]_sizingVars => SizingInv'
  <2> SUFFICES ASSUME SizingInv, [SizingNext]_sizingVars PROVE SizingInv'
    OBVIOUS
  <2>1. CASE UNCHANGED sizingVars
    BY <2>1 DEF sizingVars, SizingInv, PlanIsLegal
  <2>2. CASE GoStale
    <3>1. sizing'.stage = "refused"
      BY <2>2 DEF GoStale
    <3> QED BY <3>1 DEF SizingInv, PlanIsLegal
  <2>3. CASE TakeSnapshot
    <3>1. PICK price \in Prices, balance \in Accounts :
            LET c == sizing.contract
                r == Aligned(sizing.request, price)
                entry == Nearest(r.entry, 1, c.tick)
                ok == /\ balance.available > 0 /\ entry > 0
                      /\ RequestAllowed(r, c)
                      /\ PricesClear(r, SizingPrice(r, entry, price), c.tick)
            IN sizing' = IF ok THEN [stage |-> "seen", request |-> r, contract |-> c,
                                     price |-> price, balance |-> balance]
                         ELSE [stage |-> "refused", request |-> r, contract |-> c]
      BY <2>3 DEF TakeSnapshot
    <3> DEFINE c == sizing.contract
               r == Aligned(sizing.request, price)
               entry == Nearest(r.entry, 1, c.tick)
               ok == /\ balance.available > 0 /\ entry > 0
                     /\ RequestAllowed(r, c)
                     /\ PricesClear(r, SizingPrice(r, entry, price), c.tick)
    <3>2. sizing.request \in Askable /\ c \in Contracts /\ price \in Nat
      BY <2>3, SizingAssumption DEF TakeSnapshot, SizingInv, Askable
    <3>3. r \in Askable
      BY <3>2, AlignedIsAsked
    <3>4. ok => Nearest(SizingPrice(r, entry, price), 1, c.tick) > 0
      BY DEF PricesClear
    <3>5. CASE ok
      <4>1. sizing' = [stage |-> "seen", request |-> r, contract |-> c,
                       price |-> price, balance |-> balance]
        BY <3>1, <3>5
      <4> HIDE DEF r, c
      <4> QED BY <3>2, <3>3, <3>4, <3>5, <4>1 DEF SizingInv, PlanIsLegal
    <3>6. CASE ~ok
      <4>1. sizing'.stage = "refused"
        BY <3>1, <3>6
      <4> QED BY <4>1 DEF SizingInv, PlanIsLegal
    <3> QED BY <3>5, <3>6
  <2> QED BY <2>1, <2>2, <2>3, PlanEntryKeeps DEF SizingNext
<1> QED BY <1>1, <1>2, PTL DEF SizingSpec

\* Every order that is admitted keeps the promises of plan_live_position, for any contract,
\* request, price and balance, and preflight never routes a plan the venue would refuse.
THEOREM PlansAreLegal == SizingSpec => []PlanIsLegal
<1>1. SizingInv => PlanIsLegal
  BY DEF SizingInv
<1> QED BY <1>1, SizingInvariant, PTL
=============================================================================
