---------------------------- MODULE MarginLedger ----------------------------
(***************************************************************************)
(* The Bitget margin reservation ledger: the rows of the table             *)
(* bitget_margin_reservations and every transaction that writes one        *)
(* (storage/balance_reservations.py, and the reservation part of           *)
(* intake/freshness.py).  One row per client order id, ever: the table is  *)
(* UNIQUE (exchange, client_order_id), so the rows are functions on the    *)
(* set of client order ids.                                                *)
(*                                                                         *)
(* Each action is one committed transaction.  The transactions are         *)
(* serialized by pg_advisory_xact_lock(hashtext('bitget')), or touch one   *)
(* row only, so a transaction is one step.  A transaction that raises      *)
(* (a unique index refuses it) rolls back and is no step at all: the       *)
(* guards RowFree and IndexAllows say when that happens.                   *)
(***************************************************************************)
EXTENDS Naturals, FiniteSets, FiniteSetsExt

CONSTANTS
    Oids,          \* client order ids
    Dispatches,    \* dispatch ids
    Symbols,       \* venue symbols
    SymbolOf,      \* the symbol of each client order id
    Margin,        \* planned_margin_usdt of each client order id
    Balances,      \* what available_balance * headroom may be at an admission
    MaxPositions   \* max_positions, the cap on simultaneously held symbols

ASSUME LedgerAssumption ==
    /\ SymbolOf \in [Oids -> Symbols]
    /\ Margin \in [Oids -> Nat]
    /\ Balances \subseteq Nat
    /\ MaxPositions \in Nat

VARIABLES
    resvState,     \* state of the row, "none" before it is inserted
    hasExposure,   \* has_exposure: a fill was reported for the order
    receipt,       \* resolution_reason is the receipt of a verified close
    holder         \* dispatch_id of the row

ledgerVars == <<resvState, hasExposure, receipt, holder>>

NoHolder == "no-dispatch"

ActiveStates == {"reserved", "unknown", "consumed"}
RowStates    == ActiveStates \cup {"released", "none"}
Outcomes     == {"ACKNOWLEDGED", "FILLED", "PARTIAL", "REJECTED", "UNKNOWN"}

Active(o) == resvState[o] \in ActiveStates

(* Client order ids whose row owns a symbol, and the owned symbols. *)
ActiveOids    == {o \in Oids : Active(o)}
OwnedSymbols  == {SymbolOf[o] : o \in ActiveOids}
CommittedMargin == MapThenSumSet(LAMBDA o : Margin[o], ActiveOids)

LedgerInit ==
    /\ resvState   = [o \in Oids |-> "none"]
    /\ hasExposure = [o \in Oids |-> FALSE]
    /\ receipt     = [o \in Oids |-> FALSE]
    /\ holder      = [o \in Oids |-> NoHolder]

-----------------------------------------------------------------------------
(* reserve: admission of a planned entry.                                  *)

(* The unique constraints an INSERT must respect: one row per client order *)
(* id, and one reserved or unknown row per dispatch.                       *)
RowFree(o, d) ==
    /\ resvState[o] = "none"
    /\ \A p \in Oids : holder[p] = d => resvState[p] \notin {"reserved", "unknown"}

(* Fault: only the provider's positions are looked at.                     *)
SymbolFreeAtVenue(o, provider) == SymbolOf[o] \notin provider

(* The symbol is owned by no row and open at no provider position.         *)
SymbolFree(o, provider) == SymbolOf[o] \notin OwnedSymbols \cup provider

(* Fault: one position too many.                                           *)
SlotFreeOffByOne(provider) ==
    Cardinality(provider) + Cardinality(OwnedSymbols \ provider) <= MaxPositions

(* Provider positions count as they are; rows count when their symbol is   *)
(* not yet visible at the provider.                                        *)
SlotFree(provider) ==
    Cardinality(provider) + Cardinality(OwnedSymbols \ provider) < MaxPositions

(* Reserved rows whose expires_at has passed become unknown in the same    *)
(* transaction, before the margin is summed; they keep their reason, if    *)
(* they have one (COALESCE).  Which rows have expired is                   *)
(* the database clock's choice.                                            *)
ExpireReserved(lapsed) ==
    resvState' = [o \in Oids |-> IF o \in lapsed THEN "unknown" ELSE resvState[o]]

ReservedOids == {o \in Oids : resvState[o] = "reserved"}

HeadroomFor(o, limit) == CommittedMargin + Margin[o] <= limit

(* An accepted admission: the expiry sweep and the new row.                *)
Reserve(o, d, provider, limit, lapsed) ==
    /\ RowFree(o, d)
    /\ SymbolFree(o, provider)
    /\ SlotFree(provider)
    /\ HeadroomFor(o, limit)
    /\ lapsed \subseteq ReservedOids
    /\ resvState' = [p \in Oids |-> IF p = o THEN "reserved"
                                    ELSE IF p \in lapsed THEN "unknown"
                                    ELSE resvState[p]]
    /\ holder' = [holder EXCEPT ![o] = d]
    /\ UNCHANGED <<hasExposure, receipt>>

(* A refusal for lack of headroom still commits the expiry sweep.          *)
ReserveRefused(o, provider, limit, lapsed) ==
    /\ SymbolFree(o, provider)
    /\ SlotFree(provider)
    /\ ~ HeadroomFor(o, limit)
    /\ lapsed \subseteq ReservedOids
    /\ ExpireReserved(lapsed)
    /\ UNCHANGED <<hasExposure, receipt, holder>>

-----------------------------------------------------------------------------
(* resolve: the outcome of an entry is applied to its row.                 *)

ReportsFill(outcome) == outcome \in {"FILLED", "PARTIAL"}

OutcomeState(outcome) ==
    IF outcome = "FILLED" THEN "consumed"
    ELSE IF outcome = "REJECTED" THEN "released"
    ELSE "unknown"

(* Fault: the has_exposure branch of the SQL CASE is missing.              *)
ResolvedForgetsExposure(state, exposed, outcome) ==
    IF state = "consumed" THEN "consumed"
    ELSE IF ReportsFill(outcome) THEN OutcomeState(outcome)
    ELSE IF state = "released" THEN "released"
    ELSE OutcomeState(outcome)

(* The SQL CASE of resolve, in its order of precedence.                    *)
Resolved(state, exposed, outcome) ==
    IF state = "consumed" THEN "consumed"
    ELSE IF ReportsFill(outcome) THEN OutcomeState(outcome)
    ELSE IF state = "released" THEN "released"
    ELSE IF outcome = "REJECTED" /\ exposed THEN "consumed"
    ELSE OutcomeState(outcome)

(* bitget_margin_reservations_symbol_owner and _active_dispatch: an UPDATE *)
(* that would give a symbol a second active row, or a dispatch a second    *)
(* reserved or unknown row, raises.                                        *)
IndexAllows(o, new) ==
    /\ new \in ActiveStates =>
           \A p \in Oids \ {o} : Active(p) => SymbolOf[p] # SymbolOf[o]
    /\ new \in {"reserved", "unknown"} =>
           \A p \in Oids \ {o} : holder[p] = holder[o] =>
               resvState[p] \notin {"reserved", "unknown"}

(* A row exists, and the new state respects the unique indexes.            *)
CanResolve(o, outcome) ==
    /\ resvState[o] # "none"
    /\ IndexAllows(o, Resolved(resvState[o], hasExposure[o], outcome))

Resolve(o, outcome) ==
    IF outcome = "ACKNOWLEDGED"
    THEN resvState[o] # "none" /\ UNCHANGED ledgerVars
    ELSE /\ CanResolve(o, outcome)
         /\ resvState' = [resvState EXCEPT
                ![o] = Resolved(resvState[o], hasExposure[o], outcome)]
         /\ hasExposure' = [hasExposure EXCEPT ![o] = @ \/ ReportsFill(outcome)]
         /\ receipt' = [receipt EXCEPT ![o] = FALSE]
         /\ UNCHANGED holder

-----------------------------------------------------------------------------
(* release_verified_close: the reservation part.  The caller proves the    *)
(* fills of the close and the flat position; the ledger itself checks that *)
(* the row is consumed and the only active row of its symbol.              *)
SoleOwner(o) == \A p \in Oids \ {o} : Active(p) => SymbolOf[p] # SymbolOf[o]

ReleaseVerifiedClose(o) ==
    /\ resvState[o] = "consumed"
    /\ SoleOwner(o)
    /\ resvState'  = [resvState EXCEPT ![o] = "released"]
    /\ receipt' = [receipt EXCEPT ![o] = TRUE]
    /\ UNCHANGED <<hasExposure, holder>>

(* expire_source_dispatch, for the dispatches one transaction retires:     *)
(* refused while a row of the dispatch may be backed by a sent order;      *)
(* otherwise its reserved rows are released.                               *)
ExpiryAllowed(d) ==
    \A o \in Oids : holder[o] = d => resvState[o] \notin {"unknown", "consumed"}

ExpireSources(ds) ==
    /\ \A d \in ds : ExpiryAllowed(d)
    /\ LET gone == {o \in ReservedOids : holder[o] \in ds} IN
       /\ resvState'  = [o \in Oids |-> IF o \in gone THEN "released" ELSE resvState[o]]
       /\ receipt' = [o \in Oids |-> o \notin gone /\ receipt[o]]
    /\ UNCHANGED <<hasExposure, holder>>

(* escalate_expired: one expired reserved row becomes unknown.             *)
EscalateExpired(o) ==
    /\ resvState[o] = "reserved"
    /\ resvState'  = [resvState EXCEPT ![o] = "unknown"]
    /\ UNCHANGED <<hasExposure, receipt, holder>>

-----------------------------------------------------------------------------
ReserveAny ==
    \E o \in Oids, d \in Dispatches, provider \in SUBSET Symbols, limit \in Balances :
        \E lapsed \in SUBSET ReservedOids :
            \/ Reserve(o, d, provider, limit, lapsed)
            \/ ReserveRefused(o, provider, limit, lapsed)

ResolveAny  == \E o \in Oids, outcome \in Outcomes : Resolve(o, outcome)
ReleaseAny  == \E o \in Oids : ReleaseVerifiedClose(o)
ExpireAny   == \E ds \in SUBSET Dispatches : ExpireSources(ds)
EscalateAny == \E o \in Oids : EscalateExpired(o)

LedgerNext == ReserveAny \/ ResolveAny \/ ReleaseAny \/ ExpireAny \/ EscalateAny

LedgerSpec == LedgerInit /\ [][LedgerNext]_ledgerVars

-----------------------------------------------------------------------------
(* Every row is absent or in one of the four states of the table's CHECK   *)
(* constraint, and the other columns are in their ranges.                  *)
LedgerTypeOK ==
    /\ resvState \in [Oids -> RowStates]
    /\ hasExposure \in [Oids -> BOOLEAN]
    /\ receipt \in [Oids -> BOOLEAN]
    /\ holder \in [Oids -> Dispatches \cup {NoHolder}]

(* At most one active row owns a symbol, however admissions, late fills,   *)
(* expiries and releases interleave: reserve's owner check and the partial *)
(* unique index together forbid two entries on one symbol.                 *)
OneOwnerPerSymbol ==
    \A o, p \in Oids :
        Active(o) /\ Active(p) /\ SymbolOf[o] = SymbolOf[p] => o = p

(* A row that has ever reported a fill keeps its margin until a verified   *)
(* close releases it: no rejection, cancellation, expiry of the source or  *)
(* escalation frees it (the has_exposure branch of resolve, and the        *)
(* reserved-only UPDATE of expire_source_dispatch).                        *)
ExposureNeedsVerifiedClose ==
    [][\A o \in Oids :
          hasExposure[o] /\ Active(o) /\ resvState'[o] \notin ActiveStates
              => receipt'[o]]_ledgerVars

(* A row is never deleted, and never moves to another dispatch: the        *)
(* UNIQUE client_order_id makes one admission per order id final.          *)
RowsAreForever ==
    [][\A o \in Oids : resvState[o] # "none" =>
          resvState'[o] # "none" /\ holder'[o] = holder[o]]_ledgerVars

(* What makes ExposureNeedsVerifiedClose inductive: a reserved row has not *)
(* reported a fill, so the two operations that touch reserved rows only    *)
(* (expiry of the source, escalation) cannot free one that has.            *)
ReservedHasNoFill == \A o \in Oids : resvState[o] \in {"none", "reserved"} => ~ hasExposure[o]
=============================================================================
