--------------------------- MODULE ConsoleProofs ---------------------------
(***************************************************************************)
(* Proofs about what the console accepts (ConsoleAccess) and what it shows *)
(* (ConsoleReads), for any passwords, sessions, previews, keys, entries    *)
(* and epochs.                                                             *)
(*                                                                         *)
(* Access rests on three bindings that no transaction undoes: a session    *)
(* has the number of its creation, a preview names the one job it became,  *)
(* and a consent the one job that it paid for.  What is shown rests on the *)
(* round of the collector that the last proof is from.                     *)
(***************************************************************************)
EXTENDS ConsoleAccess, ConsoleReads, FiniteSetTheorems, WellFoundedInduction, TLAPS

-----------------------------------------------------------------------------
(* Access: the inductive invariant.                                        *)

USE AccessAssumption

\* The tables, and what the process that serves them keeps.
AccessTypes ==
    /\ configured \in Passwords
    /\ owner \in Passwords \cup {Nil}
    /\ session \in [Sessions -> Session]
    /\ found \subseteq Sessions /\ admitted \subseteq Sessions
    /\ preview \in [Previews -> Preview]
    /\ ticket \in [Keys -> Ticket]
    /\ version \in 0..MaxVersions

\* Sessions are numbered as they are created: the next number is nobody's.
InOrder == \E n \in 0..MaxSessions: \A s \in Sessions: session[s].state # "none" <=> s <= n

\* A consent that was spent paid for a job of its own preview.
SpentRightly ==
    \A s \in Sessions: session[s].grant.job # Nil =>
        /\ ticket[session[s].grant.job].state # "none"
        /\ ticket[session[s].grant.job].preview = session[s].grant.preview

\* A job is of one preview, which names it in turn, and of a session: that of the preview or,
\* beyond tier 1, one whose consent paid for it.
JobsAreBound ==
    \A k \in Keys: ticket[k].state # "none" =>
        /\ ticket[k].preview \in Previews /\ ticket[k].session \in Sessions
        /\ preview[ticket[k].preview].by = k
        /\ session[ticket[k].session].state # "none"
        /\ Tier[ticket[k].preview] < 2 =>
              preview[ticket[k].preview].session = ticket[k].session
        /\ Tier[ticket[k].preview] >= 2 =>
              /\ session[ticket[k].session].grant.preview = ticket[k].preview
              /\ session[ticket[k].session].grant.job = k

\* A preview that became a job exists.
PreviewsLast == \A p \in Previews: preview[p].by # Nil => preview[p].state # "none"

\* The inductive invariant of the access.
AccessInv == AccessTypes /\ InOrder /\ SpentRightly /\ JobsAreBound /\ PreviewsLast

\* What a session does not lose, and does not get back: its number, its password, its end.
\* It comes back from idleness alone, and for a request that had found it.
SessionLasts(s) ==
    /\ session[s].state = "ended" => session'[s].state = "ended"
    /\ session[s].state # "none" => session'[s].state # "none"
    /\ session[s].state # "none" /\ session'[s].state = "live" =>
          /\ session'[s].epoch = session[s].epoch
          /\ session[s].state = "live" \/ (session[s].state = "idle" /\ s \in found)

\* What the theorem about sessions says of a step, and that an end is one.
NoWayBack ==
    \A s \in Sessions:
        /\ session[s].state = "ended" => session'[s].state = "ended"
        /\ session[s].state # "none" /\ ~Valid(s) /\ (Valid(s))' =>
              session[s].state = "idle" /\ s \in found

-----------------------------------------------------------------------------
(* Facts about the data.                                                   *)

\* The newest of some sessions is one of them.
LEMMA NewestIsOne ==
    ASSUME NEW S \in SUBSET Sessions, S # {}
    PROVE  Max(S) \in S
<1>1. \A x \in S: x \in Nat /\ MaxSessions - x \in Nat
  BY DEF Sessions, AccessAssumption
<1> DEFINE D == {MaxSessions - x: x \in S}
<1>2. D \subseteq Nat /\ D # {}
  BY <1>1
<1>3. PICK d \in D : \A e \in D : ~ (<<e, d>> \in OpToRel(<, Nat))
  BY <1>2, NatLessThanWellFounded, WFMin
<1>4. \A e \in D : ~ (e < d)
  BY <1>2, <1>3 DEF OpToRel
<1>5. PICK x \in S : d = MaxSessions - x
  OBVIOUS
<1>6. MaxSessions \in Nat
  BY DEF AccessAssumption
<1>7. ASSUME NEW y \in S PROVE x >= y
  <2>1. MaxSessions - y \in D /\ y \in Nat /\ x \in Nat
    BY <1>1
  <2>2. ~ (MaxSessions - y < MaxSessions - x)
    BY <1>4, <1>5, <2>1
  <2> QED BY <1>6, <2>1, <2>2
<1>8. \E m \in S : \A y \in S : m >= y
  BY <1>7
<1> QED BY <1>8 DEF Max

\* The next number is the first one that is free.
LEMMA NextIsFree ==
    ASSUME AccessTypes, InOrder
    PROVE  /\ NextId \in Nat \ {0}
           /\ \A s \in Sessions: session[s].state # "none" <=> s < NextId
<1>1. PICK n \in 0..MaxSessions :
        \A s \in Sessions: session[s].state # "none" <=> s <= n
  BY DEF InOrder
<1>2. {s \in Sessions: session[s].state # "none"} = 1..n
  BY <1>1 DEF Sessions, AccessAssumption
<1>3. Cardinality(1..n) = n
  BY FS_Interval
<1>4. NextId = n + 1
  BY <1>2, <1>3 DEF NextId
<1> QED BY <1>1, <1>4 DEF Sessions

\* The record of a session by its fields, and what becomes of it.
LEMMA SessionRecords ==
    ASSUME AccessTypes, NEW s \in Sessions
    PROVE  /\ session[s] \in Session /\ session[s].epoch \in Passwords \cup {Nil}
           /\ session[s].grant \in [preview: Previews \cup {Nil}, job: Keys \cup {Nil}]
           /\ \A to \in {"live", "idle", "ended"}: \E e \in Session:
                 /\ e = [session[s] EXCEPT !.state = to] /\ e.state = to
                 /\ e.epoch = session[s].epoch /\ e.grant = session[s].grant
<1>1. session[s] \in Session
  BY DEF AccessTypes
<1>2. /\ session[s].epoch \in Passwords \cup {Nil}
      /\ session[s].grant \in [preview: Previews \cup {Nil}, job: Keys \cup {Nil}]
  BY <1>1 DEF Session
<1>3. ASSUME NEW to \in {"live", "idle", "ended"}
      PROVE  \E e \in Session:
                /\ e = [session[s] EXCEPT !.state = to] /\ e.state = to
                /\ e.epoch = session[s].epoch /\ e.grant = session[s].grant
  <2> DEFINE e == [session[s] EXCEPT !.state = to]
  <2>1. to \in {"none", "live", "idle", "ended"}
    OBVIOUS
  <2>2. e \in Session /\ e.state = to /\ e.epoch = session[s].epoch
        /\ e.grant = session[s].grant
    BY <1>1, <2>1, Zenon DEF Session
  <2> HIDE DEF e
  <2> QED BY <2>2, Zenon DEF e
<1> QED BY <1>1, <1>2, <1>3

\* A consent is spent on a job.
LEMMA GrantSpent ==
    ASSUME AccessTypes, NEW s \in Sessions, NEW k \in Keys
    PROVE  \E e \in Session:
              /\ e = [session[s] EXCEPT !.grant.job = k]
              /\ e.state = session[s].state /\ e.epoch = session[s].epoch
              /\ e.grant.job = k /\ e.grant.preview = session[s].grant.preview
<1> DEFINE g == [session[s].grant EXCEPT !.job = k]
           e == [session[s] EXCEPT !.grant = g]
<1>1. /\ session[s] \in Session
      /\ session[s].grant \in [preview: Previews \cup {Nil}, job: Keys \cup {Nil}]
  BY SessionRecords
<1>2. /\ g \in [preview: Previews \cup {Nil}, job: Keys \cup {Nil}]
      /\ g.job = k /\ g.preview = session[s].grant.preview
  BY <1>1, Zenon
<1>3. e = [session[s] EXCEPT !.grant.job = k]
  OBVIOUS
<1> HIDE DEF g
<1>4. /\ e \in Session /\ e.state = session[s].state
      /\ e.epoch = session[s].epoch /\ e.grant = g
  BY <1>1, <1>2, Zenon DEF Session
<1> HIDE DEF e
<1> QED BY <1>2, <1>3, <1>4, Zenon

\* A job that moves on stays the job it is.
LEMMA TicketMoves ==
    ASSUME AccessTypes, NEW k \in Keys, ticket[k].state # "none",
           NEW to \in {"queued", "running", "claimed", "cleared", "done", "over"},
           ticket' = [ticket EXCEPT ![k].state = to]
    PROVE  /\ ticket' \in [Keys -> Ticket]
           /\ \A j \in Keys: /\ ticket'[j].preview = ticket[j].preview
                             /\ ticket'[j].session = ticket[j].session
                             /\ ticket'[j].state # "none" <=> ticket[j].state # "none"
           /\ ticket'[k].state = to /\ \A j \in Keys \ {k}: ticket'[j] = ticket[j]
<1> DEFINE e == [ticket[k] EXCEPT !.state = to]
<1>1. ticket \in [Keys -> Ticket] /\ ticket[k] \in Ticket
  BY DEF AccessTypes
<1>2. to \in {"none", "queued", "running", "claimed", "cleared", "done", "over"}
      /\ to # "none"
  OBVIOUS
<1>3. /\ e \in Ticket /\ e.state = to /\ e.preview = ticket[k].preview
      /\ e.session = ticket[k].session
  BY <1>1, <1>2, Zenon DEF Ticket
<1>4. ticket' = [ticket EXCEPT ![k] = e]
  BY <1>1, Zenon
<1> HIDE DEF e
<1>5. /\ ticket' \in [Keys -> Ticket] /\ ticket'[k] = e
      /\ \A j \in Keys \ {k}: ticket'[j] = ticket[j]
  BY <1>1, <1>3, <1>4
<1> QED BY <1>2, <1>3, <1>5

\* What a step leaves alone when it creates no session, no preview and no job.
Unmoved ==
    /\ \A k \in Keys: /\ ticket'[k].preview = ticket[k].preview
                      /\ ticket'[k].session = ticket[k].session
                      /\ ticket'[k].state # "none" <=> ticket[k].state # "none"
    /\ \A p \in Previews: /\ preview'[p].by = preview[p].by
                          /\ preview[p].state # "none" =>
                                /\ preview'[p].state # "none"
                                /\ preview'[p].session = preview[p].session
    /\ \A s \in Sessions: session'[s].state # "none" <=> session[s].state # "none"

\* A step that changes no owner, and after which no session is worth more than before.
Undone == owner' = owner /\ \A s \in Sessions: SessionLasts(s)

\* Such a step keeps the bindings, if a consent that it spends pays for a job of its preview.
LEMMA UnmovedKeeps ==
    ASSUME AccessInv, AccessTypes', Unmoved,
           \A s \in Sessions:
              \/ session'[s].grant = session[s].grant
              \/ /\ session[s].grant.job = Nil /\ session'[s].grant.job \in Keys
                 /\ session'[s].grant.preview = session[s].grant.preview
                 /\ ticket[session'[s].grant.job].state # "none"
                 /\ ticket[session'[s].grant.job].preview = session[s].grant.preview
    PROVE  AccessInv'
<1>1. InOrder'
  BY DEF AccessInv, InOrder, Unmoved
<1>2. SpentRightly'
  <2> SUFFICES ASSUME NEW s \in Sessions, session'[s].grant.job # Nil
               PROVE  /\ ticket'[session'[s].grant.job].state # "none"
                      /\ ticket'[session'[s].grant.job].preview = session'[s].grant.preview
    BY DEF SpentRightly
  <2>1. session'[s].grant.job \in Keys
    BY DEF AccessTypes, Session
  <2>2. /\ ticket[session'[s].grant.job].state # "none"
        /\ ticket[session'[s].grant.job].preview = session'[s].grant.preview
    BY DEF AccessInv, SpentRightly
  <2> QED BY <2>1, <2>2 DEF Unmoved
<1>3. JobsAreBound'
  <2> SUFFICES ASSUME NEW k \in Keys, ticket'[k].state # "none"
               PROVE  /\ ticket'[k].preview \in Previews /\ ticket'[k].session \in Sessions
                      /\ preview'[ticket'[k].preview].by = k
                      /\ session'[ticket'[k].session].state # "none"
                      /\ Tier[ticket'[k].preview] < 2 =>
                            preview'[ticket'[k].preview].session = ticket'[k].session
                      /\ Tier[ticket'[k].preview] >= 2 =>
                            /\ session'[ticket'[k].session].grant.preview = ticket'[k].preview
                            /\ session'[ticket'[k].session].grant.job = k
    BY DEF JobsAreBound
  <2>1. PICK p \in Previews, s \in Sessions :
          /\ ticket[k].preview = p /\ ticket[k].session = s
          /\ ticket'[k].preview = p /\ ticket'[k].session = s
          /\ preview[p].by = k /\ session[s].state # "none"
          /\ Tier[p] < 2 => preview[p].session = s
          /\ Tier[p] >= 2 => session[s].grant.preview = p /\ session[s].grant.job = k
    BY DEF AccessInv, JobsAreBound, Unmoved
  <2>2. k # Nil
    BY AccessAssumption
  <2>3. preview'[p].by = k /\ preview'[p].session = preview[p].session
    BY <2>1, <2>2 DEF AccessInv, PreviewsLast, Unmoved
  <2>4. Tier[p] >= 2 => session'[s].grant.preview = p /\ session'[s].grant.job = k
    BY <2>1, <2>2
  <2>5. session'[s].state # "none"
    BY <2>1 DEF Unmoved
  <2> QED BY <2>1, <2>3, <2>4, <2>5
<1>4. PreviewsLast'
  BY DEF AccessInv, PreviewsLast, Unmoved
<1> QED BY <1>1, <1>2, <1>3, <1>4 DEF AccessInv

\* While sessions stay, so does what they are worth.
LEMMA SameSessions ==
    ASSUME UNCHANGED <<owner, session>>
    PROVE  Undone
BY DEF Undone, SessionLasts

\* A session ends, sits idle, or is refreshed for a request that had found it.
LEMMA SessionMoves ==
    ASSUME AccessInv, NEW s \in Sessions, session[s].state # "none",
           NEW to \in {"live", "idle", "ended"},
           to = "live" => session[s].state = "idle" /\ s \in found,
           to = "idle" => session[s].state = "live",
           session' = [session EXCEPT ![s].state = to],
           UNCHANGED <<configured, owner, preview, ticket, version>>,
           found' \subseteq Sessions, admitted' \subseteq Sessions
    PROVE  AccessInv' /\ Undone
<1>0. to # "none"
  OBVIOUS
<1>1. PICK e \in Session :
        /\ e = [session[s] EXCEPT !.state = to] /\ e.state = to
        /\ e.epoch = session[s].epoch /\ e.grant = session[s].grant
  BY SessionRecords DEF AccessInv
<1>2. session \in [Sessions -> Session]
  BY DEF AccessInv, AccessTypes
<1>3. session' = [session EXCEPT ![s] = e]
  BY <1>1, <1>2, Zenon
<1>4. /\ session' \in [Sessions -> Session] /\ session'[s] = e
      /\ \A t \in Sessions \ {s}: session'[t] = session[t]
  BY <1>2, <1>3
<1>5. AccessTypes'
  BY <1>4 DEF AccessInv, AccessTypes
<1>6. Unmoved /\ \A t \in Sessions: session'[t].grant = session[t].grant
  BY <1>0, <1>1, <1>4 DEF Unmoved
<1>7. Undone
  BY <1>0, <1>1, <1>4 DEF Undone, SessionLasts
<1> QED BY <1>5, <1>6, <1>7, UnmovedKeeps

-----------------------------------------------------------------------------
(* Sessions.                                                               *)

\* Login: every session that goes on is of the password that is now the owner's.
LEMMA LoginKeeps ==
    ASSUME AccessInv, NEW old \in Sessions \cup {0}, Login(old)
    PROVE  AccessInv' /\ NoWayBack
<1>0. /\ session \in [Sessions -> Session] /\ configured \in Passwords
      /\ UNCHANGED <<configured, found, admitted, preview, ticket, version>>
      /\ owner' = configured
  BY DEF AccessInv, AccessTypes, Login
<1>1. PICK n \in Sessions :
        /\ n = NextId /\ \A s \in Sessions: session[s].state # "none" <=> s < n
  BY NextIsFree DEF AccessInv, Login
<1> DEFINE new == [state |-> "live", epoch |-> configured, grant |-> NoGrant]
<1>2. new \in Session /\ new.state = "live" /\ new.grant.job = Nil
  BY <1>0 DEF Session, NoGrant
<1> DEFINE Cut(s) == session[s].state \in {"live", "idle"} /\ (Outdated(s) \/ s = old)
           Ended(s) == [session[s] EXCEPT !.state = "ended"]
<1>3. session' = [s \in Sessions |-> CASE s = n -> new
                                       [] Cut(s) -> Ended(s)
                                       [] OTHER -> session[s]]
  BY <1>1 DEF Login
<1> HIDE DEF new, Cut, Ended
<1>4. session'[n] = new
  <2>1. ~Cut(n)
    BY <1>1 DEF Cut, Sessions
  <2> QED BY <1>3, <2>1
<1>5. ASSUME NEW s \in Sessions, s # n
      PROVE  /\ session'[s] \in Session /\ session'[s].grant = session[s].grant
             /\ session'[s].state # "none" <=> session[s].state # "none"
             /\ session[s].state = "ended" => session'[s].state = "ended"
             /\ session'[s].state = "live" => session[s].state = "live" /\ Valid(s)
  <2>1. PICK e \in Session :
          /\ e = [session[s] EXCEPT !.state = "ended"] /\ e.state = "ended"
          /\ e.grant = session[s].grant
    BY SessionRecords DEF AccessInv
  <2>2. CASE Cut(s)
    <3>1. session'[s] = Ended(s)
      BY <1>3, <1>5, <2>2
    <3>2. session'[s] = e
      BY <2>1, <3>1 DEF Ended
    <3> QED BY <2>1, <2>2, <3>2 DEF Cut
  <2>3. CASE ~Cut(s)
    <3>1. session'[s] = session[s]
      BY <1>3, <1>5, <2>3
    <3> QED BY <1>0, <2>3, <3>1 DEF Outdated, Valid, Cut
  <2> QED BY <2>2, <2>3
<1>6. session' \in [Sessions -> Session]
  <2>1. \A s \in Sessions: session'[s] \in Session
    BY <1>2, <1>4, <1>5
  <2> QED BY <1>3, <2>1
<1>7. AccessTypes'
  BY <1>0, <1>6 DEF AccessInv, AccessTypes
<1>8. InOrder'
  <2>1. \A s \in Sessions: session'[s].state # "none" <=> s <= n
    BY <1>1, <1>2, <1>4, <1>5 DEF Sessions, AccessAssumption
  <2>2. n \in 0..MaxSessions
    BY DEF Sessions
  <2> QED BY <2>1, <2>2 DEF InOrder
<1>9. SpentRightly'
  BY <1>0, <1>2, <1>4, <1>5 DEF AccessInv, SpentRightly
<1>10. JobsAreBound' /\ PreviewsLast'
  <2>1. session[n].state = "none"
    BY <1>1 DEF Sessions
  <2>2. ASSUME NEW k \in Keys, ticket'[k].state # "none"
        PROVE  /\ ticket'[k].preview \in Previews /\ ticket'[k].session \in Sessions
               /\ preview'[ticket'[k].preview].by = k
               /\ session'[ticket'[k].session].state # "none"
               /\ Tier[ticket'[k].preview] < 2 =>
                     preview'[ticket'[k].preview].session = ticket'[k].session
               /\ Tier[ticket'[k].preview] >= 2 =>
                     /\ session'[ticket'[k].session].grant.preview = ticket'[k].preview
                     /\ session'[ticket'[k].session].grant.job = k
    <3>1. /\ ticket'[k] = ticket[k] /\ preview' = preview
          /\ ticket[k].preview \in Previews /\ ticket[k].session \in Sessions
          /\ preview[ticket[k].preview].by = k
          /\ session[ticket[k].session].state # "none"
          /\ Tier[ticket[k].preview] < 2 =>
                preview[ticket[k].preview].session = ticket[k].session
          /\ Tier[ticket[k].preview] >= 2 =>
                /\ session[ticket[k].session].grant.preview = ticket[k].preview
                /\ session[ticket[k].session].grant.job = k
      BY <1>0, <2>2 DEF AccessInv, JobsAreBound
    <3>2. ticket[k].session # n
      BY <2>1, <3>1
    <3> QED BY <1>5, <3>1, <3>2
  <2> QED BY <1>0, <2>2 DEF AccessInv, JobsAreBound, PreviewsLast
<1>11. NoWayBack
  <2>1. session[n].state = "none"
    BY <1>1 DEF Sessions
  <2> QED BY <1>5, <2>1 DEF Valid, NoWayBack
<1> QED BY <1>7, <1>8, <1>9, <1>10, <1>11 DEF AccessInv

\* Consent: one session ends, and one with its own number begins.
LEMMA ConsentKeeps ==
    ASSUME AccessInv, NEW s \in Sessions, NEW p \in Previews, Consent(s, p)
    PROVE  AccessInv' /\ Undone
<1>0. /\ session \in [Sessions -> Session] /\ Valid(s)
      /\ found' \subseteq Sessions /\ admitted' \subseteq Sessions
      /\ UNCHANGED <<configured, owner, preview, ticket, version>>
      /\ owner \in Passwords \cup {Nil}
  BY DEF AccessInv, AccessTypes, Consent, Served
<1>1. PICK n \in Sessions :
        /\ n = NextId /\ \A t \in Sessions: session[t].state # "none" <=> t < n
  BY NextIsFree DEF AccessInv, Consent
<1>2. PICK e \in Session :
        /\ e = [session[s] EXCEPT !.state = "ended"] /\ e.state = "ended"
        /\ e.epoch = session[s].epoch /\ e.grant = session[s].grant
  BY SessionRecords DEF AccessInv
<1> DEFINE new == [state |-> "live", epoch |-> owner, grant |-> [preview |-> p, job |-> Nil]]
<1>3. new \in Session /\ new.state = "live" /\ new.grant.job = Nil
  BY <1>0 DEF Session
<1>4. session[n].state = "none" /\ n # s
  BY <1>0, <1>1 DEF Valid, Sessions
<1>5. session' = [session EXCEPT ![s] = e, ![n] = new]
  <2>1. session' = [session EXCEPT ![s].state = "ended", ![n] = new]
    BY <1>1, Zenon DEF Consent
  <2> QED BY <1>0, <1>2, <2>1, Zenon
<1> HIDE DEF new
<1>6. /\ session' \in [Sessions -> Session] /\ session'[s] = e /\ session'[n] = new
      /\ \A t \in Sessions \ {s, n}: session'[t] = session[t]
  BY <1>0, <1>3, <1>4, <1>5
<1>7. AccessTypes'
  BY <1>0, <1>6 DEF AccessInv, AccessTypes
<1>8. InOrder'
  <2>1. \A t \in Sessions: session'[t].state # "none" <=> t <= n
    <3>1. \A t \in Sessions \ {n}: session'[t].state # "none" <=> session[t].state # "none"
      BY <1>0, <1>2, <1>6 DEF Valid
    <3>2. \A t \in Sessions \ {n}: session'[t].state # "none" <=> t < n
      BY <1>1, <3>1
    <3> QED BY <1>3, <1>6, <3>2 DEF Sessions, AccessAssumption
  <2>2. n \in 0..MaxSessions
    BY DEF Sessions
  <2> QED BY <2>1, <2>2 DEF InOrder
<1>9. SpentRightly'
  <2>1. \A t \in Sessions \ {n}: session'[t].grant = session[t].grant
    BY <1>2, <1>6
  <2>2. session'[n].grant.job = Nil
    BY <1>3, <1>6
  <2> QED BY <1>0, <2>1, <2>2 DEF AccessInv, SpentRightly
<1>10. JobsAreBound' /\ PreviewsLast'
  <2>1. \A t \in Sessions \ {n}: /\ session'[t].grant = session[t].grant
                                 /\ session[t].state # "none" => session'[t].state # "none"
    BY <1>2, <1>6
  <2>2. ASSUME NEW k \in Keys, ticket[k].state # "none"
        PROVE  /\ session'[ticket[k].session].grant = session[ticket[k].session].grant
               /\ session'[ticket[k].session].state # "none"
    <3>1. ticket[k].session \in Sessions \ {n} /\ session[ticket[k].session].state # "none"
      BY <1>4, <2>2 DEF AccessInv, JobsAreBound
    <3> QED BY <2>1, <3>1
  <2> QED BY <1>0, <2>2 DEF AccessInv, JobsAreBound, PreviewsLast
<1>11. Undone
  BY <1>0, <1>2, <1>4, <1>6 DEF Undone, SessionLasts
<1> QED BY <1>7, <1>8, <1>9, <1>10, <1>11 DEF AccessInv

\* Redeploy, a request that starts, and the resource: nothing is created.
LEMMA QuietKeeps ==
    ASSUME AccessInv,
           \/ Redeploy \/ ChangeResource
           \/ \E s \in Sessions: FindSession(s) \/ (AdmitRequest(s) /\ ~Refreshes(s))
    PROVE  AccessInv' /\ Undone
<1>1. UNCHANGED <<owner, session, preview, ticket>>
  BY DEF Redeploy, ChangeResource, FindSession, AdmitRequest
<1>2. AccessTypes'
  BY <1>1 DEF AccessInv, AccessTypes, Redeploy, ChangeResource, FindSession, AdmitRequest,
               AccessAssumption
<1>3. Unmoved /\ Undone
  BY <1>1 DEF Unmoved, Undone, SessionLasts
<1> QED BY <1>1, <1>2, <1>3, UnmovedKeeps

-----------------------------------------------------------------------------
(* Previews and jobs.                                                      *)

\* A preview's record by its fields, and what becomes of it.
LEMMA PreviewRecords ==
    ASSUME AccessTypes, NEW p \in Previews
    PROVE  /\ preview[p] \in Preview /\ preview[p].by \in Keys \cup {Nil}
           /\ \A to \in {"fresh", "expired"}: \E e \in Preview:
                 /\ e = [preview[p] EXCEPT !.state = to]
                 /\ e.state = to /\ e.by = preview[p].by /\ e.session = preview[p].session
           /\ \A k \in Keys: \E e \in Preview:
                 /\ e = [preview[p] EXCEPT !.by = k]
                 /\ e.state = preview[p].state /\ e.by = k /\ e.session = preview[p].session
<1>1. preview[p] \in Preview
  BY DEF AccessTypes
<1>2. ASSUME NEW to \in {"fresh", "expired"}
      PROVE  \E e \in Preview: /\ e = [preview[p] EXCEPT !.state = to]
                               /\ e.state = to /\ e.by = preview[p].by
                               /\ e.session = preview[p].session
  <2> DEFINE e == [preview[p] EXCEPT !.state = to]
  <2>1. e \in Preview /\ e.state = to /\ e.by = preview[p].by
        /\ e.session = preview[p].session
    BY <1>1, Zenon DEF Preview
  <2> QED BY <2>1, Zenon
<1>3. ASSUME NEW k \in Keys
      PROVE  \E e \in Preview: /\ e = [preview[p] EXCEPT !.by = k]
                               /\ e.state = preview[p].state /\ e.by = k
                               /\ e.session = preview[p].session
  <2> DEFINE e == [preview[p] EXCEPT !.by = k]
  <2>1. e \in Preview /\ e.state = preview[p].state /\ e.by = k
        /\ e.session = preview[p].session
    BY <1>1, Zenon DEF Preview
  <2> QED BY <2>1, Zenon
<1> QED BY <1>1, <1>2, <1>3 DEF Preview

\* StorePreview and EndPreview: the preview and its job stay each other's.
LEMMA PreviewMoves ==
    ASSUME AccessInv, NEW p \in Previews, StorePreview(p) \/ EndPreview(p)
    PROVE  AccessInv' /\ Undone
<1>1. PICK to \in {"fresh", "expired"} :
        /\ preview' = [preview EXCEPT ![p].state = to]
        /\ UNCHANGED <<configured, owner, session, found, admitted, ticket, version>>
  BY DEF StorePreview, EndPreview
<1>2. PICK e \in Preview :
        /\ e = [preview[p] EXCEPT !.state = to] /\ e.state = to
        /\ e.by = preview[p].by /\ e.session = preview[p].session
  <2>1. AccessTypes
    BY DEF AccessInv
  <2> QED BY <2>1, PreviewRecords
<1>3. preview \in [Previews -> Preview]
  BY DEF AccessInv, AccessTypes
<1>4. preview' = [preview EXCEPT ![p] = e]
  BY <1>1, <1>2, <1>3, Zenon
<1>5. /\ preview' \in [Previews -> Preview] /\ preview'[p] = e
      /\ \A q \in Previews \ {p}: preview'[q] = preview[q]
  BY <1>3, <1>4
<1>6. AccessTypes'
  BY <1>1, <1>5 DEF AccessInv, AccessTypes
<1>7. to # "none"
  OBVIOUS
<1>8. Unmoved /\ Undone
  BY <1>1, <1>2, <1>5, <1>7 DEF Unmoved, Undone, SessionLasts
<1> QED BY <1>1, <1>6, <1>8, UnmovedKeeps

\* PlanPreview: no job is of a preview that was not there.
LEMMA PlanPreviewKeeps ==
    ASSUME AccessInv, NEW s \in Sessions, NEW p \in Previews, PlanPreview(s, p)
    PROVE  AccessInv' /\ Undone
<1> DEFINE e == [state |-> "planned", session |-> s, version |-> version, by |-> Nil]
<1>1. /\ preview[p].state = "none" /\ preview' = [preview EXCEPT ![p] = e]
      /\ UNCHANGED <<configured, owner, session, ticket, version>>
      /\ found' \subseteq Sessions /\ admitted' \subseteq Sessions
      /\ preview \in [Previews -> Preview]
  BY DEF AccessInv, AccessTypes, PlanPreview, Served
<1>2. e \in Preview /\ e.by = Nil /\ e.state = "planned"
  BY DEF AccessInv, AccessTypes, Preview
<1> HIDE DEF e
<1>3. /\ preview' \in [Previews -> Preview] /\ preview'[p] = e
      /\ \A q \in Previews \ {p}: preview'[q] = preview[q]
  BY <1>1, <1>2
<1>4. preview[p].by = Nil
  BY <1>1 DEF AccessInv, PreviewsLast
<1>5. AccessTypes'
  BY <1>1, <1>3 DEF AccessInv, AccessTypes
<1>6. Unmoved /\ Undone
  BY <1>1, <1>2, <1>3, <1>4 DEF Unmoved, Undone, SessionLasts
<1> QED BY <1>1, <1>5, <1>6, UnmovedKeeps

\* Enqueue and BotConfirm: a key without a job gets the preview that had none.
LEMMA EnqueuedKeeps ==
    ASSUME AccessInv, NEW s \in Sessions, NEW p \in Previews, NEW k \in Keys,
           ticket[k].state = "none", MayEnqueue(s, p), Enqueued(s, p, k),
           found' \subseteq Sessions, admitted' \subseteq Sessions
    PROVE  AccessInv' /\ Undone
<1> DEFINE job == [state |-> "queued", preview |-> p, session |-> s]
<1>0. /\ AccessTypes /\ ticket \in [Keys -> Ticket] /\ preview \in [Previews -> Preview]
      /\ session \in [Sessions -> Session]
      /\ preview[p].by = Nil /\ preview[p].state = "fresh" /\ session[s].state = "live"
      /\ Tier[p] < 2 => preview[p].session = s
      /\ Tier[p] >= 2 => session[s].grant.preview = p /\ session[s].grant.job = Nil
      /\ UNCHANGED <<configured, owner, version>>
  BY DEF AccessInv, AccessTypes, MayEnqueue, MayGrant, Valid, Enqueued
<1>1. job \in Ticket /\ job.state = "queued" /\ job.preview = p /\ job.session = s
  BY DEF Ticket
<1>2. ticket' = [ticket EXCEPT ![k] = job]
  BY DEF Enqueued
<1> HIDE DEF job
<1>3. /\ ticket' \in [Keys -> Ticket] /\ ticket'[k] = job
      /\ \A j \in Keys \ {k}: ticket'[j] = ticket[j]
  BY <1>0, <1>1, <1>2
<1>4. PICK e \in Preview :
        /\ e = [preview[p] EXCEPT !.by = k] /\ e.state = preview[p].state /\ e.by = k
        /\ e.session = preview[p].session
  BY <1>0, PreviewRecords
<1>5. preview' = [preview EXCEPT ![p] = e]
  BY <1>0, <1>4, Zenon DEF Enqueued
<1>6. /\ preview' \in [Previews -> Preview] /\ preview'[p] = e
      /\ \A q \in Previews \ {p}: preview'[q] = preview[q]
  BY <1>0, <1>4, <1>5
<1>7. PICK g \in Session :
        /\ g = [session[s] EXCEPT !.grant.job = k] /\ g.state = session[s].state
        /\ g.epoch = session[s].epoch
        /\ g.grant.job = k /\ g.grant.preview = session[s].grant.preview
  BY <1>0, GrantSpent
<1>8. \/ session' = session
      \/ /\ session' = [session EXCEPT ![s] = g]
         /\ session[s].grant.preview = p /\ session[s].grant.job = Nil
  <2>1. CASE Tier[p] >= 2
    <3>1. session' = [session EXCEPT ![s] = g]
      <4>1. session' = [session EXCEPT ![s].grant.job = k]
        BY <2>1 DEF Enqueued
      <4> QED BY <1>0, <1>7, <4>1, Zenon
    <3>2. session[s].grant.preview = p /\ session[s].grant.job = Nil
      BY <2>1 DEF MayEnqueue, MayGrant
    <3> QED BY <3>1, <3>2
  <2>2. CASE ~(Tier[p] >= 2)
    BY <2>2 DEF Enqueued
  <2> QED BY <2>1, <2>2
<1>9. /\ session' \in [Sessions -> Session]
      /\ \A t \in Sessions: /\ session'[t].state = session[t].state
                            /\ session'[t].epoch = session[t].epoch
                            /\ \/ session'[t].grant = session[t].grant
                               \/ session'[t].grant.job = k /\ session'[t].grant.preview = p
  BY <1>0, <1>7, <1>8
<1>10. AccessTypes'
  BY <1>0, <1>3, <1>6, <1>9 DEF AccessInv, AccessTypes
<1>11. InOrder' /\ Undone
  BY <1>0, <1>9 DEF AccessInv, InOrder, Undone, SessionLasts
<1>12. SpentRightly'
  <2> SUFFICES ASSUME NEW t \in Sessions, session'[t].grant.job # Nil
               PROVE  /\ ticket'[session'[t].grant.job].state # "none"
                      /\ ticket'[session'[t].grant.job].preview = session'[t].grant.preview
    BY DEF SpentRightly
  <2>1. CASE session'[t].grant.job = k /\ session'[t].grant.preview = p
    BY <1>1, <1>3, <2>1
  <2>2. CASE session'[t].grant = session[t].grant
    <3>1. PICK j \in Keys : j = session[t].grant.job
      BY <1>0, <2>2, SessionRecords
    <3>2. ticket[j].state # "none" /\ ticket[j].preview = session[t].grant.preview
      BY <2>2, <3>1 DEF AccessInv, SpentRightly
    <3>3. j # k
      BY <3>2
    <3> QED BY <1>3, <2>2, <3>1, <3>2, <3>3
  <2> QED BY <1>9, <2>1, <2>2
<1>13. JobsAreBound'
  <2>1. ASSUME NEW j \in Keys, j # k, ticket[j].state # "none"
        PROVE  ticket[j].preview # p
    BY <1>0, <2>1, AccessAssumption DEF AccessInv, JobsAreBound, AccessAssumption
  <2>2. Tier[p] >= 2 => session'[s].grant.preview = p /\ session'[s].grant.job = k
    <3>1. Tier[p] >= 2 => session' = [session EXCEPT ![s] = g]
      <4>1. Tier[p] >= 2 => session' = [session EXCEPT ![s].grant.job = k]
        BY DEF Enqueued
      <4> QED BY <1>0, <1>7, <4>1, Zenon
    <3> QED BY <1>0, <1>7, <3>1
  <2>3. ASSUME NEW j \in Keys, ticket'[j].state # "none"
        PROVE  /\ ticket'[j].preview \in Previews /\ ticket'[j].session \in Sessions
               /\ preview'[ticket'[j].preview].by = j
               /\ session'[ticket'[j].session].state # "none"
               /\ Tier[ticket'[j].preview] < 2 =>
                     preview'[ticket'[j].preview].session = ticket'[j].session
               /\ Tier[ticket'[j].preview] >= 2 =>
                     /\ session'[ticket'[j].session].grant.preview = ticket'[j].preview
                     /\ session'[ticket'[j].session].grant.job = j
    <3>1. CASE j = k
      <4>1. /\ ticket'[j].preview = p /\ ticket'[j].session = s /\ preview'[p].by = j
            /\ preview'[p].session = preview[p].session /\ session'[s].state = "live"
        BY <1>0, <1>1, <1>3, <1>4, <1>6, <1>9, <3>1
      <4> QED BY <1>0, <2>2, <3>1, <4>1
    <3>2. CASE j # k
      <4>1. PICK q \in Previews \ {p}, t \in Sessions :
              /\ ticket[j].preview = q /\ ticket[j].session = t /\ ticket'[j] = ticket[j]
              /\ preview[q].by = j /\ session[t].state # "none"
              /\ Tier[q] < 2 => preview[q].session = t
              /\ Tier[q] >= 2 => session[t].grant.preview = q /\ session[t].grant.job = j
        BY <1>3, <2>1, <2>3, <3>2 DEF AccessInv, JobsAreBound
      <4>2. preview'[q] = preview[q] /\ session'[t].state # "none"
        BY <1>6, <1>9, <4>1
      <4>3. Tier[q] >= 2 => session'[t].grant = session[t].grant
        <5>1. j # Nil
          BY AccessAssumption DEF AccessAssumption
        <5> QED BY <1>0, <1>8, <4>1, <5>1
      <4> QED BY <4>1, <4>2, <4>3
    <3> QED BY <3>1, <3>2
  <2> QED BY <2>3 DEF JobsAreBound
<1>14. PreviewsLast'
  BY <1>0, <1>4, <1>6 DEF AccessInv, PreviewsLast
<1> QED BY <1>10, <1>11, <1>12, <1>13, <1>14 DEF AccessInv

\* Decide: the consent of the session that decides pays for the job, and is of its preview.
LEMMA DecideKeeps ==
    ASSUME AccessInv, NEW s \in Sessions, NEW k \in Keys, NEW to \in {"queued", "over"},
           Decide(s, k, to)
    PROVE  AccessInv' /\ Undone
<1>0. /\ AccessTypes /\ session \in [Sessions -> Session] /\ admitted' \subseteq Sessions
      /\ found' \subseteq Sessions
      /\ ticket[k].state = "queued" /\ session[s].grant.preview = ticket[k].preview
      /\ session[s].grant.job = Nil
      /\ UNCHANGED <<configured, owner, preview, version>>
      /\ ticket' = [ticket EXCEPT ![k].state = to]
      /\ session' = [session EXCEPT ![s].grant.job = k]
  BY DEF AccessInv, AccessTypes, Decide, MayGrant, Served
<1>1. to \in {"queued", "running", "claimed", "cleared", "done", "over"} /\ ticket[k].state # "none"
  BY <1>0
<1>2. /\ ticket' \in [Keys -> Ticket]
      /\ \A j \in Keys: /\ ticket'[j].preview = ticket[j].preview
                        /\ ticket'[j].session = ticket[j].session
                        /\ ticket'[j].state # "none" <=> ticket[j].state # "none"
  BY <1>0, <1>1, TicketMoves
<1>3. PICK g \in Session :
        /\ g = [session[s] EXCEPT !.grant.job = k] /\ g.state = session[s].state
        /\ g.epoch = session[s].epoch
        /\ g.grant.job = k /\ g.grant.preview = session[s].grant.preview
  BY <1>0, GrantSpent
<1>4. session' = [session EXCEPT ![s] = g]
  BY <1>0, <1>3, Zenon
<1>5. /\ session' \in [Sessions -> Session] /\ session'[s] = g
      /\ \A t \in Sessions \ {s}: session'[t] = session[t]
  BY <1>0, <1>3, <1>4
<1>6. AccessTypes'
  BY <1>0, <1>2, <1>5 DEF AccessTypes
<1>7. Unmoved /\ Undone
  BY <1>0, <1>2, <1>3, <1>5 DEF Unmoved, Undone, SessionLasts
<1>8. \A t \in Sessions:
         \/ session'[t].grant = session[t].grant
         \/ /\ session[t].grant.job = Nil /\ session'[t].grant.job \in Keys
            /\ session'[t].grant.preview = session[t].grant.preview
            /\ ticket[session'[t].grant.job].state # "none"
            /\ ticket[session'[t].grant.job].preview = session[t].grant.preview
  BY <1>0, <1>1, <1>3, <1>5
<1> QED BY <1>6, <1>7, <1>8, UnmovedKeeps

\* A job moves on; its bindings stay.
LEMMA JobMoves ==
    ASSUME AccessInv, NEW k \in Keys,
           NEW from \in {"queued", "running", "claimed", "cleared"}, ticket[k].state = from,
           NEW to \in {"running", "claimed", "cleared", "done", "over"},
           ticket' = [ticket EXCEPT ![k].state = to],
           found' \subseteq Sessions, admitted' \subseteq Sessions,
           UNCHANGED <<configured, owner, session, preview, version>>
    PROVE  AccessInv' /\ Undone
<1>1. to \in {"queued", "running", "claimed", "cleared", "done", "over"} /\ ticket[k].state # "none"
  OBVIOUS
<1>2. /\ ticket' \in [Keys -> Ticket]
      /\ \A j \in Keys: /\ ticket'[j].preview = ticket[j].preview
                        /\ ticket'[j].session = ticket[j].session
                        /\ ticket'[j].state # "none" <=> ticket[j].state # "none"
  BY <1>1, TicketMoves DEF AccessInv
<1>3. AccessTypes'
  BY <1>2 DEF AccessInv, AccessTypes
<1>4. Unmoved /\ Undone
  BY <1>2 DEF Unmoved, Undone, SessionLasts
<1> QED BY <1>3, <1>4, UnmovedKeeps

\* The steps of a worker, and what ends a job.
LEMMA WorkerKeeps ==
    ASSUME AccessInv, NEW k \in Keys,
           \/ Begin(k) \/ ClaimTicket(k) \/ ClearEffect(k) \/ TakeEffect(k) \/ Refused(k)
           \/ \E s \in Sessions: CancelTicket(s, k)
    PROVE  AccessInv' /\ Undone
<1>1. PICK from \in {"queued", "running", "claimed", "cleared"},
           to \in {"running", "claimed", "cleared", "done", "over"} :
        /\ ticket[k].state = from
        /\ ticket' = [ticket EXCEPT ![k].state = to]
        /\ UNCHANGED <<configured, owner, session, preview, version>>
        /\ found' \subseteq Sessions /\ admitted' \subseteq Sessions
  BY DEF Begin, ClaimTicket, ClearEffect, TakeEffect, Refused, CancelTicket, Moves, Served,
         AccessInv, AccessTypes
<1> QED BY <1>1, JobMoves

-----------------------------------------------------------------------------
(* Access: the theorems.                                                   *)

\* At the start there is neither session nor preview nor job.
LEMMA AccessStarts == AccessInit => AccessInv
<1> SUFFICES ASSUME AccessInit PROVE AccessInv
  OBVIOUS
<1>1. /\ NoSession \in Session /\ NoSession.state = "none" /\ NoSession.grant.job = Nil
      /\ NoPreview.state = "none" /\ NoPreview.by = Nil
      /\ NoTicket \in Ticket /\ NoTicket.state = "none"
  BY DEF NoSession, NoGrant, NoPreview, NoTicket, Session, Ticket
<1>2. NoPreview \in Preview /\ 0 \in 0..MaxVersions
  BY DEF NoPreview, Preview, AccessAssumption
<1>3. /\ \A s \in Sessions: session[s] = NoSession
      /\ \A p \in Previews: preview[p] = NoPreview
      /\ \A k \in Keys: ticket[k] = NoTicket
  BY DEF AccessInit
<1>4. configured \in Passwords
  BY DEF AccessInit
<1>5. AccessTypes
  BY <1>1, <1>2, <1>4 DEF AccessInit, AccessTypes
<1>6. InOrder
  <2>1. 0 \in 0..MaxSessions /\ \A s \in Sessions: ~(s <= 0)
    BY DEF Sessions, AccessAssumption
  <2> QED BY <1>1, <1>3, <2>1 DEF InOrder
<1>7. SpentRightly /\ JobsAreBound /\ PreviewsLast
  BY <1>1, <1>3 DEF SpentRightly, JobsAreBound, PreviewsLast
<1> QED BY <1>5, <1>6, <1>7 DEF AccessInv

\* BotConfirm acts for a session that there is.
LEMMA BotConfirmKeeps ==
    ASSUME AccessInv, NEW p \in Previews, BotConfirm(p)
    PROVE  AccessInv' /\ Undone
<1>1. Newest \in Sessions
  BY NewestIsOne DEF BotConfirm, Newest
<1>2. PICK s \in Sessions : s = Newest
  BY <1>1
<1>3. PICK k \in Keys : k = BotKey[p]
  BY DEF AccessAssumption
<1>4. found' \subseteq Sessions /\ admitted' \subseteq Sessions
  BY DEF AccessInv, AccessTypes, BotConfirm
<1> QED BY <1>2, <1>3, <1>4, EnqueuedKeeps DEF BotConfirm

\* Every step keeps the invariant, and no session gets back what it lost.
LEMMA AccessSteps ==
    ASSUME AccessInv, [AccessNext]_accessVars
    PROVE  AccessInv' /\ NoWayBack
<1>1. ASSUME AccessInv' /\ Undone
      PROVE  AccessInv' /\ NoWayBack
  BY <1>1 DEF Undone, SessionLasts, Valid, NoWayBack
<1>2. ASSUME NEW old \in Sessions \cup {0}, Login(old)
      PROVE  AccessInv' /\ NoWayBack
  BY <1>2, LoginKeeps
<1>3. ASSUME NEW s \in Sessions, SessionStep(s) PROVE AccessInv' /\ Undone
  <2>1. CASE FindSession(s) \/ (AdmitRequest(s) /\ ~Refreshes(s))
    BY <2>1, QuietKeeps
  <2>2. CASE \/ EndSession(s) \/ IdleOut(s) \/ (AdmitRequest(s) /\ Refreshes(s))
             \/ \E t \in Sessions: Revoke(s, t)
    <3>1. PICK t \in Sessions, to \in {"live", "idle", "ended"} :
            /\ session[t].state # "none" /\ session' = [session EXCEPT ![t].state = to]
            /\ to = "live" => session[t].state = "idle" /\ t \in found
            /\ to = "idle" => session[t].state = "live"
            /\ UNCHANGED <<configured, owner, preview, ticket, version>>
            /\ found' \subseteq Sessions /\ admitted' \subseteq Sessions
      <4>1. CASE EndSession(s) \/ \E t \in Sessions: Revoke(s, t)
        BY <4>1 DEF EndSession, Revoke, Served, AccessInv, AccessTypes
      <4>2. CASE IdleOut(s)
        BY <4>2 DEF IdleOut, AccessInv, AccessTypes
      <4>3. CASE AdmitRequest(s) /\ Refreshes(s)
        BY <4>3 DEF AdmitRequest, Refreshes, AccessInv, AccessTypes
      <4> QED BY <2>2, <4>1, <4>2, <4>3
    <3> QED BY <3>1, SessionMoves
  <2>3. CASE \E p \in Previews: Consent(s, p) \/ PlanPreview(s, p)
    BY <2>3, ConsentKeeps, PlanPreviewKeeps
  <2>4. ASSUME NEW p \in Previews, NEW k \in Keys, Enqueue(s, p, k)
        PROVE  AccessInv' /\ Undone
    <3>1. found' \subseteq Sessions /\ admitted' \subseteq Sessions
      BY <2>4 DEF Enqueue, Served, AccessInv, AccessTypes
    <3> QED BY <2>4, <3>1, EnqueuedKeeps DEF Enqueue
  <2>5. ASSUME NEW k \in Keys,
               CancelTicket(s, k) \/ Decide(s, k, "queued") \/ Decide(s, k, "over")
        PROVE  AccessInv' /\ Undone
    BY <2>5, WorkerKeeps, DecideKeeps
  <2> QED BY <1>3, <2>1, <2>2, <2>3, <2>4, <2>5 DEF SessionStep
<1>4. ASSUME NEW p \in Previews, StorePreview(p) \/ BotConfirm(p) \/ EndPreview(p)
      PROVE  AccessInv' /\ Undone
  BY <1>4, PreviewMoves, BotConfirmKeeps
<1>5. CASE Redeploy \/ ChangeResource
  BY <1>1, <1>5, QuietKeeps
<1>6. ASSUME NEW k \in Keys,
             Begin(k) \/ ClaimTicket(k) \/ ClearEffect(k) \/ TakeEffect(k) \/ Refused(k)
      PROVE  AccessInv' /\ Undone
  BY <1>6, WorkerKeeps
<1>7. CASE UNCHANGED accessVars
  <2>1. AccessTypes' /\ Unmoved /\ Undone /\ session' = session
    BY <1>7 DEF accessVars, AccessInv, AccessTypes, Unmoved, Undone, SessionLasts
  <2>2. AccessInv'
    BY <2>1, UnmovedKeeps
  <2> QED BY <1>1, <2>1, <2>2
<1> QED BY <1>1, <1>2, <1>3, <1>4, <1>5, <1>6, <1>7 DEF AccessNext

\* Previews, jobs, consents and sessions stay bound to each other.
THEOREM AccessInvariant == AccessSpec => []AccessInv
<1>1. AccessInv /\ [AccessNext]_accessVars => AccessInv'
  BY AccessSteps
<1> QED BY <1>1, AccessStarts, PTL DEF AccessSpec

\* Every table of the console's access stays in its range.
THEOREM AccessTypeCorrect == AccessSpec => []AccessTypeOK
<1>1. AccessInv => AccessTypeOK
  BY DEF AccessInv, AccessTypes, SpentRightly, AccessTypeOK
<1> QED BY <1>1, AccessInvariant, PTL

\* A session that was logged out, replaced, past its end or cut off by a login with a new
\* password stays so, also when an old password comes back; one that sat idle comes back for a
\* request that had found it, and for nothing else.
THEOREM SessionsStayCutOff == AccessSpec => CutOffStays
<1>1. AccessInv /\ [AccessNext]_accessVars =>
        [\A s \in Sessions:
            session[s].state # "none" /\ ~Valid(s) /\ (Valid(s))'
                => session[s].state = "idle" /\ s \in found]_accessVars
  BY AccessSteps DEF NoWayBack
<1> QED BY <1>1, AccessInvariant, PTL DEF AccessSpec, CutOffStays

\* An effect is that of the one job of a preview, asked for by the session of the preview or
\* paid for by the consent to it.
THEOREM EffectsAreWanted == AccessSpec => []EffectIsWanted
<1>1. AccessInv => EffectIsWanted
  <2> SUFFICES ASSUME AccessInv, NEW k \in Keys, ticket[k].state = "done"
               PROVE  LET p == ticket[k].preview
                          s == ticket[k].session
                      IN  /\ \A j \in Keys \ {k}:
                                ticket[j].state = "done" => ticket[j].preview # p
                          /\ Tier[p] < 2 => preview[p].session = s
                          /\ Tier[p] >= 2 => session[s].grant = [preview |-> p, job |-> k]
    BY DEF EffectIsWanted
  <2>1. ASSUME NEW j \in Keys \ {k}, ticket[j].state = "done"
        PROVE  ticket[j].preview # ticket[k].preview
    BY <2>1 DEF AccessInv, JobsAreBound
  <2>2. PICK p \in Previews, s \in Sessions :
          /\ p = ticket[k].preview /\ s = ticket[k].session
          /\ Tier[p] < 2 => preview[p].session = s
          /\ Tier[p] >= 2 => session[s].grant.preview = p /\ session[s].grant.job = k
    BY DEF AccessInv, JobsAreBound
  <2>3. session[s].grant \in [preview: Previews \cup {Nil}, job: Keys \cup {Nil}]
    BY SessionRecords DEF AccessInv
  <2>4. Tier[p] >= 2 => session[s].grant = [preview |-> p, job |-> k]
    BY <2>2, <2>3
  <2> QED BY <2>1, <2>2, <2>4
<1> QED BY <1>1, AccessInvariant, PTL

\* What a step does to a job that is there: nothing, an end, a next check, or an effect that
\* its authority allowed before.
JobGoesOn(k) ==
    /\ ticket'[k].session = ticket[k].session
    /\ \/ ticket'[k].state = ticket[k].state
       \/ ticket'[k].state \in {"queued", "running", "claimed", "over"}
       \/ ClearEffect(k)
       \/ ticket[k].state = "cleared"

LEMMA JobsGoOn ==
    ASSUME AccessInv, [AccessNext]_accessVars, NEW k \in Keys, ticket[k].state # "none"
    PROVE  JobGoesOn(k)
<1>1. ASSUME ticket' = ticket PROVE JobGoesOn(k)
  BY <1>1 DEF JobGoesOn
<1>2. ASSUME NEW s \in Sessions, NEW p \in Previews, NEW j \in Keys,
             ticket[j].state = "none", Enqueued(s, p, j)
      PROVE  JobGoesOn(k)
  BY <1>2 DEF Enqueued, AccessInv, AccessTypes, JobGoesOn
<1>3. ASSUME NEW j \in Keys, ticket[j].state # "none",
             NEW to \in {"queued", "running", "claimed", "cleared", "done", "over"},
             ticket' = [ticket EXCEPT ![j].state = to],
             \/ to \in {"queued", "running", "claimed", "over"}
             \/ ClearEffect(j)
             \/ ticket[j].state = "cleared"
      PROVE  JobGoesOn(k)
  <2>1. /\ ticket'[j].state = to /\ \A i \in Keys \ {j}: ticket'[i] = ticket[i]
        /\ \A i \in Keys: ticket'[i].session = ticket[i].session
    BY <1>3, TicketMoves DEF AccessInv
  <2> QED BY <1>3, <2>1 DEF JobGoesOn
<1>4. ASSUME NEW s \in Sessions, SessionStep(s) PROVE JobGoesOn(k)
  <2>1. ASSUME NEW j \in Keys, CancelTicket(s, j) PROVE JobGoesOn(k)
    BY <1>3, <2>1 DEF CancelTicket
  <2>2. ASSUME NEW j \in Keys, NEW to \in {"queued", "over"}, Decide(s, j, to)
        PROVE  JobGoesOn(k)
    BY <1>3, <2>2 DEF Decide
  <2>3. ASSUME NEW p \in Previews, NEW j \in Keys, Enqueue(s, p, j) PROVE JobGoesOn(k)
    BY <1>2, <2>3 DEF Enqueue
  <2> QED BY <1>1, <1>4, <2>1, <2>2, <2>3
          DEF SessionStep, FindSession, AdmitRequest, IdleOut, EndSession, Revoke, Consent,
              PlanPreview
<1>5. ASSUME NEW p \in Previews, BotConfirm(p) PROVE JobGoesOn(k)
  <2>1. Newest \in Sessions
    BY <1>5, NewestIsOne DEF BotConfirm, Newest
  <2>2. PICK s \in Sessions : s = Newest
    BY <2>1
  <2>3. PICK j \in Keys : j = BotKey[p]
    BY DEF AccessAssumption
  <2> QED BY <1>2, <1>5, <2>2, <2>3 DEF BotConfirm
<1>6. ASSUME NEW j \in Keys,
             Begin(j) \/ ClaimTicket(j) \/ ClearEffect(j) \/ TakeEffect(j) \/ Refused(j)
      PROVE  JobGoesOn(k)
  BY <1>3, <1>6 DEF Begin, ClaimTicket, ClearEffect, TakeEffect, Refused, Moves
<1> QED BY <1>1, <1>4, <1>5, <1>6
        DEF AccessNext, accessVars, Redeploy, ChangeResource, Login, StorePreview, EndPreview

\* A job whose session is over before its effect was cleared never has one.
THEOREM CutOffJobsRest == AccessSpec => CutOffJobRests
<1>1. ASSUME AccessInv, [AccessNext]_accessVars, NEW k \in Keys, CutOff(k)
      PROVE  (CutOff(k) \/ ticket[k].state = "over")'
  <2>1. /\ ticket[k].state \in {"queued", "running", "claimed"}
        /\ ticket[k].session \in Sessions /\ session[ticket[k].session].state = "ended"
    BY <1>1 DEF CutOff, AccessInv, JobsAreBound
  <2>2. session'[ticket[k].session].state = "ended"
    BY <1>1, <2>1, AccessSteps DEF NoWayBack
  <2>3. ~ClearEffect(k)
    BY <2>1 DEF ClearEffect, Authority, Valid
  <2>4. JobGoesOn(k)
    BY <1>1, <2>1, JobsGoOn
  <2> QED BY <2>1, <2>2, <2>3, <2>4 DEF JobGoesOn, CutOff
<1>2. AccessInv /\ [AccessNext]_accessVars =>
        [\A k \in Keys: CutOff(k) => (CutOff(k) \/ ticket[k].state = "over")']_accessVars
  BY <1>1
<1> QED BY <1>2, AccessInvariant, PTL DEF AccessSpec, CutOffJobRests

-----------------------------------------------------------------------------
(* Reads: the inductive invariant.                                         *)

\* An entry, or none of them.
RootOrNone == Roots \cup {None}

\* The row of a position: the epoch it was written in and the entry it is bound to.
RowType == [epoch: Epochs, ids: RootOrNone]

\* What a round read of the plans that rest: whose, and whether all of them.
PlansType == [root: RootOrNone, whole: BOOLEAN]

\* The collector within a round.
CollectorType == [pc: {"idle", "plans", "prove"}, row: RowType, read: BOOLEAN, plans: PlansType]

\* The last good value of each resource.
GoodType == [positions: RowType, plans: RootOrNone, proofs: RootOrNone \X Epochs]

\* What the rounds read in truth.
TruthType == [epoch: Epochs, seen: RootOrNone, last: RootOrNone \X Epochs]

\* The proof that readers may use is of the round that came last to its end.
ProofIsRecent == lastOk["proofs"] /\ good["proofs"] # NoPair => good["proofs"] = truth.last

\* A row that was read is of the position that stood then, and plans that count as whole are
\* those that rested when they were read.
PlansAreSeen ==
    /\ collector.pc # "idle" => truth.epoch = collector.row.epoch
    /\ collector.pc = "prove" /\ collector.plans.whole => truth.seen = collector.plans.root

\* The types, and what the collector's round keeps true of a proof.
ReadsInv == ReadsTypeOK /\ ProofIsRecent /\ PlansAreSeen

\* The types, part by part.
LEMMA ReadsTypes ==
    ReadsTypeOK <=>
        /\ pos \in [epoch: Epochs, root: RootOrNone, plans: RootOrNone]
        /\ opened \in Epochs
        /\ born \in [Roots -> Epochs] /\ reg \in [Roots -> Epochs] /\ bound \in [Roots -> Epochs]
        /\ owned \subseteq Roots
        /\ collector \in CollectorType
        /\ trade \in [root: RootOrNone, row: RowType]
        /\ lastOk \in [Kinds -> BOOLEAN]
        /\ good \in GoodType
        /\ truth \in TruthType
BY DEF ReadsTypeOK, RootOrNone, RowType, PlansType, CollectorType, GoodType, TruthType, TruthType

\* The owner of a position is an entry, or nobody.
LEMMA OwnerIsRoot ==
    ASSUME owned \subseteq Roots, NEW row, NEW planRoot
    PROVE  Owner(row, planRoot) \in RootOrNone
<1>1. ASSUME NEW S \in SUBSET Roots
      PROVE  TheOnly(S) \in RootOrNone
  <2>1. Cardinality(S) = 1 => S # {}
    BY FS_EmptySet
  <2> QED BY <2>1 DEF TheOnly, RootOrNone
<1>2. NativeOwner(row, planRoot) \in RootOrNone
  BY <1>1 DEF NativeOwner
<1>3. ExactOwner(row) \in RootOrNone
  BY <1>1 DEF ExactOwner
<1> QED BY <1>2, <1>3 DEF Owner, RootOrNone

\* What reads the venue's row gets.
LEMMA RowIsTyped ==
    ASSUME ReadsTypeOK
    PROVE  Row \in RowType /\ NoRow \in RowType
<1>1. pos.epoch \in Epochs /\ pos.plans \in RootOrNone
  BY ReadsTypes
<1>2. Row \in RowType
  BY <1>1 DEF Row, RowType, RootOrNone
<1>3. 0 \in Epochs
  BY ReadsAssumption DEF Epochs, ReadsAssumption
<1>4. NoRow \in RowType
  BY <1>3 DEF NoRow, RowType, RootOrNone
<1> QED BY <1>2, <1>4

\* What a snapshot of one kind leaves of the others.
LEMMA PutOne ==
    ASSUME ReadsTypeOK, NEW kind \in Kinds, NEW ok \in BOOLEAN, NEW data, Put(kind, ok, data),
           [good EXCEPT ![kind] = data] \in GoodType
    PROVE  /\ lastOk' \in [Kinds -> BOOLEAN] /\ good' \in GoodType
           /\ lastOk'[kind] = ok /\ \A k \in Kinds \ {kind}: lastOk'[k] = lastOk[k]
           /\ ok => good'[kind] = data
           /\ ~ok => good' = good
           /\ \A k \in Kinds \ {kind}: good'[k] = good[k]
<1>1. lastOk \in [Kinds -> BOOLEAN] /\ good \in GoodType
  BY ReadsTypes
<1>2. DOMAIN good = Kinds
  BY <1>1 DEF GoodType, Kinds
<1>3. /\ lastOk' \in [Kinds -> BOOLEAN] /\ lastOk'[kind] = ok
      /\ \A k \in Kinds \ {kind}: lastOk'[k] = lastOk[k]
  BY <1>1 DEF Put
<1>4. CASE ok
  <2>1. good' = [good EXCEPT ![kind] = data]
    BY <1>4 DEF Put
  <2>2. good'[kind] = data /\ \A k \in Kinds \ {kind}: good'[k] = good[k]
    BY <1>2, <2>1
  <2> QED BY <1>3, <1>4, <2>1, <2>2
<1>5. CASE ~ok
  BY <1>1, <1>3, <1>5 DEF Put
<1> QED BY <1>4, <1>5

\* Steps that are not the collector's change nothing a proof rests on.
LEMMA ElsewhereKeeps ==
    ASSUME ReadsInv, ReadsTypeOK', UNCHANGED <<collector, lastOk, good, truth>>
    PROVE  ReadsInv'
BY DEF ReadsInv, ProofIsRecent, PlansAreSeen

-----------------------------------------------------------------------------
(* Reads: the steps.                                                       *)

\* The venue, the books and the registrations.
LEMMA VenueKeeps ==
    ASSUME ReadsInv,
           \/ \E r \in Roots \cup {None}: OpenPosition(r)
           \/ PlacePlans \/ DropPlans \/ ClosePosition
           \/ \E r \in Roots: BookExit(r) \/ RegisterFallback(r)
    PROVE  ReadsInv'
<1>1. /\ pos \in [epoch: Epochs, root: RootOrNone, plans: RootOrNone]
      /\ opened \in Epochs
      /\ born \in [Roots -> Epochs] /\ reg \in [Roots -> Epochs] /\ bound \in [Roots -> Epochs]
      /\ owned \subseteq Roots
      /\ collector \in CollectorType
      /\ trade \in [root: RootOrNone, row: RowType]
      /\ lastOk \in [Kinds -> BOOLEAN]
      /\ good \in GoodType
      /\ truth \in TruthType
  BY ReadsTypes DEF ReadsInv
<1>2. UNCHANGED <<bound, collector, trade, lastOk, good, truth>>
  BY DEF OpenPosition, PlacePlans, DropPlans, ClosePosition, BookExit, RegisterFallback, snapVars
<1>3. None \in RootOrNone /\ 0 \in Epochs
  BY ReadsAssumption DEF RootOrNone, Epochs, ReadsAssumption
<1>4. /\ pos' \in [epoch: Epochs, root: RootOrNone, plans: RootOrNone]
      /\ opened' \in Epochs
      /\ born' \in [Roots -> Epochs] /\ reg' \in [Roots -> Epochs]
      /\ owned' \subseteq Roots
  <2>1. CASE \E r \in Roots \cup {None}: OpenPosition(r)
    <3>1. PICK r \in RootOrNone : OpenPosition(r)
      BY <2>1 DEF RootOrNone
    <3>2. PICK e \in Epochs : e = opened + 1 /\ opened' = e
      BY <1>1, <3>1, ReadsAssumption DEF OpenPosition, Epochs, ReadsAssumption
    <3>3. pos' = [epoch |-> e, root |-> r, plans |-> None]
      BY <3>1, <3>2 DEF OpenPosition
    <3>4. pos' \in [epoch: Epochs, root: RootOrNone, plans: RootOrNone]
      BY <1>3, <3>3
    <3>5. born' \in [Roots -> Epochs] /\ owned' \subseteq Roots /\ reg' = reg
      <4>1. CASE r = None
        BY <1>1, <3>1, <4>1 DEF OpenPosition
      <4>2. CASE r # None
        <5>1. r \in Roots
          BY <4>2 DEF RootOrNone
        <5>2. born' = [born EXCEPT ![r] = e] /\ owned' = owned \cup {r} /\ reg' = reg
          BY <3>1, <3>2, <4>2 DEF OpenPosition
        <5> QED BY <1>1, <5>1, <5>2
      <4> QED BY <4>1, <4>2
    <3> QED BY <1>1, <3>2, <3>4, <3>5
  <2>2. CASE PlacePlans
    <3>1. PICK r \in RootOrNone : r = pos.root
      BY <1>1
    <3>2. pos' = [pos EXCEPT !.plans = r] /\ UNCHANGED <<opened, born, owned, reg>>
      BY <2>2, <3>1 DEF PlacePlans
    <3>3. pos' \in [epoch: Epochs, root: RootOrNone, plans: RootOrNone]
      BY <1>1, <3>2, Zenon
    <3> QED BY <1>1, <3>2, <3>3
  <2>3. CASE DropPlans
    <3>2. pos' = [pos EXCEPT !.plans = None] /\ UNCHANGED <<opened, born, owned, reg>>
      BY <2>3 DEF DropPlans
    <3>3. pos' \in [epoch: Epochs, root: RootOrNone, plans: RootOrNone]
      BY <1>1, <1>3, <3>2, Zenon
    <3> QED BY <1>1, <3>2, <3>3
  <2>4. CASE ClosePosition
    BY <1>1, <1>3, <2>4 DEF ClosePosition, NoPosition
  <2>5. CASE \E r \in Roots: BookExit(r)
    BY <1>1, <1>3, <2>5 DEF BookExit
  <2>6. CASE \E r \in Roots: RegisterFallback(r)
    <3>1. PICK r \in Roots : RegisterFallback(r)
      BY <2>6
    <3>2. PICK e \in Epochs : e = pos.epoch
      BY <1>1
    <3> QED BY <1>1, <3>1, <3>2 DEF RegisterFallback
  <2> QED BY <2>1, <2>2, <2>3, <2>4, <2>5, <2>6
<1>5. ReadsTypeOK'
  BY <1>1, <1>2, <1>4 DEF ReadsTypeOK, RootOrNone, RowType, PlansType, CollectorType, GoodType, TruthType
<1> QED BY <1>2, <1>5, ElsewhereKeeps

\* The epochs that are bound.
LEMMA BindIsTyped ==
    ASSUME ReadsTypeOK, NEW r \in Roots, NEW e \in Epochs
    PROVE  Bind(r, e) \in [Roots -> Epochs]
BY ReadsTypes DEF Bind

\* What a console trade binds and holds.
LEMMA TradeKeeps ==
    ASSUME ReadsInv, TradeBinds \/ \E r \in Roots: BindAtEntry(r) \/ TradeReads(r)
    PROVE  ReadsInv'
<1>1. /\ ReadsTypeOK /\ bound \in [Roots -> Epochs] /\ pos.epoch \in Epochs
      /\ trade \in [root: RootOrNone, row: RowType] /\ Row \in RowType /\ NoRow \in RowType
  BY ReadsTypes, RowIsTyped DEF ReadsInv
<1>2. UNCHANGED <<venueVars, collector, lastOk, good, truth>>
  BY DEF TradeBinds, BindAtEntry, TradeReads, snapVars
<1>3. bound' \in [Roots -> Epochs]
  <2>1. CASE TradeBinds
    <3>1. PICK r \in Roots, e \in Epochs : r = trade.root /\ e = trade.row.epoch
      BY <1>1, <2>1 DEF TradeBinds, RootOrNone, RowType
    <3> QED BY <1>1, <2>1, <3>1, BindIsTyped DEF TradeBinds
  <2>2. CASE \E r \in Roots: BindAtEntry(r)
    BY <1>1, <2>2, BindIsTyped DEF BindAtEntry
  <2>3. CASE \E r \in Roots: TradeReads(r)
    BY <1>1, <2>3 DEF TradeReads
  <2> QED BY <2>1, <2>2, <2>3
<1>4. trade' \in [root: RootOrNone, row: RowType]
  <2>1. CASE TradeBinds
    BY <1>1, <2>1 DEF TradeBinds, NoTrade, RootOrNone
  <2>2. CASE \E r \in Roots: BindAtEntry(r)
    BY <1>1, <2>2 DEF BindAtEntry
  <2>3. CASE \E r \in Roots: TradeReads(r)
    <3>1. PICK r \in RootOrNone, row \in RowType : trade' = [root |-> r, row |-> row]
      BY <1>1, <2>3 DEF TradeReads, RootOrNone
    <3> QED BY <3>1
  <2> QED BY <2>1, <2>2, <2>3
<1>5. ReadsTypeOK'
  BY <1>1, <1>2, <1>3, <1>4
     DEF ReadsTypeOK, RootOrNone, RowType, PlansType, CollectorType, GoodType, TruthType, venueVars
<1> QED BY <1>2, <1>5, ElsewhereKeeps

\* Unidentified: nothing is fresh, and nothing was seen.
LEMMA UnidentifiedKeeps ==
    ASSUME ReadsInv, Unidentified
    PROVE  ReadsInv'
<1>1. /\ lastOk' \in [Kinds -> BOOLEAN] /\ ~lastOk'["proofs"]
      /\ truth' \in TruthType
      /\ UNCHANGED <<venueVars, bound, collector, trade, good>> /\ collector.pc = "idle"
  BY ReadsAssumption
     DEF Unidentified, Kinds, RootOrNone, TruthType, NoPair, Epochs, ReadsAssumption
<1>2. ReadsTypeOK'
  BY <1>1 DEF ReadsInv, ReadsTypeOK, RootOrNone, TruthType, venueVars
<1> QED BY <1>1, <1>2 DEF ReadsInv, ProofIsRecent, PlansAreSeen

\* StopCollection: what a round put stays, and so does the proof.
LEMMA StopKeeps ==
    ASSUME ReadsInv, StopCollection
    PROVE  ReadsInv'
<1>1. /\ collector' = Idle /\ UNCHANGED <<venueVars, bound, trade, lastOk, good, truth>>
      /\ ReadsTypeOK /\ NoRow \in RowType
  BY RowIsTyped DEF StopCollection, snapVars, ReadsInv
<1>2. Idle \in CollectorType /\ Idle.pc = "idle"
  BY <1>1 DEF Idle, CollectorType, PlansType, NoPlans, RootOrNone
<1>3. ReadsTypeOK'
  BY <1>1, <1>2
     DEF ReadsTypeOK, RootOrNone, RowType, PlansType, CollectorType, GoodType, TruthType,
         venueVars
<1> QED BY <1>1, <1>2, <1>3 DEF ReadsInv, ProofIsRecent, PlansAreSeen

\* ObservePositions: a round begins; the proof is still that of the last one.
LEMMA PositionsKeep ==
    ASSUME ReadsInv, NEW ok \in BOOLEAN, ObservePositions(ok)
    PROVE  ReadsInv'
<1>1. /\ ReadsTypeOK /\ good \in GoodType /\ Row \in RowType /\ NoRow \in RowType
      /\ "positions" \in Kinds /\ "proofs" \in Kinds \ {"positions"}
  BY ReadsTypes, RowIsTyped DEF ReadsInv, Kinds
<1>2. PICK row \in RowType : row = Row
  BY <1>1
<1>3. [good EXCEPT !["positions"] = row] \in GoodType
  BY <1>1, Zenon DEF GoodType
<1>4. /\ lastOk' \in [Kinds -> BOOLEAN] /\ good' \in GoodType
      /\ lastOk'["proofs"] = lastOk["proofs"] /\ good'["proofs"] = good["proofs"]
  <2>1. Put("positions", ok, row)
    BY <1>2 DEF ObservePositions
  <2> QED BY <1>1, <1>3, <2>1, PutOne
<1> DEFINE held == IF ok THEN row ELSE NoRow
           c == [Idle EXCEPT !.pc = "plans", !.read = ok, !.row = held]
<1>5. collector' = c
  BY <1>2 DEF ObservePositions
<1>6. held \in RowType
  BY <1>1
<1>7. Idle \in CollectorType
  BY <1>1 DEF Idle, CollectorType, PlansType, NoPlans, RootOrNone
<1> HIDE DEF held
<1>8. c \in CollectorType /\ c.pc = "plans"
  BY <1>6, <1>7, Zenon DEF CollectorType
<1> HIDE DEF c
<1>9. UNCHANGED <<venueVars, bound, trade>>
  BY DEF ObservePositions
<1>10. PICK e \in Epochs : e = IF ok THEN pos.epoch ELSE 0
  <2>1. pos.epoch \in Epochs /\ 0 \in Epochs
    BY <1>1, ReadsTypes, ReadsAssumption DEF Epochs, ReadsAssumption
  <2> QED BY <2>1
<1>11. truth' \in TruthType /\ truth'.epoch = e /\ truth'.last = truth.last
  <2>1. truth' = [truth EXCEPT !.epoch = e]
    BY <1>10 DEF ObservePositions
  <2>2. truth \in TruthType
    BY <1>1, ReadsTypes
  <2> QED BY <2>1, <2>2, Zenon DEF TruthType
<1>12. c.row = held /\ held.epoch = e
  <2>1. held.epoch = e
    BY <1>2, <1>10 DEF held, Row, NoRow
  <2>2. c.row = held
    BY <1>6, <1>7, Zenon DEF c, CollectorType
  <2> QED BY <2>1, <2>2
<1>13. ReadsTypeOK'
  BY <1>1, <1>4, <1>5, <1>8, <1>9, <1>11
     DEF ReadsTypeOK, RootOrNone, RowType, PlansType, CollectorType, GoodType, TruthType, venueVars
<1>14. collector'.pc # "prove"
  BY <1>5, <1>8
<1> QED BY <1>4, <1>5, <1>9, <1>13, <1>14, <1>11, <1>12 DEF ReadsInv, ProofIsRecent, PlansAreSeen

\* ObservePlans: what is whole is what rests now.
LEMMA PlansKeep ==
    ASSUME ReadsInv, NEW ok \in BOOLEAN, ObservePlans(ok)
    PROVE  ReadsInv'
<1>1. /\ ReadsTypeOK /\ good \in GoodType /\ collector \in CollectorType
      /\ pos.plans \in RootOrNone /\ truth \in TruthType
      /\ "plans" \in Kinds /\ "proofs" \in Kinds \ {"plans"} /\ None \in RootOrNone
  BY ReadsTypes DEF ReadsInv, Kinds, RootOrNone
<1>2. collector.read \in BOOLEAN
  BY <1>1 DEF CollectorType
<1>3. PICK planRoot \in RootOrNone, whole \in BOOLEAN, seen \in RootOrNone, kept \in BOOLEAN :
        /\ planRoot = IF ok THEN pos.plans ELSE None
        /\ whole <=> ok /\ collector.read
        /\ seen = IF whole THEN pos.plans ELSE None
        /\ kept <=> collector.read \/ planRoot # None
  BY <1>1, <1>2
<1>4. /\ Put("plans", kept, planRoot)
      /\ collector' = [collector EXCEPT !.pc = "prove",
                                        !.plans = [root |-> planRoot, whole |-> whole]]
      /\ truth' = [truth EXCEPT !.seen = seen]
      /\ UNCHANGED <<venueVars, bound, trade>>
  <2>1. /\ whole = (ok /\ collector.read)
        /\ kept = (collector.read \/ planRoot # None)
    BY <1>3
  <2> QED BY <1>3, <2>1 DEF ObservePlans
<1>5. [good EXCEPT !["plans"] = planRoot] \in GoodType
  BY <1>1, Zenon DEF GoodType
<1>6. /\ lastOk' \in [Kinds -> BOOLEAN] /\ good' \in GoodType
      /\ lastOk'["proofs"] = lastOk["proofs"] /\ good'["proofs"] = good["proofs"]
  BY <1>1, <1>4, <1>5, PutOne
<1> DEFINE plans == [root |-> planRoot, whole |-> whole]
<1>7. plans \in PlansType /\ plans.root = planRoot /\ plans.whole = whole
  BY DEF PlansType
<1> HIDE DEF plans
<1>8. collector' \in CollectorType /\ collector'.plans = plans /\ collector'.row = collector.row
  <2>1. collector' = [collector EXCEPT !.pc = "prove", !.plans = plans]
    BY <1>4 DEF plans
  <2> QED BY <1>1, <1>7, <2>1, Zenon DEF CollectorType
<1>9. /\ truth' \in TruthType
      /\ truth'.seen = seen /\ truth'.last = truth.last /\ truth'.epoch = truth.epoch
  BY <1>1, <1>4, Zenon DEF TruthType
<1>10. ReadsTypeOK'
  BY <1>1, <1>4, <1>6, <1>8, <1>9
     DEF ReadsTypeOK, RootOrNone, RowType, PlansType, CollectorType, GoodType, TruthType, venueVars
<1>11. PlansAreSeen'
  <2>1. collector.pc = "plans" /\ truth.epoch = collector.row.epoch
    BY DEF ObservePlans, ReadsInv, PlansAreSeen
  <2> QED BY <1>3, <1>7, <1>8, <1>9, <2>1 DEF PlansAreSeen
<1>12. ProofIsRecent'
  BY <1>6, <1>9 DEF ReadsInv, ProofIsRecent
<1> QED BY <1>10, <1>11, <1>12 DEF ReadsInv

\* CollectProtection: a proof is of plans in a whole list, read in the round that ends here.
LEMMA ProofKeeps ==
    ASSUME ReadsInv, NEW ok \in BOOLEAN, CollectProtection(ok)
    PROVE  ReadsInv'
<1>1. /\ ReadsTypeOK /\ good \in GoodType /\ collector \in CollectorType
      /\ truth \in TruthType /\ bound \in [Roots -> Epochs]
      /\ "proofs" \in Kinds /\ None \in RootOrNone /\ NoRow \in RowType
      /\ owned \subseteq Roots /\ collector.pc = "prove"
  BY ReadsTypes, RowIsTyped DEF ReadsInv, Kinds, RootOrNone, CollectProtection
<1>2. PICK row \in RowType, plans \in PlansType, e \in Epochs, kept \in BOOLEAN :
        /\ row = collector.row /\ plans = collector.plans /\ e = row.epoch
        /\ kept = (ok /\ collector.read)
  BY <1>1 DEF CollectorType, RowType
<1>3. PICK r \in RootOrNone : r = Owner(row, plans.root)
  BY <1>1, OwnerIsRoot
<1> DEFINE data == IF r # None /\ bound'[r] = e /\ Confirmed(row, plans, r)
                   THEN <<r, e>> ELSE NoPair
<1>4. /\ bound' = bound \/ (r # None /\ bound' = Bind(r, e))
      /\ Put("proofs", kept, data)
      /\ collector' = Idle /\ truth' = [truth EXCEPT !.last = <<truth.seen, truth.epoch>>]
      /\ UNCHANGED <<venueVars, trade>>
  BY <1>2, <1>3 DEF CollectProtection
<1>5. bound' \in [Roots -> Epochs]
  <2>1. r # None => Bind(r, e) \in [Roots -> Epochs]
    BY <1>1, BindIsTyped DEF RootOrNone
  <2> QED BY <1>1, <1>4, <2>1
<1>6. data \in RootOrNone \X Epochs
  <2>1. NoPair \in RootOrNone \X Epochs
    BY <1>1, ReadsAssumption DEF NoPair, Epochs, ReadsAssumption
  <2> QED BY <2>1
<1>7. data # NoPair => data = <<truth.seen, truth.epoch>>
  <2>1. data # NoPair => Confirmed(row, plans, r) /\ data = <<r, e>>
    OBVIOUS
  <2>2. truth.epoch = e
    BY <1>1, <1>2 DEF ReadsInv, PlansAreSeen
  <2> QED BY <1>1, <1>2, <2>1, <2>2 DEF Confirmed, PlansMatch, ReadsInv, PlansAreSeen
<1> HIDE DEF data
<1>8. [good EXCEPT !["proofs"] = data] \in GoodType
  BY <1>1, <1>6, Zenon DEF GoodType
<1>9. /\ lastOk' \in [Kinds -> BOOLEAN] /\ good' \in GoodType
      /\ lastOk'["proofs"] = kept /\ (kept => good'["proofs"] = data)
  BY <1>1, <1>4, <1>8, PutOne
<1>10. PICK seen \in RootOrNone \X Epochs : seen = <<truth.seen, truth.epoch>>
  <2>1. truth.seen \in RootOrNone /\ truth.epoch \in Epochs
    BY <1>1 DEF TruthType
  <2> QED BY <2>1
<1>11. truth' \in TruthType /\ truth'.last = seen
  BY <1>1, <1>4, <1>10, Zenon DEF TruthType
<1>12. Idle \in CollectorType /\ Idle.pc = "idle"
  BY <1>1 DEF Idle, CollectorType, PlansType, NoPlans
<1>13. ReadsTypeOK'
  BY <1>1, <1>4, <1>5, <1>9, <1>11, <1>12
     DEF ReadsTypeOK, RootOrNone, RowType, PlansType, CollectorType, GoodType, TruthType, venueVars
<1>14. PlansAreSeen'
  BY <1>4, <1>12 DEF PlansAreSeen
<1>15. ProofIsRecent'
  BY <1>7, <1>9, <1>10, <1>11 DEF ProofIsRecent
<1> QED BY <1>13, <1>14, <1>15 DEF ReadsInv

-----------------------------------------------------------------------------
(* Reads: the theorems.                                                    *)

\* At the start nothing was read.
LEMMA ReadsStart == ReadsInit => ReadsInv
<1> SUFFICES ASSUME ReadsInit PROVE ReadsInv
  OBVIOUS
<1>1. 0 \in Epochs /\ None \in RootOrNone /\ "proofs" \in Kinds
  BY ReadsAssumption DEF Epochs, ReadsAssumption, RootOrNone, Kinds
<1>2. NoRow \in RowType /\ NoPlans \in PlansType /\ NoPair \in RootOrNone \X Epochs
  BY <1>1 DEF NoRow, RowType, NoPlans, PlansType, NoPair
<1>3. Idle \in CollectorType /\ Idle.pc = "idle"
  BY <1>2 DEF Idle, CollectorType
<1>4. /\ pos \in [epoch: Epochs, root: RootOrNone, plans: RootOrNone]
      /\ opened \in Epochs
      /\ born \in [Roots -> Epochs] /\ reg \in [Roots -> Epochs] /\ bound \in [Roots -> Epochs]
      /\ owned \subseteq Roots
      /\ collector \in CollectorType
      /\ trade \in [root: RootOrNone, row: RowType]
      /\ lastOk \in [Kinds -> BOOLEAN] /\ ~lastOk["proofs"]
      /\ good \in GoodType
      /\ truth \in TruthType
  BY <1>1, <1>2, <1>3 DEF ReadsInit, NoPosition, NoTrade, GoodType, TruthType
<1>5. ReadsTypeOK
  BY <1>4, ReadsTypes
<1>6. collector.pc = "idle"
  BY <1>3 DEF ReadsInit
<1> QED BY <1>4, <1>5, <1>6 DEF ReadsInv, ProofIsRecent, PlansAreSeen

\* Every read, write and change at the venue keeps the invariant.
LEMMA ReadsSteps == ReadsInv /\ [ReadsNext]_readVars => ReadsInv'
<1> SUFFICES ASSUME ReadsInv, [ReadsNext]_readVars PROVE ReadsInv'
  OBVIOUS
<1>1. CASE UNCHANGED readVars
  BY <1>1 DEF readVars, ReadsInv, ReadsTypeOK, ProofIsRecent, PlansAreSeen
<1>2. CASE ReadsNext
  BY <1>2, VenueKeeps, TradeKeeps, UnidentifiedKeeps, StopKeeps, PositionsKeep, PlansKeep,
     ProofKeeps
     DEF ReadsNext
<1> QED BY <1>1, <1>2

\* Whatever order the venue is read in, the last proof is of the last round.
THEOREM ReadsInvariant == ReadsSpec => []ReadsInv
<1> QED BY ReadsStart, ReadsSteps, PTL DEF ReadsSpec

\* What the console reads and holds stays in its range.
THEOREM ReadsTypeCorrect == ReadsSpec => []ReadsTypeOK
<1>1. ReadsInv => ReadsTypeOK
  BY DEF ReadsInv
<1> QED BY <1>1, ReadsInvariant, PTL

\* An entry shown as protected had all its plans, and its position, at the last reading that
\* came to its end, however many were stopped since.
THEOREM ShownIsTrue == ReadsSpec => []ShownProtectionIsTrue
<1>1. ReadsInv => ShownProtectionIsTrue
  <2> SUFFICES ASSUME ReadsInv, ShownProtected # NoPair PROVE ShownProtected = truth.last
    BY DEF ShownProtectionIsTrue
  <2>1. /\ Fresh /\ good["proofs"] = ShownProtected
    BY DEF ShownProtected
  <2>2. lastOk["proofs"]
    BY <2>1 DEF Fresh, Kinds
  <2> QED BY <2>1, <2>2 DEF ReadsInv, ProofIsRecent
<1> QED BY <1>1, ReadsInvariant, PTL

=============================================================================
