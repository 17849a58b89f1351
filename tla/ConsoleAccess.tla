--------------------------- MODULE ConsoleAccess ---------------------------
(***************************************************************************)
(* Who may make the console act: the owner's password sessions (auth.py),  *)
(* the previews, the consent to one exact preview, the request that turns  *)
(* it into a job and the authority a worker asks for (commands.py), as the *)
(* web process (api.py) and the Telegram bot (telegram.py) use them.       *)
(*                                                                         *)
(* A web request finds its session in one transaction, refreshes it in a   *)
(* second and is carried out in a third, so a session may end, or sit idle *)
(* for too long, between any two.  Time is a step that ends a session or a *)
(* preview; a grant (five minutes) outlives the preview (one) it was given *)
(* for, and every use of a grant looks at the preview's window too.  What  *)
(* ConsoleJobs says of leases, locks and adapters is left out here: a job  *)
(* is queued, begun, claimed, cleared and has its effect.                  *)
(***************************************************************************)
EXTENDS Naturals, FiniteSets, FiniteSetsExt

CONSTANTS
    Passwords,     \* password revisions: a hash of the password and the account scope
    MaxSessions,   \* bound: sessions ever created, numbered in that order
    Previews,
    Tier,          \* [Previews -> {1, 2}]: tier 3 never passes the gates of enqueue
    Keys,          \* idempotency keys; a key that was accepted names its job
    BotKey,        \* [Previews -> Keys]: the key Telegram's /confirm derives
    MaxVersions,   \* bound: changes of the previewed resource
    MaxRequests,   \* bound: web requests at work at the same time
    Nil

ASSUME AccessAssumption ==
    /\ Passwords # {}
    /\ {MaxSessions, MaxVersions, MaxRequests} \subseteq Nat
    /\ Tier \in [Previews -> {1, 2}]
    /\ BotKey \in [Previews -> Keys]
    /\ Nil \notin Passwords \cup Previews \cup Keys

VARIABLES
    configured,    \* the password revision of the running web process
    owner,         \* console_principals.revision, Nil before the first login
    session,       \* console_sessions, each with the grant that its consent wrote
    found,         \* the sessions of web requests that auth.principal found valid
    admitted,      \* those it has refreshed and let in
    preview,       \* console_previews
    ticket,        \* console_jobs with their receipts, by key
    version        \* of the resource every preview is about

accessVars == <<configured, owner, session, found, admitted, preview, ticket, version>>

Sessions == 1..MaxSessions
NoGrant == [preview |-> Nil, job |-> Nil]
NoSession == [state |-> "none", epoch |-> Nil, grant |-> NoGrant]
NoPreview == [state |-> "none", session |-> 0, version |-> 0, by |-> Nil]
NoTicket == [state |-> "none", preview |-> Nil, session |-> 0]

\* An idle session was not used for half an hour; an ended one is revoked or past its
\* absolute end.
Session == [state: {"none", "live", "idle", "ended"}, epoch: Passwords \cup {Nil},
            grant: [preview: Previews \cup {Nil}, job: Keys \cup {Nil}]]
Preview == [state: {"none", "planned", "fresh", "expired"}, session: Sessions \cup {0},
            version: 0..MaxVersions, by: Keys \cup {Nil}]
Ticket == [state: {"none", "queued", "running", "claimed", "cleared", "done", "over"},
           preview: Previews \cup {Nil}, session: Sessions \cup {0}]

\* commands._principal: a session of the owner's current password.
Valid(s) == session[s].state = "live" /\ session[s].epoch = owner

-----------------------------------------------------------------------------
(* Sessions *)

NextId == Cardinality({s \in Sessions: session[s].state # "none"}) + 1

\* A process with another password revision takes the place of this one.
Redeploy ==
    /\ configured' \in Passwords \ {configured}
    /\ found' = {} /\ admitted' = {}
    /\ UNCHANGED <<owner, session, preview, ticket, version>>

\* Fault: the sessions of another password are left to fail the comparison of revisions.
OutdatedIgnored(s) == FALSE

\* The sessions that login revokes: those of another password than the process has, or than
\* the owner had.
Outdated(s) == session[s].epoch # configured \/ session[s].epoch # owner

\* AuthService.login with the right password, and the cookie of an old session or none.
Login(old) ==
    /\ NextId \in Sessions
    /\ owner' = configured
    /\ session' = [s \in Sessions |->
          CASE s = NextId -> [state |-> "live", epoch |-> configured, grant |-> NoGrant]
            [] session[s].state \in {"live", "idle"} /\ (Outdated(s) \/ s = old) ->
                  [session[s] EXCEPT !.state = "ended"]
            [] OTHER -> session[s]]
    /\ UNCHANGED <<configured, found, admitted, preview, ticket, version>>

\* AuthService.principal, the cookie check of every request: the session is found valid,
FindSession(s) ==
    /\ s \notin found \cup admitted /\ Cardinality(found \cup admitted) < MaxRequests
    /\ Valid(s) /\ owner = configured
    /\ found' = found \cup {s}
    /\ UNCHANGED <<configured, owner, session, admitted, preview, ticket, version>>

\* What the refresh brings back: it looks at the revocation only, and a session past its
\* absolute end stays past it.
Refreshes(s) == session[s].state = "idle"

\* and last_seen_at is set to now, in a transaction of its own.  The request goes on even
\* when that found no row.
AdmitRequest(s) ==
    /\ s \in found
    /\ found' = found \ {s} /\ admitted' = admitted \cup {s}
    /\ session' = IF Refreshes(s) THEN [session EXCEPT ![s].state = "live"] ELSE session
    /\ UNCHANGED <<configured, owner, preview, ticket, version>>

Served(s) == s \in admitted /\ admitted' = admitted \ {s} /\ UNCHANGED found

\* logout and access/sessions/{id}/revoke: the session itself is not looked at again.
Revoke(s, target) ==
    /\ Served(s)
    /\ session[target].state # "none"
    /\ session' = [session EXCEPT ![target].state = "ended"]
    /\ UNCHANGED <<configured, owner, preview, ticket, version>>

\* AuthService.consent: the session is replaced by one that holds the grant.
Consent(s, p) ==
    /\ Served(s)
    /\ NextId \in Sessions
    /\ preview[p].state = "fresh"
    /\ Valid(s)
    /\ session' = [session EXCEPT
          ![s].state = "ended",
          ![NextId] = [state |-> "live", epoch |-> owner,
                       grant |-> [preview |-> p, job |-> Nil]]]
    /\ UNCHANGED <<configured, owner, preview, ticket, version>>

-----------------------------------------------------------------------------
(* Previews and jobs *)

\* preview: the handler plans on what it reads now,
PlanPreview(s, p) ==
    /\ Served(s)
    /\ Valid(s)
    /\ preview[p].state = "none"
    /\ preview' = [preview EXCEPT ![p] =
          [state |-> "planned", session |-> s, version |-> version, by |-> Nil]]
    /\ UNCHANGED <<configured, owner, session, ticket, version>>

\* and the session is looked at again before the plan is stored.
StorePreview(p) ==
    /\ preview[p].state = "planned"
    /\ Valid(preview[p].session)
    /\ preview' = [preview EXCEPT ![p].state = "fresh"]
    /\ UNCHANGED <<configured, owner, session, found, admitted, ticket, version>>

\* _grant: an unused consent of this session to exactly this preview.
MayGrant(s, p) == session[s].grant = [preview |-> p, job |-> Nil]

\* Fault: a preview that became a job already may become another one.
EnqueueAgain(s, p) ==
    /\ Valid(s)
    /\ preview[p].state = "fresh"
    /\ Tier[p] < 2 => preview[p].session = s
    /\ preview[p].version = version
    /\ Tier[p] >= 2 => MayGrant(s, p)

\* The checks of enqueue behind the receipt.  Gates, phrase and reference are the request's.
MayEnqueue(s, p) ==
    /\ Valid(s)
    /\ preview[p].state = "fresh"
    /\ Tier[p] < 2 => preview[p].session = s
    /\ preview[p].by = Nil
    /\ preview[p].version = version
    /\ Tier[p] >= 2 => MayGrant(s, p)

Enqueued(s, p, k) ==
    /\ ticket' = [ticket EXCEPT ![k] = [state |-> "queued", preview |-> p, session |-> s]]
    /\ preview' = [preview EXCEPT ![p].by = k]
    /\ session' = IF Tier[p] >= 2 THEN [session EXCEPT ![s].grant.job = k] ELSE session
    /\ UNCHANGED <<configured, owner, version>>

\* enqueue over the web.  A key that has its job changes nothing: the request finds its
\* receipt, or a conflict.
Enqueue(s, p, k) ==
    /\ Served(s)
    /\ ticket[k].state = "none"
    /\ MayEnqueue(s, p)
    /\ Enqueued(s, p, k)

\* ConsoleTelegram._principal: the newest session that is valid.
Newest == Max({s \in Sessions: Valid(s)})

\* /confirm: no approval reference is sent, so only a preview of tier 1 gets through.
BotConfirm(p) ==
    /\ Tier[p] < 2
    /\ \E s \in Sessions: Valid(s)
    /\ ticket[BotKey[p]].state = "none"
    /\ MayEnqueue(Newest, p)
    /\ Enqueued(Newest, p, BotKey[p])
    /\ UNCHANGED <<found, admitted>>

\* _decision: takes a consent of its own, given by the session that decides.
Decide(s, k, state) ==
    /\ Served(s)
    /\ Valid(s)
    /\ ticket[k].state = "queued"
    /\ preview[ticket[k].preview].state = "fresh"
    /\ preview[ticket[k].preview].version = version
    /\ MayGrant(s, ticket[k].preview)
    /\ session' = [session EXCEPT ![s].grant.job = k]
    /\ ticket' = [ticket EXCEPT ![k].state = state]
    /\ UNCHANGED <<configured, owner, preview, version>>

\* cancel, as far as it ends the job: any session of the owner will do.
CancelTicket(s, k) ==
    /\ Served(s)
    /\ Valid(s)
    /\ ticket[k].state = "queued"
    /\ ticket' = [ticket EXCEPT ![k].state = "over"]
    /\ UNCHANGED <<configured, owner, session, preview, version>>

-----------------------------------------------------------------------------
(* The authority of a worker *)

\* Fault: the grant of the job is enough.
GrantAlone(k, starting) ==
    LET g == session[ticket[k].session].grant
    IN  Tier[ticket[k].preview] >= 2 =>
            g.job = k /\ g.preview = ticket[k].preview

\* _authority.  Before the effect is claimed the window of the preview, which is the job's,
\* must not have run out.
Authority(k, starting) ==
    LET s == ticket[k].session
        p == ticket[k].preview
        g == session[s].grant
    IN  /\ Valid(s)
        /\ starting => preview[p].state = "fresh"
        /\ Tier[p] >= 2 => g.job = k /\ g.preview = p

Moves(k, from, to) ==
    /\ ticket[k].state = from
    /\ ticket' = [ticket EXCEPT ![k].state = to]
    /\ UNCHANGED <<configured, owner, session, found, admitted, preview, version>>

\* validate_worker_start with its fresh preview, and begin_running.
Begin(k) ==
    /\ Moves(k, "queued", "running")
    /\ preview[ticket[k].preview].version = version
    /\ Authority(k, TRUE)

ClaimTicket(k) == Moves(k, "running", "claimed") /\ Authority(k, TRUE)

\* effect_authority once more, in the transaction that records the intent;
ClearEffect(k) == Moves(k, "claimed", "cleared") /\ Authority(k, FALSE)

\* the POST or the command comes after its commit, and looks at nothing any more.
TakeEffect(k) == Moves(k, "cleared", "done")

\* A check that fails ends the job or, behind the claim, leaves it without an effect.
Refused(k) ==
    \E from \in {"queued", "running", "claimed"}:
        Moves(k, from, "over") /\ ~Authority(k, from # "claimed")

-----------------------------------------------------------------------------
(* Time *)

\* A session that idles out unnoticed can come back only while a request has it, which is
\* where the step is taken: without one it has ended.
IdleOut(s) ==
    /\ session[s].state = "live" /\ s \in found
    /\ session' = [session EXCEPT ![s].state = "idle"]
    /\ UNCHANGED <<configured, owner, found, admitted, preview, ticket, version>>

EndSession(s) ==
    /\ session[s].state \in {"live", "idle"}
    /\ session' = [session EXCEPT ![s].state = "ended"]
    /\ UNCHANGED <<configured, owner, found, admitted, preview, ticket, version>>

\* The window of a preview is looked at up to the claim of the effect.
EndPreview(p) ==
    /\ preview[p].state = "fresh"
    /\ \A k \in Keys: ticket[k].preview = p => ticket[k].state \in {"queued", "running"}
    /\ preview' = [preview EXCEPT ![p].state = "expired"]
    /\ UNCHANGED <<configured, owner, session, found, admitted, ticket, version>>

\* It matters to a plan that is made already and may still be begun.
ChangeResource ==
    /\ version < MaxVersions
    /\ \E p \in Previews: preview[p].state \in {"planned", "fresh"}
    /\ version' = version + 1
    /\ UNCHANGED <<configured, owner, session, found, admitted, preview, ticket>>

-----------------------------------------------------------------------------
AccessInit ==
    /\ configured \in Passwords
    /\ owner = Nil
    /\ session = [s \in Sessions |-> NoSession]
    /\ found = {} /\ admitted = {}
    /\ preview = [p \in Previews |-> NoPreview]
    /\ ticket = [k \in Keys |-> NoTicket]
    /\ version = 0

SessionStep(s) ==
    \/ FindSession(s) \/ AdmitRequest(s) \/ IdleOut(s) \/ EndSession(s)
    \/ \E t \in Sessions: Revoke(s, t)
    \/ \E p \in Previews: Consent(s, p) \/ PlanPreview(s, p)
    \/ \E p \in Previews, k \in Keys: Enqueue(s, p, k)
    \/ \E k \in Keys: CancelTicket(s, k) \/ Decide(s, k, "queued") \/ Decide(s, k, "over")

AccessNext ==
    \/ Redeploy \/ ChangeResource
    \/ \E old \in Sessions \cup {0}: Login(old)
    \/ \E s \in Sessions: SessionStep(s)
    \/ \E p \in Previews: StorePreview(p) \/ BotConfirm(p) \/ EndPreview(p)
    \/ \E k \in Keys: \/ Begin(k) \/ ClaimTicket(k) \/ ClearEffect(k) \/ TakeEffect(k)
                         \/ Refused(k)

AccessSpec == AccessInit /\ [][AccessNext]_accessVars

-----------------------------------------------------------------------------
(* Correctness *)

\* Type invariant, with the key it rests on: a consent is spent on a job of its own preview.
AccessTypeOK ==
    /\ configured \in Passwords
    /\ owner \in Passwords \cup {Nil}
    /\ session \in [Sessions -> Session]
    /\ found \subseteq Sessions /\ admitted \subseteq Sessions
    /\ preview \in [Previews -> Preview]
    /\ ticket \in [Keys -> Ticket]
    /\ version \in 0..MaxVersions
    /\ \A s \in Sessions:
          LET g == session[s].grant
          IN  g.job # Nil => ticket[g.job].preview = g.preview

\* A session that does not work stays so: logged out, replaced, past its absolute end, or of
\* a password that another login has replaced, even when that password comes back (the
\* revoking UPDATE of login).  The one way back is open to a session that sat idle: a request
\* that principal found valid before refreshes it.  A password that is deployed but was never
\* used to log in shuts the web's door only as long as it is deployed.
CutOffStays ==
    [][\A s \in Sessions:
          session[s].state # "none" /\ ~Valid(s) /\ (Valid(s))'
              => session[s].state = "idle" /\ s \in found]_accessVars

\* Job k waits for an effect that was not cleared, and the session that asked for it is over.
CutOff(k) ==
    /\ ticket[k].state \in {"queued", "running", "claimed"}
    /\ session[ticket[k].session].state = "ended"

\* A job whose session is over before its effect was cleared never has one, whatever becomes
\* of the passwords and whoever logs in again ("revocation invalidates ... pending
\* authority", BOT-CONSOLE-UI-API-SPEC.md; _authority).  A session that ends between the check
\* and the POST comes too late.
CutOffJobRests ==
    [][\A k \in Keys: CutOff(k) => (CutOff(k) \/ ticket[k].state = "over")']_accessVars

\* An effect was asked for once and by whom it seems: no other job had the effect of its
\* preview; in tier 1 the session of the preview asked for it; beyond, its session gave a
\* consent to exactly this preview, which paid for this job and nothing else (enqueue's
\* binding of job, preview and consent, through rotations, decisions and repeated keys).
EffectIsWanted ==
    \A k \in Keys: ticket[k].state = "done" =>
        LET p == ticket[k].preview
            s == ticket[k].session
        IN  /\ \A j \in Keys \ {k}: ticket[j].state = "done" => ticket[j].preview # p
            /\ Tier[p] < 2 => preview[p].session = s
            /\ Tier[p] >= 2 => session[s].grant = [preview |-> p, job |-> k]

=============================================================================
