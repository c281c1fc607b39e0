-------------------------------- MODULE Sync --------------------------------
(***************************************************************************)
(* The client side of the token life cycle: ccb processes (the watch       *)
(* daemon, the cron fallback, the session hook, `ccb use`) that sync the   *)
(* credential targets of a host, the user who logs in there, the Claude    *)
(* Code that reads the target, and the broker they talk to.                *)
(*                                                                         *)
(* The broker is CredSpec made executable: one atomic step per change of a *)
(* record, which is what module Broker is shown to implement.  A sync is   *)
(* one step per request or file access of syncTarget.                      *)
(***************************************************************************)
EXTENDS Records

CONSTANTS
    Creds, Targets,
    Syncs,          \* ccb processes; each syncs one target at a time
    NoLocal,        \* an empty target
    Rotating, MaxAge, FaultKinds, MaxFaults,    \* as in module OAuth
    ClaudeRefreshes,    \* may Claude Code refresh a login not handed over yet?
    WindowHit,      \* may the target change between the re-read and the rename?
    MaxUses         \* bound: switches of @active

VARIABLES
    latest, age, faults,    \* the upstream server
    cred,       \* the records of the broker
    local,      \* the credential at each target
    active,     \* the activeFile, which @active resolves to
    uses,       \* switches so far
    loggedIn,   \* lineages whose login happened
    handed,     \* history: tokens that were current in the broker
    sync        \* the ccb processes

upVars == <<latest, age, faults>>
vars == <<latest, age, faults, cred, local, active, uses, loggedIn, handed, sync>>

\* A credential at a target; rt: with the refresh token.
Local == [tok : Token, rt : BOOLEAN]
HasRT(d) == local[d] # NoLocal /\ local[d].rt
OnDisk == {local[d].tok : d \in {x \in Targets : HasRT(x)}}

Up == INSTANCE OAuth WITH held <- OnDisk, ExternalRefreshes <- FALSE

Live(k) == Up!Live(k)
CanRefresh(k) == Up!CanRefresh(k)

ASSUME SyncAssumption ==
    /\ Creds # {} /\ Targets # {} /\ Syncs # {} /\ NoLocal \notin Local
    /\ Rotating \in BOOLEAN /\ MaxAge \in 0..2 /\ MaxFaults \in Nat
    /\ ClaudeRefreshes \in BOOLEAN /\ WindowHit \in BOOLEAN /\ MaxUses \in Nat

\* snap: what the target held when the cycle began; verdict: the answer of the
\* offer; env: the token of the GET.
Reasons == {"none", "adopted", "already_current", "rollback", "offer_not_live", "unknown_account", "retry"}
PCs == {"idle", "offer", "get", "reread", "write"}
SyncState == [pc : PCs, target : Targets, snap : Local \cup {NoLocal}, reason : Reasons, env : Token]

AnyTok == CHOOSE t \in Token : TRUE
Idle == [pc |-> "idle", target |-> CHOOSE d \in Targets : TRUE, snap |-> NoLocal,
         reason |-> "none", env |-> AnyTok]

\* An imported store and @active already chosen; a target is empty or still
\* holds the login that was imported from it.
Init ==
    /\ latest = [l \in Lineages |-> 1]
    /\ age = [l \in Lineages |-> [i \in 1..MaxSeq |-> 0]]
    /\ faults = 0
    /\ cred \in [Creds -> {NoRecord} \cup {Fresh(Tok(l, 1)) : l \in Lineages}]
    /\ UniqueAccounts(cred)
    /\ active \in {c \in Creds : Present(cred, c)}
    /\ uses = 0
    /\ handed = {cred[c].tok : c \in {x \in Creds : Present(cred, x)}}
    /\ local \in [Targets -> {NoLocal} \cup {[tok |-> k, rt |-> TRUE] : k \in handed}]
    /\ loggedIn = {k.lin : k \in handed}
    /\ sync = [s \in Syncs |-> Idle]

Goto(s, r) == sync' = [sync EXCEPT ![s] = r]
Done(s) == Goto(s, Idle)

-----------------------------------------------------------------------------
(* The broker: one atomic change of a record each.                         *)

SameGen(g) == g
LaterGen(g) == g + 1

Commit(c, r) ==
    /\ cred' = [cred EXCEPT ![c] = [r EXCEPT !.gen = LaterGen(@)]]
    /\ handed' = handed \cup {r.tok}

\* The refresh of a due credential and the reclaim of a suspect one.
BrokerRefresh(c) ==
    LET r == cred[c]
        k == Tok(r.tok.lin, latest'[r.tok.lin])
    IN  /\ Present(cred, c)
        /\ (r.health = "ok" /\ Up!NeedsRefresh(r.tok)) \/ r.health = "suspect"
        /\ \/ Up!RefreshAnswer(r.tok, "ok") /\ Commit(c, Replace(r, k))
           \/ Up!RefreshAnswer(r.tok, "permanent") /\ Commit(c, [r EXCEPT !.health = "dead"])
           \/ Up!RefreshAnswer(r.tok, "transient") /\ UNCHANGED <<cred, handed>>
        /\ UNCHANGED <<age, local, active, uses, loggedIn, sync>>

\* The verdict of the health poller.
BrokerPoll(c) ==
    /\ Present(cred, c)
    /\ \/ cred[c].health = "ok" /\ ~Live(cred[c].tok) /\ Commit(c, [cred[c] EXCEPT !.health = "suspect"])
       \/ cred[c].health # "ok" /\ Live(cred[c].tok) /\ Commit(c, [cred[c] EXCEPT !.health = "ok"])
    /\ UNCHANGED <<upVars, local, active, uses, loggedIn, sync>>

-----------------------------------------------------------------------------
(* syncTarget.                                                             *)

\* (a) read the target; a refresh token found there is always offered.
ReadLocal(s, d) ==
    /\ sync[s].pc = "idle"
    /\ Goto(s, [Idle EXCEPT !.target = d, !.snap = local[d], !.pc = IF HasRT(d) THEN "offer" ELSE "get"])
    /\ UNCHANGED <<upVars, cred, local, active, uses, loggedIn, handed>>

Offered(s) == sync[s].snap.tok
Verdict(s, why) == Goto(s, [sync[s] EXCEPT !.pc = "get", !.reason = why])

\* (b) The offer finds the token live and routes it to the one credential of
\* its account, which retired it, has it, or adopts it.  The answer may get lost.
OfferRouted(s) ==
    LET k == Offered(s)
        m == Managing(cred, Owner(k))
        answer(why) == \/ Verdict(s, why) /\ UNCHANGED faults
                       \/ Verdict(s, "retry") /\ Up!Fault("lost")
    IN  /\ sync[s].pc = "offer"
        /\ Live(k)
        /\ \/ m = {} /\ answer("unknown_account") /\ UNCHANGED <<cred, handed>>
           \/ \E c \in m : InRing(k, cred[c]) /\ answer("rollback") /\ UNCHANGED <<cred, handed>>
           \/ \E c \in m : ~InRing(k, cred[c]) /\ cred[c].tok = k /\ answer("already_current")
                /\ UNCHANGED <<cred, handed>>
           \/ \E c \in m : ~InRing(k, cred[c]) /\ cred[c].tok # k /\ answer("adopted")
                /\ Commit(c, Replace(cred[c], k))
        /\ UNCHANGED <<latest, age, local, active, uses, loggedIn>>

\* The profile endpoint refuses the token.
OfferNotLive(s) ==
    /\ sync[s].pc = "offer"
    /\ (~Live(Offered(s)) /\ UNCHANGED faults) \/ Up!Fault("fluke")
    /\ Verdict(s, "offer_not_live")
    /\ UNCHANGED <<latest, age, cred, local, active, uses, loggedIn, handed>>

\* Every other answer only means: next cycle (verify_unavailable, conflict,
\* rate_limited, migration_pending, old_broker, offer_error, and
\* fresh_unverified for a token issued a short while ago).
OfferRetry(s) ==
    /\ sync[s].pc = "offer"
    /\ \/ Up!Fault("down")
       \/ ~Live(Offered(s)) /\ ~Up!NeedsRefresh(Offered(s)) /\ UNCHANGED faults
    /\ Verdict(s, "retry")
    /\ UNCHANGED <<latest, age, cred, local, active, uses, loggedIn, handed>>

OverwriteTransient(hasRT, reason, probeLive) ==
    hasRT => reason \in {"adopted", "already_current", "rollback", "retry"}
             \/ (reason = "offer_not_live" /\ probeLive)

OverwriteNever(hasRT, reason, probeLive) == ~hasRT

\* (d) May the credential of the broker be written over the local one?
OverwriteDecision(hasRT, reason, probeLive) ==
    hasRT => reason \in {"adopted", "already_current", "rollback"}
             \/ (reason = "offer_not_live" /\ probeLive)

\* The GET serves a healthy, unexpired token; the gate decides.
Serve(s, c, probeLive) ==
    IF ~Up!Unexpired(cred[c].tok) \/ ~OverwriteDecision(sync[s].snap # NoLocal /\ sync[s].snap.rt, sync[s].reason, probeLive)
    THEN Done(s)
    ELSE Goto(s, [sync[s] EXCEPT !.pc = "reread", !.env = cred[c].tok])

\* The probe of a healthy record.  A cached answer may be about a token that
\* lived a moment ago; an endpoint that is down gives no proof of life.
Probe(c, live) ==
    \/ live /\ UNCHANGED faults
    \/ ~live /\ ~Live(cred[c].tok) /\ UNCHANGED faults
    \/ ~live /\ Live(cred[c].tok) /\ Up!Fault("down")

\* (c) GET of the credential @active names, probed when the gate needs a proof
\* of life.  A live probe heals an unhealthy record; a 404, 409, 503 or no
\* answer keeps the local credential.
GetCred(s) ==
    LET c == active
        probed == sync[s].reason = "offer_not_live"
    IN  /\ sync[s].pc = "get"
        /\ IF ~Present(cred, c) THEN Done(s) /\ UNCHANGED <<cred, handed, faults>>
           ELSE \/ /\ cred[c].health = "ok"
                   /\ IF probed THEN \E live \in BOOLEAN : Probe(c, live) /\ Serve(s, c, live)
                      ELSE Serve(s, c, FALSE) /\ UNCHANGED faults
                   /\ UNCHANGED <<cred, handed>>
                \/ /\ cred[c].health # "ok" /\ probed /\ Live(cred[c].tok)
                   /\ Commit(c, [cred[c] EXCEPT !.health = "ok"])
                   /\ Serve(s, c, TRUE) /\ UNCHANGED faults
                \/ cred[c].health # "ok" /\ Done(s) /\ UNCHANGED <<cred, handed, faults>>
                \/ Up!Fault("down") /\ Done(s) /\ UNCHANGED <<cred, handed>>
        /\ UNCHANGED <<latest, age, local, active, uses, loggedIn>>

SameAssumed(a, b) == TRUE
\* sameOAuth: same access token, same refresh token.
SameOAuth(a, b) == a = b

\* (e) writeIfUnchanged: the target is read again ...
Reread(s) ==
    /\ sync[s].pc = "reread"
    /\ IF SameOAuth(local[sync[s].target], sync[s].snap)
       THEN Goto(s, [sync[s] EXCEPT !.pc = "write"])
       ELSE Done(s)
    /\ UNCHANGED <<upVars, cred, local, active, uses, loggedIn, handed>>

\* ... and renamed over, always without a refresh token.
WriteTarget(s) ==
    /\ sync[s].pc = "write"
    /\ local' = [local EXCEPT ![sync[s].target] = [tok |-> sync[s].env, rt |-> FALSE]]
    /\ Done(s)
    /\ UNCHANGED <<upVars, cred, active, uses, loggedIn, handed>>

-----------------------------------------------------------------------------
(* The user, Claude Code and time.                                         *)

\* Is a ccb process about to rename over target d?
InWindow(d) == \E s \in Syncs : sync[s].pc = "write" /\ sync[s].target = d

\* /login starts a new lineage at a target.
Login(d, l) ==
    /\ l \notin loggedIn
    /\ InWindow(d) => WindowHit
    /\ loggedIn' = loggedIn \cup {l}
    /\ local' = [local EXCEPT ![d] = [tok |-> Tok(l, 1), rt |-> TRUE]]
    /\ UNCHANGED <<upVars, cred, active, uses, handed, sync>>

\* Claude Code refreshes a login that was not handed over in time.
ClaudeRefresh(d) ==
    /\ ClaudeRefreshes
    /\ HasRT(d) /\ CanRefresh(local[d].tok) /\ Up!NeedsRefresh(local[d].tok)
    /\ InWindow(d) => WindowHit
    /\ Up!Mint(local[d].tok.lin)
    /\ local' = [local EXCEPT ![d].tok = Tok(@.lin, latest[@.lin] + 1)]
    /\ UNCHANGED <<age, faults, cred, active, uses, loggedIn, handed, sync>>

\* `ccb use` and auto-rotation write the activeFile.
Use(c) ==
    /\ uses < MaxUses /\ c # active
    /\ active' = c /\ uses' = uses + 1
    /\ UNCHANGED <<upVars, cred, local, loggedIn, handed, sync>>

Ages ==
    /\ UNCHANGED <<cred, local, active, uses, loggedIn, handed, sync>>
    /\ \E l \in loggedIn, i \in 1..MaxSeq : Up!Age(l, i)

SyncStep(s) ==
    \/ OfferRouted(s) \/ OfferNotLive(s) \/ OfferRetry(s)
    \/ GetCred(s) \/ Reread(s) \/ WriteTarget(s)

Next ==
    \/ \E s \in Syncs : SyncStep(s) \/ \E d \in Targets : ReadLocal(s, d)
    \/ \E c \in Creds : BrokerRefresh(c) \/ BrokerPoll(c) \/ Use(c)
    \/ \E d \in Targets : ClaudeRefresh(d) \/ \E l \in Lineages : Login(d, l)
    \/ Ages

Spec == Init /\ [][Next]_vars

\* Every request ends (30 s client timeout), the daemon or the cron fallback
\* syncs every target again and again, a refused token stops looking fresh
\* after 15 minutes, and the loops of the broker keep running.
Fairness ==
    /\ \A s \in Syncs :
        /\ WF_vars(SyncStep(s)) /\ SF_vars(OfferNotLive(s))
        /\ \A d \in Targets : SF_vars(ReadLocal(s, d))
    /\ \A c \in Creds : WF_vars(BrokerRefresh(c)) /\ WF_vars(BrokerPoll(c))

FairSpec == Spec /\ Fairness

-----------------------------------------------------------------------------

\* Every variable has its type.
TypeOK ==
    /\ latest \in [Lineages -> 1..MaxSeq]
    /\ age \in [Lineages -> [1..MaxSeq -> 0..2]]
    /\ faults \in Nat /\ uses \in Nat
    /\ cred \in [Creds -> Record \cup {NoRecord}]
    /\ local \in [Targets -> Local \cup {NoLocal}]
    /\ active \in Creds
    /\ loggedIn \in SUBSET Lineages /\ handed \in SUBSET Token
    /\ sync \in [Syncs -> SyncState]

\* ccb writes target d in this step.
Overwritten(d) == local'[d] # local[d] /\ ~local'[d].rt

\* A sync destroys a refresh token only when the broker got that very token
\* before, or when its access token is no longer accepted -- whoever else
\* syncs, logs in or refreshes meanwhile.
LoginsSecured ==
    [][\A d \in Targets : HasRT(d) /\ Overwritten(d)
            => (local[d].tok \in handed \/ ~Live(local[d].tok))]_vars

\* A login whose refresh token still works is destroyed only when the broker
\* has a working credential for the same account.
SameAccountHeld ==
    [][\A d \in Targets : HasRT(d) /\ Overwritten(d) /\ CanRefresh(local[d].tok)
            => \E c \in Creds : Present(cred, c) /\ cred[c].acct = Owner(local[d].tok) /\ cred[c].health = "ok"]_vars

\* No ping-pong between hosts: a token the broker has replaced is never
\* adopted a second time, however often the host that holds it syncs.
AdoptedOnce ==
    [][\A c \in Creds : Present(cred, c) /\ cred'[c].tok # cred[c].tok => cred'[c].tok \notin handed]_vars

\* Two concurrent logins, lost answers and switches converge: in the end every
\* target holds the current token of @active and no refresh token, unless the
\* broker cannot serve it or the login belongs to an account it does not manage.
Servable(c) == Present(cred, c) /\ cred[c].health = "ok" /\ Up!Unexpired(cred[c].tok)
Foreign(d) == HasRT(d) /\ Managing(cred, Owner(local[d].tok)) = {}

Converges ==
    <>[](\A d \in Targets :
            \/ ~Servable(active) \/ Foreign(d)
            \/ local[d] = [tok |-> cred[active].tok, rt |-> FALSE])

\* The broker as its clients see it keeps the promises of CredSpec.
Lifecycles == INSTANCE CredSpec WITH Imports <- FALSE

KeepsPromises == Lifecycles!Spec
=============================================================================
