------------------------------- MODULE Watch -------------------------------
(***************************************************************************)
(* The watch daemon of a host and its account rotation: runWatch,          *)
(* longPoll, syncCycle and autoSelect, beside a ccb command (sync, auto,   *)
(* use, policy) that the user or a timer runs at the same time.            *)
(*                                                                         *)
(* The target holds no refresh token here (module Sync has the hand-over   *)
(* of logins) and the broker is what its clients see of it: generations,   *)
(* health, expiry and utilization of its credentials.                      *)
(***************************************************************************)
EXTENDS Integers

CONSTANTS
    N,              \* number of credentials
    MaxScore, Threshold,    \* utilization 0..MaxScore, autoThreshold
    MaxEvents,      \* bound: changes at the broker and commands of the user
    MaxErrors       \* bound: failed requests and unreadable configs

ASSUME WatchAssumption ==
    /\ N \in Nat \ {0} /\ MaxScore \in Nat /\ Threshold \in Nat
    /\ MaxEvents \in Nat /\ MaxErrors \in Nat

Creds == 1..N       \* in the order of their names; 0 is "no such name"
Policies == {"manual", "account", "all"}
Settings == Policies \cup {"", "auto"}     \* autoPolicy, or without one the legacy auto: false, true
Procs == {"watch", "command"}

VARIABLES
    cred,       \* the credentials: generation, health, expiry, account-wide and model scores
    announced,  \* the generation the broker's wake map announced last
    old,        \* a pre-v0.4 broker, which never lets a poll wait?
    active,     \* the @active file
    policy,     \* what agent.json says of it
    target,     \* the credential and generation the target holds
    ident,      \* the credential whose account .claude.json (and so /status) shows
    proc,       \* the sync cycles of the two processes
    poll,       \* the long poll of the watch daemon
    events, errors,
    stale,      \* history: auto switches of the watch since policy became manual
    spins       \* history: polls answered in a row with no wait, progress or announcement

broker == <<cred, announced, old>>
vars == <<broker, active, policy, target, ident, proc, poll, events, errors, stale, spins>>

\* A credential without a usage snapshot scores 0.
Unknown == [gen |-> 0, health |-> "ok", expired |-> FALSE, account |-> 0, model |-> 0]

\* A sync cycle: its step, the policy it loaded, the rows it fetched, the
\* account it switches to, whether it has rows at all, the target it read and
\* the credential it got.
NoCycle == [pc |-> "idle", pol |-> "manual", rows |-> [c \in Creds |-> Unknown], choice |-> 0,
            known |-> FALSE, seen |-> <<0, 0>>, got |-> <<0, 0>>]

\* No long poll is under way; since and throttle outlive one.
NoPoll == [name |-> 0, cur |-> 0, since |-> 0, throttle |-> FALSE]

\* A change that did not advance the generation is throttled.
Pace == IF poll.throttle THEN "sleep" ELSE "idle"

Become(p, cycle) == proc' = [proc EXCEPT ![p] = cycle]
Step(p, pc) == Become(p, [proc[p] EXCEPT !.pc = pc])

\* The token part of the cycle begins: syncTarget reads the target, which
\* follows @active.
ReadTarget(p, known) ==
    Become(p, [NoCycle EXCEPT !.pc = "get", !.pol = proc[p].pol, !.known = known, !.seen = target])

\* A cycle is over: the daemon throttles itself or polls again, a command exits.
Finish(p) ==
    Become(p, IF p = "watch" THEN [NoCycle EXCEPT !.pc = Pace, !.pol = proc[p].pol] ELSE NoCycle)

Event == events < MaxEvents /\ events' = events + 1
Error == errors < MaxErrors /\ errors' = errors + 1

-----------------------------------------------------------------------------
(* The rotation policy.                                                    *)

EffectivePolicy(setting) ==
    CASE setting = "auto" -> "account" [] setting = "" -> "manual" [] OTHER -> setting

\* usageMetric: the model buckets count under "all" only.
Score(r, pol) == IF pol = "all" /\ r.model > r.account THEN r.model ELSE r.account

Eligible(r) == r.health # "dead" /\ ~r.expired
AliveIsFit(r, pol) == Eligible(r)
\* The current account is not left while it is eligible and under the threshold.
Fit(r, pol) == Eligible(r) /\ Score(r, pol) < Threshold

\* The loop over the rows, sorted by name: a first or a better eligible one.
LastBest(rows, pol) == IF \E c \in Creds : Eligible(rows[c])
                       THEN CHOOSE c \in Creds : Eligible(rows[c]) /\ \A d \in Creds : Eligible(rows[d]) => d <= c
                       ELSE 0
Best(rows, pol) ==
    LET best[c \in 0..N] ==
            IF c = 0 THEN 0
            ELSE LET b == best[c - 1]
                     s == Score(rows[c], pol)
                 IN  IF /\ Eligible(rows[c])
                        /\ b = 0 \/ s < Score(rows[b], pol) \/ (s = Score(rows[b], pol) /\ c < b)
                     THEN c ELSE b
    IN  best[N]

Servable(c) == c # 0 /\ cred[c].health = "ok" /\ ~cred[c].expired

-----------------------------------------------------------------------------

\* No account is active yet, or the last by name is; the config is one without
\* autoPolicy.
Init ==
    /\ cred = [c \in Creds |-> [Unknown EXCEPT !.gen = 1]]
    /\ announced = [c \in Creds |-> 1] /\ old \in BOOLEAN
    /\ active \in {0, N} /\ policy \in {"", "auto"} /\ target = <<0, 0>> /\ ident = 0
    /\ proc = [p \in Procs |-> IF p = "watch" THEN [NoCycle EXCEPT !.pol = EffectivePolicy(policy)] ELSE NoCycle]
    /\ poll = NoPoll
    /\ events = 0 /\ errors = 0 /\ stale = 0 /\ spins = 0

-----------------------------------------------------------------------------
(* syncCycle, of either process.                                           *)

\* fetchUsageRows; without rows the account is not rotated but the target is
\* synced.
FetchUsage(p) ==
    /\ proc[p].pc = "fetch"
    /\ \/ proc[p].pol = "manual" /\ ReadTarget(p, TRUE) /\ UNCHANGED errors
       \/ proc[p].pol # "manual" /\ Become(p, [proc[p] EXCEPT !.rows = cred, !.pc = "select"]) /\ UNCHANGED errors
       \/ Error /\ ReadTarget(p, FALSE)
    /\ UNCHANGED <<ident, broker, active, policy, target, poll, events, stale, spins>>

\* autoSelect: the rows are a moment old, the @active file is read now.
AutoSelect(p) ==
    LET rows == proc[p].rows
        pol == proc[p].pol
    IN  \E best \in 0..N :
        /\ proc[p].pc = "select"
        /\ best = Best(rows, pol)
        /\ IF (active # 0 /\ Fit(rows[active], pol)) \/ best \in {0, active}
           THEN ReadTarget(p, TRUE)
           ELSE Become(p, [proc[p] EXCEPT !.pc = "switch", !.choice = best])
        /\ UNCHANGED <<ident, broker, active, policy, target, poll, errors, events, stale, spins>>

WriteActive(p) ==
    /\ proc[p].pc = "switch"
    /\ active' = proc[p].choice
    /\ stale' = IF p = "watch" /\ EffectivePolicy(policy) = "manual" THEN stale + 1 ELSE stale
    /\ ReadTarget(p, TRUE)
    /\ UNCHANGED <<ident, broker, policy, target, poll, errors, events, spins>>

\* @active is resolved now, and the broker asked for it.
GetCred(p) ==
    /\ proc[p].pc = "get"
    /\ \/ /\ Servable(active)
          /\ Become(p, [proc[p] EXCEPT !.got = <<active, cred[active].gen>>, !.pc = "write"])
          /\ UNCHANGED errors
       \/ ~Servable(active) /\ Finish(p) /\ UNCHANGED errors
       \/ Error /\ Finish(p)
    /\ UNCHANGED <<ident, broker, active, policy, target, poll, events, stale, spins>>

UnchangedAssumed(p) == TRUE
OnlyEmpty(p) == target = <<0, 0>>
TargetUnchanged(p) == target = proc[p].seen

IdentityOfSwitch(p) == proc[p].known /\ proc[p].seen[1] # proc[p].got[1]
\* The rows say whose account the credential is.
IdentityKnown(p) == proc[p].known

\* writeIfUnchanged re-reads the target and writes it, after every cycle and
\* not only after a switch.
WriteTarget(p) ==
    /\ proc[p].pc = "write"
    /\ target' = IF TargetUnchanged(p) THEN proc[p].got ELSE target
    /\ IF TargetUnchanged(p) /\ IdentityKnown(p) THEN Step(p, "identity") ELSE Finish(p)
    /\ UNCHANGED <<ident, broker, active, policy, poll, errors, events, stale, spins>>

\* syncIdentity: what the cycle wrote, not what the target holds now.  A
\* .claude.json that is not valid or cannot be written is left for the next cycle.
SyncIdentity(p) ==
    /\ proc[p].pc = "identity"
    /\ \/ ident' = proc[p].got[1] /\ UNCHANGED errors
       \/ Error /\ UNCHANGED ident
    /\ Finish(p)
    /\ UNCHANGED <<broker, active, policy, target, poll, events, stale, spins>>

SyncCycle(p) ==
    FetchUsage(p) \/ AutoSelect(p) \/ WriteActive(p) \/ GetCred(p) \/ WriteTarget(p) \/ SyncIdentity(p)

-----------------------------------------------------------------------------
(* runWatch.                                                               *)

KeepPolicy(pol) == pol
\* The config is loaded again at each iteration; an unreadable one is ignored.
Reload(pol) == EffectivePolicy(policy)

\* With no name to poll the cycle runs on the wait interval.
Iterate ==
    /\ proc["watch"].pc = "idle"
    /\ LET w == proc["watch"]
           pc == IF active = 0 THEN "fetch" ELSE "poll"
       IN  \/ UNCHANGED errors /\ Become("watch", [w EXCEPT !.pol = Reload(w.pol), !.pc = pc])
           \/ Error /\ Step("watch", pc)
    /\ poll' = [poll EXCEPT !.name = active, !.throttle = (active = 0),
                            !.cur = IF active = 0 THEN 0 ELSE announced[active]]
    /\ UNCHANGED <<ident, broker, active, policy, target, events, stale, spins>>

OnlyOf200(name) == IF old \/ ~Servable(name) THEN poll.since ELSE cred[name].gen
\* X-Ccb-Gen, which a 409 and a 503 carry too and a pre-v0.4 broker does not.
AnsweredGen(name) == IF old THEN poll.since ELSE cred[name].gen

\* A 200, 409 or 503: at once when something newer is announced, or when an
\* announcement wakes the poll.  A 200 without progress is throttled.
PollAnswered ==
    LET name == poll.name
        gen == AnsweredGen(name)
        progressed == gen > poll.since
    IN  /\ proc["watch"].pc = "poll"
        /\ old \/ announced[name] > poll.since \/ announced[name] # poll.cur
        /\ poll' = [NoPoll EXCEPT !.since = IF progressed THEN gen ELSE poll.since,
                                  !.throttle = (old \/ Servable(name)) /\ ~progressed]
        /\ spins' = IF progressed THEN 0 ELSE spins + 1
        /\ Step("watch", "fetch")
        /\ UNCHANGED <<ident, broker, active, policy, target, errors, events, stale>>

\* 304 after waitSec, with the generation captured at the start of the wait.
PollTimedOut ==
    /\ proc["watch"].pc = "poll" /\ ~old
    /\ poll' = [NoPoll EXCEPT !.since = IF poll.cur > poll.since THEN poll.cur ELSE poll.since]
    /\ spins' = 0
    /\ Step("watch", "fetch")
    /\ UNCHANGED <<ident, broker, active, policy, target, errors, events, stale>>

PollFailed ==
    /\ proc["watch"].pc = "poll"
    /\ Error
    /\ poll' = [NoPoll EXCEPT !.since = poll.since]
    /\ Step("watch", "sleep")
    /\ UNCHANGED <<ident, broker, active, policy, target, events, stale, spins>>

\* The backoff or the jittered wait interval is over.
Awake ==
    /\ proc["watch"].pc = "sleep"
    /\ spins' = 0
    /\ Step("watch", "idle")
    /\ UNCHANGED <<ident, broker, active, policy, target, poll, errors, events, stale>>

-----------------------------------------------------------------------------
(* The user and the broker.                                                *)

\* sync, auto (which overrides "manual") and use run one cycle.
Command ==
    /\ proc["command"].pc = "idle" /\ Event
    /\ LET pol == EffectivePolicy(policy)
           run(q) == Become("command", [proc["command"] EXCEPT !.pc = "fetch", !.pol = q])
       IN  \/ active' = active /\ (run(pol) \/ (pol = "manual" /\ run("account")))
           \/ active' \in Creds /\ run(pol)
    /\ UNCHANGED <<ident, broker, policy, target, poll, errors, stale, spins>>

\* autoPolicy is set and the legacy key deleted.
SetPolicy ==
    /\ Event
    /\ policy' \in Policies \ {policy}
    /\ stale' = 0
    /\ UNCHANGED <<ident, broker, active, target, proc, poll, errors, spins>>

Change(c, r) == cred' = [cred EXCEPT ![c] = r]

\* A commit: a refresh or an adoption, or a change of health.
Commit(c) ==
    /\ Event
    /\ \/ Change(c, [cred[c] EXCEPT !.gen = cred[c].gen + 1, !.health = "ok", !.expired = FALSE])
       \/ \E h \in {"ok", "suspect", "dead"} \ {cred[c].health} :
              Change(c, [cred[c] EXCEPT !.gen = cred[c].gen + 1, !.health = h])
    /\ UNCHANGED <<ident, announced, old, active, policy, target, proc, poll, errors, stale, spins>>

Announce(c) ==
    /\ announced[c] # cred[c].gen
    /\ announced' = [announced EXCEPT ![c] = cred[c].gen]
    /\ spins' = 0
    /\ UNCHANGED <<ident, cred, old, active, policy, target, proc, poll, errors, events, stale>>

\* The poller has measured a credential, or its token expired.
Measure(c) ==
    /\ Event
    /\ \/ \E s \in (0..MaxScore) \ {cred[c].account} : Change(c, [cred[c] EXCEPT !.account = s])
       \/ \E s \in (0..MaxScore) \ {cred[c].model} : Change(c, [cred[c] EXCEPT !.model = s])
       \/ ~cred[c].expired /\ Change(c, [cred[c] EXCEPT !.expired = TRUE])
    /\ UNCHANGED <<ident, announced, old, active, policy, target, proc, poll, errors, stale, spins>>

-----------------------------------------------------------------------------

RunWatch == SyncCycle("watch") \/ Iterate \/ PollAnswered \/ PollTimedOut \/ Awake

Next ==
    \/ RunWatch \/ PollFailed
    \/ SyncCycle("command") \/ Command \/ SetPolicy
    \/ \E c \in Creds : Commit(c) \/ Announce(c) \/ Measure(c)

Spec == Init /\ [][Next]_vars

\* The daemon goes on (requests and waits end), so does a command, and the
\* broker announces what it commits.
FairSpec ==
    /\ Spec
    /\ WF_vars(RunWatch) /\ WF_vars(SyncCycle("command"))
    /\ \A c \in Creds : WF_vars(Announce(c))

-----------------------------------------------------------------------------

Cred == [gen : Nat, health : {"ok", "suspect", "dead"}, expired : BOOLEAN, account : 0..MaxScore, model : 0..MaxScore]
Held == (0..N) \X Nat
Cycle == [pc : {"idle", "poll", "sleep", "fetch", "select", "switch", "get", "write", "identity"}, pol : Policies,
          rows : [Creds -> Cred], choice : 0..N, known : BOOLEAN, seen : Held, got : Held]

\* Every variable has its type; in particular no process works with a policy
\* the config did not resolve to one of the three.
TypeOK ==
    /\ cred \in [Creds -> Cred] /\ announced \in [Creds -> Nat] /\ old \in BOOLEAN
    /\ active \in 0..N /\ policy \in Settings /\ target \in Held /\ ident \in 0..N
    /\ proc \in [Procs -> Cycle]
    /\ poll \in [name : 0..N, cur : Nat, since : Nat, throttle : BOOLEAN]
    /\ events \in Nat /\ errors \in Nat /\ stale \in Nat /\ spins \in Nat

\* The loop of autoSelect finds the eligible account of the least score, the
\* first by name among equals.
SelectsLeast ==
    \A p \in Procs :
        LET rows == proc[p].rows
            s(c) == Score(rows[c], proc[p].pol)
            b == proc[p].choice
        IN  proc[p].pc = "switch" =>
                /\ Eligible(rows[b])
                /\ \A c \in Creds : Eligible(rows[c]) => s(b) < s(c) \/ (s(b) = s(c) /\ b <= c)

\* The daemon and a command that sync at the same time never put an older
\* generation of a credential over a newer one.
TargetNeverOlder == [][target'[1] = target[1] => target'[2] >= target[2]]_vars

\* The daemon does not hot-loop: a second answer in a row that took no wait
\* must bring a new generation, whatever broker it talks to and also when
\* @active moves to a credential with other generations.
NoHotLoop == spins <= 1

\* After `ccb policy manual` the running daemon switches the account at most
\* once more, and once for each config it could not read.
ManualSticks == stale <= 1 + errors

\* The target ends up with the newest token of the active account, when the
\* broker serves it.
FollowsActive ==
    LET behind == Servable(active) /\ target # <<active, cred[active].gen>>
    IN  behind ~> ~behind

\* /status and the token come to agree: while the broker serves the active
\* account and the target holds its token, .claude.json does not go on showing
\* another account, whoever wrote what in which order.
IdentityFollows ==
    LET behind == Servable(active) /\ target[1] = active /\ ident # active
    IN  behind ~> ~behind

\* With a rotation policy, an account that is dead, expired or spent does not
\* stay active while a better one is eligible.
Rotates ==
    LET pol == EffectivePolicy(policy)
        settled == \/ pol = "manual"
                   \/ active # 0 /\ Eligible(cred[active]) /\ Score(cred[active], pol) < Threshold
                   \/ Best(cred, pol) \in {0, active}
    IN  ~settled ~> settled
=============================================================================
