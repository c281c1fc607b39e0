------------------------------- MODULE Broker -------------------------------
(***************************************************************************)
(* ccbrokerd: the credential store, the per-credential mutex, and every    *)
(* activity that changes a record -- GET, the refresh loop, the health     *)
(* poller, offer/adopt, the admin operations -- as concurrent threads,     *)
(* with process crashes and failing saves.                                 *)
(*                                                                         *)
(* A thread runs one request or one loop iteration at a time.  Its steps   *)
(* are cut where another thread can get in between: at every lock          *)
(* operation, upstream call, read of the store and commit.                 *)
(***************************************************************************)
EXTENDS OAuth, Records, FiniteSets

CONSTANTS
    Creds,          \* credential names
    Threads,        \* goroutines: request handlers and the two loops
    Ops,            \* Ops[t]: the activities thread t may run
    NoThread, NoProbe,
    ServeRefreshToken,  \* the config escape hatch: serve refresh tokens too
    MaxCommits,     \* bound: admin operations stop after so many commits
    MaxNow,         \* bound of the wall clock
    ClockSteps      \* may the wall clock be set back?

OpNames == {"get", "probeget", "loop", "poll", "offer", "import", "adminrefresh", "delete", "crash"}

ASSUME BrokerAssumption ==
    /\ Creds # {} /\ Threads # {} /\ NoThread \notin Threads
    /\ Ops \in [Threads -> SUBSET OpNames]
    /\ MaxCommits \in Nat /\ MaxNow \in Nat
    /\ ClockSteps \in BOOLEAN /\ ServeRefreshToken \in BOOLEAN

VARIABLES
    mem,        \* store.data: the records in memory
    disk,       \* the store file
    up,         \* is the process serving?
    now,        \* the wall clock, as far as generations see it
    lock,       \* the per-credential mutex: its holder or NoThread
    backoff,    \* credentials in transient backoff
    aged,       \* credentials whose HealthSince is reclaimDelay old
    probe,      \* the liveness probe cache
    storeVer,   \* count of completed commits since the start
    th,         \* the threads
    minted,     \* history: newest pair of a lineage minted for the broker
    acked       \* history: <<c, token>> a client was told the broker holds,
                \* since an admin last deleted c

storeVars == <<mem, disk>>
history == <<minted, acked>>
volatile == <<lock, backoff, probe, storeVer>>
vars == <<oauthVars, mem, disk, up, now, lock, backoff, aged, probe, storeVer, th, history>>

-----------------------------------------------------------------------------
(* Threads.                                                                *)

PCs == {"idle", "lock", "refresh", "put", "bump", "probe", "respond", "profile", "deadprobe",
        "confirm", "transition", "ifaged", "reclaim", "verify", "route", "adopt",
        "verifyimport", "unique", "install", "adminlock"}

\* What a thread is doing: a poll becomes a dead re-probe or a reclaim, and a
\* probed GET a self-heal.
Activities == OpNames \cup {"none", "deadpoll", "reclaim", "heal"}

Thread == [pc : PCs, op : Activities, c : Creds, tok : Token, rec : Record, nr : Record,
           to : Health, ver : Nat, retry : BOOLEAN, flag : BOOLEAN]

AnyTok == Tok(CHOOSE l \in Lineages : TRUE, 1)
Blank == [Fresh(AnyTok) EXCEPT !.gen = 0]
Idle == [pc |-> "idle", op |-> "none", c |-> CHOOSE c \in Creds : TRUE, tok |-> AnyTok,
         rec |-> Blank, nr |-> Blank, to |-> "ok", ver |-> 0, retry |-> FALSE, flag |-> FALSE]

At(t, pc) == up /\ th[t].pc = pc
Starts(t, op) == At(t, "idle") /\ op \in Ops[t]

Become(t, r) == th' = [th EXCEPT ![t] = r]
Done(t) == Become(t, Idle)
Goto(t, pc) == Become(t, [th[t] EXCEPT !.pc = pc])

Free(c) == lock[c] = NoThread
Acquire(t, c) == lock' = [lock EXCEPT ![c] = t]
Release(c) == lock' = [lock EXCEPT ![c] = NoThread]

-----------------------------------------------------------------------------
(* Pure helpers of the server.                                             *)

NextGenNow(stored) == IF now > stored THEN now ELSE stored
NextGenEarly(stored) == now - 1

\* Greater than the stored generation and, if the clock allows, the clock.
NextGen(stored) == IF now > stored + 1 THEN now ELSE stored + 1

Due(r) == r.health = "ok" /\ NeedsRefresh(r.tok)

-----------------------------------------------------------------------------
(* The initial states: an imported, migrated store and a running process.  *)

Init ==
    /\ OAuthInit
    /\ mem \in [Creds -> {NoRecord} \cup {Fresh(Tok(l, 1)) : l \in Lineages}]
    /\ UniqueAccounts(mem)
    /\ disk = mem
    /\ up = TRUE /\ now = 0
    /\ lock = [c \in Creds |-> NoThread]
    /\ backoff = {} /\ aged = {}
    /\ probe = [c \in Creds |-> NoProbe]
    /\ storeVer = 0
    /\ th = [t \in Threads |-> Idle]
    /\ minted = [l \in Lineages |-> 0]
    /\ acked = {}

-----------------------------------------------------------------------------
(* commit: the single mutation primitive, in two steps.  The thread holds  *)
(* the mutex of its credential and has the new record in nr.               *)

Stored(t) ==
    LET c == th[t].c
        prev == IF Present(mem, c) THEN mem[c].gen ELSE 0
    IN  [th[t].nr EXCEPT !.gen = NextGen(prev)]

\* Where the activity of t goes once it is done with the mutex, r being the
\* record it got: a GET answers with r (after the probe it asked for), a poll
\* looks at the reclaim delay, everything else ends.
Finish(t, r) ==
    LET next(pc, x) == [Idle EXCEPT !.pc = pc, !.op = th[t].op, !.c = th[t].c, !.rec = x,
                                    !.flag = th[t].flag]
    IN  Become(t, CASE th[t].op = "get"      -> next("respond", r)
                    [] th[t].op = "probeget" -> next("probe", r)
                    [] th[t].op = "heal"     -> next("respond", [r EXCEPT !.health = "ok"])
                    [] th[t].op = "poll"     -> next("ifaged", Blank)
                    [] OTHER                 -> Idle)

WriteBehind == disk
\* saveLocked writes the whole map.
WriteThrough == mem'

\* store.Put: the memory first, then the whole map is written and renamed.
PutSaved(t) ==
    LET c == th[t].c IN
    /\ At(t, "put")
    /\ mem' = [mem EXCEPT ![c] = Stored(t)]
    /\ disk' = WriteThrough
    /\ aged' = aged \ {c}
    /\ Become(t, [th[t] EXCEPT !.pc = "bump", !.nr = Stored(t)])
    /\ UNCHANGED <<oauthVars, up, now, volatile, history>>

\* The save fails: the memory keeps the record, no version is counted and
\* nobody is woken.  doRefresh then returns the OLD record -- or the dead one,
\* whose commit error it ignores -- and an offer or an import answers 500.
PutUnsaved(t) ==
    LET c == th[t].c IN
    /\ At(t, "put")
    /\ Fault("save")
    /\ mem' = [mem EXCEPT ![c] = Stored(t)]
    /\ aged' = aged \ {c}
    /\ Release(c)
    /\ Finish(t, IF th[t].nr.health = "dead" THEN th[t].nr ELSE th[t].rec)
    /\ UNCHANGED <<latest, age, held, disk, up, now, backoff, probe, storeVer, history>>

\* The rest of commit and of its caller: count the version, wake the pollers,
\* forget the backoff of a refreshed credential, unlock, answer.
Bump(t) ==
    LET c == th[t].c
        refreshed == th[t].op \in {"get", "probeget", "loop", "adminrefresh"} /\ th[t].nr.health = "ok"
    IN  /\ At(t, "bump")
        /\ storeVer' = storeVer + 1
        /\ backoff' = IF refreshed THEN backoff \ {c} ELSE backoff
        /\ Release(c)
        /\ acked' = IF th[t].op = "offer" /\ Present(mem, c) THEN acked \cup {<<c, th[t].tok>>} ELSE acked
        /\ Finish(t, IF th[t].op = "heal" THEN th[t].rec ELSE th[t].nr)
        /\ UNCHANGED <<oauthVars, storeVars, up, now, aged, probe, minted>>

-----------------------------------------------------------------------------
(* doRefresh and reclaim: one use of the stored refresh token, under the   *)
(* mutex.  th[t].rec is the record read after locking.                     *)

\* Which failures mean that the refresh token is gone: invalid_grant,
\* invalid_client and unauthorized_client, but no 429, 5xx or lost answer.
PermanentToo(a) == a \in {"permanent", "transient"}
Permanent(a) == a = "permanent"

\* 200: the minted pair replaces the stored one.
RefreshOK(t) ==
    LET r == th[t].rec
        k == Tok(r.tok.lin, latest'[r.tok.lin])
    IN  /\ At(t, "refresh")
        /\ RefreshAnswer(r.tok, "ok")
        /\ minted' = [minted EXCEPT ![k.lin] = k.seq]
        /\ Become(t, [th[t] EXCEPT !.pc = "put", !.nr = Replace(r, k)])
        /\ UNCHANGED <<age, held, storeVars, up, now, volatile, aged, acked>>

RefreshDead(t) ==
    LET r == th[t].rec IN
    /\ At(t, "refresh")
    /\ \E a \in {"permanent", "transient"} : Permanent(a) /\ RefreshAnswer(r.tok, a)
    /\ Become(t, [th[t] EXCEPT !.pc = "put", !.nr = [r EXCEPT !.health = "dead"]])
    /\ UNCHANGED <<age, held, storeVars, up, now, volatile, aged, history>>

\* Anything else is transient: back off (reclaim does not) and keep the record,
\* even when the server did mint a pair whose answer was lost.
RefreshTransient(t) ==
    LET r == th[t].rec
        l == r.tok.lin
    IN  /\ At(t, "refresh")
        /\ ~Permanent("transient") /\ RefreshAnswer(r.tok, "transient")
        /\ minted' = IF latest'[l] # latest[l] THEN [minted EXCEPT ![l] = latest'[l]] ELSE minted
        /\ backoff' = IF th[t].op = "reclaim" THEN backoff ELSE backoff \cup {th[t].c}
        /\ Release(th[t].c)
        /\ Finish(t, r)
        /\ UNCHANGED <<age, held, storeVars, up, now, probe, storeVer, aged, acked>>

-----------------------------------------------------------------------------
(* GET: ensureFresh, the optional probe, the answer.                       *)

Get(t, op, c) ==
    /\ op \in {"get", "probeget"}
    /\ Starts(t, op)
    /\ Present(mem, c)
    /\ Become(t, [Idle EXCEPT !.op = op, !.c = c, !.rec = mem[c],
                    !.pc = IF Due(mem[c]) THEN "lock" ELSE IF op = "get" THEN "respond" ELSE "probe"])
    /\ UNCHANGED <<oauthVars, storeVars, up, now, volatile, aged, history>>

RereadNot(t) == th[t].rec
\* The record is read again under the mutex.
Reread(t) == mem[th[t].c]

\* Another thread may have refreshed meanwhile; in backoff the record is
\* served as it is.
EnsureFreshLocked(t) ==
    LET c == th[t].c IN
    /\ At(t, "lock")
    /\ Free(c)
    /\ IF Present(mem, c) /\ Due(Reread(t)) /\ c \notin backoff
       THEN Acquire(t, c) /\ Become(t, [th[t] EXCEPT !.pc = "refresh", !.rec = Reread(t)])
       ELSE /\ IF Present(mem, c) THEN Finish(t, Reread(t)) ELSE Done(t)
            /\ UNCHANGED lock
    /\ UNCHANGED <<oauthVars, storeVars, up, now, backoff, probe, storeVer, aged, history>>

\* A cached probe of the same generation answers without an upstream call.
Cached(t) == probe[th[t].c] # NoProbe /\ probe[th[t].c].gen = th[t].rec.gen

\* The answer of the probe: a live token of an unhealthy record heals it.
Probed(t, live) ==
    Become(t, IF live /\ th[t].rec.health # "ok"
              THEN [th[t] EXCEPT !.pc = "transition", !.op = "heal", !.to = "ok", !.flag = TRUE]
              ELSE [th[t] EXCEPT !.pc = "respond", !.flag = live])

ProbeCached(t) ==
    /\ At(t, "probe")
    /\ Cached(t)
    /\ Probed(t, probe[th[t].c].live)
    /\ UNCHANGED <<oauthVars, storeVars, up, now, volatile, aged, history>>

ProbeCred(t) ==
    /\ At(t, "probe")
    /\ ~Cached(t)
    /\ \E a \in {"ok", "auth", "down"} :
        /\ ProfileAnswer(th[t].rec.tok, a)
        /\ probe' = [probe EXCEPT ![th[t].c] = [gen |-> th[t].rec.gen, live |-> a = "ok"]]
        /\ Probed(t, a = "ok")
    /\ UNCHANGED <<latest, age, held, storeVars, up, now, lock, backoff, storeVer, aged, history>>

ProbeExpires(c) ==
    /\ up /\ probe[c] # NoProbe
    /\ probe' = [probe EXCEPT ![c] = NoProbe]
    /\ UNCHANGED <<oauthVars, storeVars, up, now, lock, backoff, storeVer, aged, th, history>>

\* A healthy, unexpired snapshot is served, anything else is a 409 or a 503.
\* Unless configured otherwise the refresh token is stripped.
Serves(t) == th[t].rec.health = "ok" /\ Unexpired(th[t].rec.tok)

Respond(t) ==
    /\ At(t, "respond")
    /\ held' = IF ServeRefreshToken /\ Serves(t) THEN held \cup {th[t].rec.tok} ELSE held
    /\ Done(t)
    /\ UNCHANGED <<latest, age, faults, storeVars, up, now, volatile, aged, history>>

-----------------------------------------------------------------------------
(* refreshDue: one credential of the 60 s loop.                            *)

\* TryLock; a busy credential and one in backoff are left to the next tick.
RefreshDue(t, c) ==
    /\ Starts(t, "loop")
    /\ Present(mem, c) /\ Due(mem[c]) /\ Free(c) /\ c \notin backoff
    /\ Acquire(t, c)
    /\ Become(t, [Idle EXCEPT !.pc = "refresh", !.op = "loop", !.c = c, !.rec = mem[c]])
    /\ UNCHANGED <<oauthVars, storeVars, up, now, backoff, probe, storeVer, aged, history>>

BackoffForever(c) == FALSE
BackoffEnds(c) ==
    /\ up /\ c \in backoff
    /\ backoff' = backoff \ {c}
    /\ UNCHANGED <<oauthVars, storeVars, up, now, lock, probe, storeVer, aged, th, history>>

-----------------------------------------------------------------------------
(* pollOne: the health poller.                                             *)

\* flag: the token was unexpired when the poll read the record.
PollOne(t, c) ==
    /\ Starts(t, "poll")
    /\ Present(mem, c)
    /\ Become(t, [Idle EXCEPT !.c = c, !.rec = mem[c], !.flag = Unexpired(mem[c].tok),
                    !.pc = IF mem[c].health = "dead" THEN "deadprobe" ELSE "profile",
                    !.op = IF mem[c].health = "dead" THEN "deadpoll" ELSE "poll"])
    /\ UNCHANGED <<oauthVars, storeVars, up, now, volatile, aged, history>>

ToHealth(t, h) == Become(t, [th[t] EXCEPT !.pc = "transition", !.to = h])

DeadProbeIgnored(t) ==
    /\ At(t, "deadprobe") /\ Done(t)
    /\ UNCHANGED <<oauthVars, storeVars, up, now, volatile, aged, history>>

\* The (half-hourly) re-probe of a dead credential.
DeadProbe(t) ==
    /\ At(t, "deadprobe")
    /\ \E a \in {"ok", "auth", "down"} :
        /\ ProfileAnswer(th[t].rec.tok, a)
        /\ IF a = "ok" THEN ToHealth(t, "ok") ELSE Done(t)
    /\ UNCHANGED <<latest, age, held, storeVars, up, now, volatile, aged, history>>

PollProfile(t) ==
    /\ At(t, "profile")
    /\ \E a \in {"ok", "auth", "down"} :
        /\ ProfileAnswer(th[t].rec.tok, a)
        /\ CASE a = "auth" /\ th[t].flag /\ th[t].rec.health # "suspect" -> Goto(t, "confirm")
             [] a = "ok" /\ th[t].rec.health = "suspect" -> ToHealth(t, "ok")
             [] OTHER -> Goto(t, "ifaged")
    /\ UNCHANGED <<latest, age, held, storeVars, up, now, volatile, aged, history>>

\* confirmAuthFailure, at least 10 s later.
PollConfirm(t) ==
    /\ At(t, "confirm")
    /\ \E a \in {"ok", "auth", "down"} :
        /\ ProfileAnswer(th[t].rec.tok, a)
        /\ IF a = "auth" THEN ToHealth(t, "suspect") ELSE Goto(t, "ifaged")
    /\ UNCHANGED <<latest, age, held, storeVars, up, now, volatile, aged, history>>

EvidenceAssumed(t) == Present(mem, th[t].c) /\ mem[th[t].c].health # th[t].to

\* Is the evidence of t still about the stored record?
EvidenceCurrent(t) ==
    LET c == th[t].c IN
    Present(mem, c) /\ mem[c].health # th[t].to /\ mem[c].gen = th[t].rec.gen

\* transitionHealth: dropped under the mutex when the record has moved on.
TransitionHealth(t) ==
    LET c == th[t].c IN
    /\ At(t, "transition")
    /\ Free(c)
    /\ IF EvidenceCurrent(t)
       THEN /\ Acquire(t, c)
            /\ Become(t, [th[t] EXCEPT !.pc = "put", !.nr = [mem[c] EXCEPT !.health = th[t].to]])
       ELSE Finish(t, th[t].rec) /\ UNCHANGED lock
    /\ UNCHANGED <<oauthVars, storeVars, up, now, backoff, probe, storeVer, aged, history>>

\* reclaimDelay has passed since the credential became suspect.
GrowsOld(c) ==
    /\ up /\ Present(mem, c) /\ mem[c].health = "suspect" /\ c \notin aged
    /\ aged' = aged \cup {c}
    /\ UNCHANGED <<oauthVars, storeVars, up, now, volatile, th, history>>

ReclaimNever(c) == FALSE
ReclaimDue(c) == Present(mem, c) /\ mem[c].health = "suspect" /\ c \in aged

PollIfAged(t) ==
    LET c == th[t].c IN
    /\ At(t, "ifaged")
    /\ IF ReclaimDue(c)
       THEN Become(t, [Idle EXCEPT !.pc = "reclaim", !.op = "reclaim", !.c = c])
       ELSE Done(t)
    /\ UNCHANGED <<oauthVars, storeVars, up, now, volatile, aged, history>>

\* reclaim: an offer may have adopted before the mutex was ours.
Reclaim(t) ==
    LET c == th[t].c IN
    /\ At(t, "reclaim")
    /\ Free(c)
    /\ IF Present(mem, c) /\ mem[c].health = "suspect"
       THEN Acquire(t, c) /\ Become(t, [th[t] EXCEPT !.pc = "refresh", !.rec = mem[c]])
       ELSE Done(t) /\ UNCHANGED lock
    /\ UNCHANGED <<oauthVars, storeVars, up, now, backoff, probe, storeVer, aged, history>>

-----------------------------------------------------------------------------
(* handleOffer: a client hands in a token it holds with the refresh token. *)

\* The store version is read before the verification.
Offer(t, k) ==
    /\ Starts(t, "offer")
    /\ k \in held
    /\ Become(t, [Idle EXCEPT !.pc = "verify", !.op = "offer", !.tok = k, !.ver = storeVer])
    /\ UNCHANGED <<oauthVars, storeVars, up, now, volatile, aged, history>>

\* (b) outside any mutex; anything but a 200 ends the offer.
OfferVerify(t) ==
    /\ At(t, "verify")
    /\ \E a \in {"ok", "auth", "down"} :
        /\ ProfileAnswer(th[t].tok, a)
        /\ IF a = "ok" THEN Goto(t, "route") ELSE Done(t)
    /\ UNCHANGED <<latest, age, held, storeVars, up, now, volatile, aged, history>>

\* (c) route by account, (d) refuse a token of the ring.
OfferRoute(t) ==
    LET m == Managing(mem, Owner(th[t].tok)) IN
    /\ At(t, "route")
    /\ \/ \E c \in m :
            /\ m = {c} /\ ~InRing(th[t].tok, mem[c])
            /\ Become(t, [th[t] EXCEPT !.pc = "adopt", !.c = c, !.rec = mem[c]])
       \/ /\ Cardinality(m) # 1 \/ \E c \in m : InRing(th[t].tok, mem[c])
          /\ Done(t)
    /\ UNCHANGED <<oauthVars, storeVars, up, now, volatile, aged, history>>

StoreAssumed(t) == TRUE

\* Nothing was committed since the offer was verified and routed.
StoreUnchanged(t) == mem[th[t].c].gen = th[t].rec.gen /\ storeVer = th[t].ver

\* (e) under the mutex of the match: redo once if the store changed, report a
\* token that is already current, else adopt.
OfferAdopt(t) ==
    LET c == th[t].c
        k == th[t].tok
        again == [Idle EXCEPT !.pc = "verify", !.op = "offer", !.tok = k, !.ver = storeVer, !.retry = TRUE]
    IN  /\ At(t, "adopt")
        /\ Free(c)
        /\ \/ /\ ~Present(mem, c)
              /\ Done(t) /\ UNCHANGED <<lock, acked>>
           \/ /\ Present(mem, c) /\ ~StoreUnchanged(t)
              /\ Become(t, IF th[t].retry THEN Idle ELSE again)
              /\ UNCHANGED <<lock, acked>>
           \/ /\ Present(mem, c) /\ StoreUnchanged(t) /\ mem[c].tok = k
              /\ acked' = acked \cup {<<c, k>>}
              /\ Done(t) /\ UNCHANGED lock
           \/ /\ Present(mem, c) /\ StoreUnchanged(t) /\ mem[c].tok # k
              /\ Acquire(t, c)
              /\ Become(t, [th[t] EXCEPT !.pc = "put", !.nr = Replace(mem[c], k)])
              /\ UNCHANGED acked
        /\ UNCHANGED <<oauthVars, storeVars, up, now, backoff, probe, storeVer, aged, minted>>

-----------------------------------------------------------------------------
(* The admin operations.                                                   *)

\* adminPut: verify and check uniqueness outside the mutex, then replace.
AdminPut(t, c, k) ==
    /\ Starts(t, "import")
    /\ k \in held
    /\ storeVer < MaxCommits
    /\ Become(t, [Idle EXCEPT !.pc = "verifyimport", !.op = "import", !.c = c, !.tok = k])
    /\ UNCHANGED <<oauthVars, storeVars, up, now, volatile, aged, history>>

AdminPutVerify(t) ==
    /\ At(t, "verifyimport")
    /\ \E a \in {"ok", "auth", "down"} :
        /\ ProfileAnswer(th[t].tok, a)
        /\ IF a = "ok" THEN Goto(t, "unique") ELSE Done(t)
    /\ UNCHANGED <<latest, age, held, storeVars, up, now, volatile, aged, history>>

AccountAssumedFree(t) == TRUE
\* No other credential manages the account.
AccountFree(t) == Managing(mem, Owner(th[t].tok)) \subseteq {th[t].c}

AdminPutUnique(t) ==
    /\ At(t, "unique")
    /\ IF AccountFree(t) THEN Goto(t, "install") ELSE Done(t)
    /\ UNCHANGED <<oauthVars, storeVars, up, now, volatile, aged, history>>

AdminPutInstall(t) ==
    LET c == th[t].c IN
    /\ At(t, "install")
    /\ Free(c)
    /\ Acquire(t, c)
    /\ Become(t, [th[t] EXCEPT !.pc = "put",
                    !.nr = IF Present(mem, c) THEN Replace(mem[c], th[t].tok) ELSE Fresh(th[t].tok)])
    /\ UNCHANGED <<oauthVars, storeVars, up, now, backoff, probe, storeVer, aged, history>>

\* adminRefresh ignores health and backoff.
AdminRefresh(t, c) ==
    /\ Starts(t, "adminrefresh")
    /\ Present(mem, c) /\ storeVer < MaxCommits
    /\ Become(t, [Idle EXCEPT !.pc = "adminlock", !.op = "adminrefresh", !.c = c])
    /\ UNCHANGED <<oauthVars, storeVars, up, now, volatile, aged, history>>

AdminRefreshLocked(t) ==
    LET c == th[t].c IN
    /\ At(t, "adminlock")
    /\ Free(c)
    /\ IF Present(mem, c)
       THEN Acquire(t, c) /\ Become(t, [th[t] EXCEPT !.pc = "refresh", !.rec = mem[c]])
       ELSE Done(t) /\ UNCHANGED lock
    /\ UNCHANGED <<oauthVars, storeVars, up, now, backoff, probe, storeVer, aged, history>>

\* DELETE goes to the store directly: no mutex, no version, no wake.
Delete(t, c) ==
    /\ Starts(t, "delete")
    /\ Present(mem, c)
    /\ mem' = [mem EXCEPT ![c] = NoRecord]
    /\ \/ disk' = WriteThrough /\ UNCHANGED faults
       \/ Fault("save") /\ UNCHANGED disk
    /\ acked' = {e \in acked : e[1] # c}
    /\ UNCHANGED <<latest, age, held, up, now, volatile, aged, th, minted>>

-----------------------------------------------------------------------------
(* The process and the clock.                                              *)

Crash ==
    /\ up /\ \E t \in Threads : "crash" \in Ops[t]
    /\ Fault("crash")
    /\ up' = FALSE
    /\ lock' = [c \in Creds |-> NoThread]
    /\ backoff' = {}
    /\ probe' = [c \in Creds |-> NoProbe]
    /\ storeVer' = 0
    /\ th' = [t \in Threads |-> Idle]
    /\ UNCHANGED <<latest, age, held, storeVars, now, aged, history>>

\* The store is loaded, and Migrate refuses to start on a duplicate account.
Restart ==
    /\ ~up
    /\ UniqueAccounts(disk)
    /\ up' = TRUE
    /\ mem' = disk
    /\ aged' = {c \in aged : mem[c] = disk[c]}
    /\ UNCHANGED <<oauthVars, disk, now, volatile, th, history>>

Tick ==
    /\ \E n \in 0..MaxNow : n # now /\ (n < now => ClockSteps) /\ now' = n
    /\ UNCHANGED <<oauthVars, storeVars, up, lock, backoff, aged, probe, storeVer, th, history>>

Upstream ==
    /\ OAuthNext
    /\ UNCHANGED <<mem, disk, up, now, lock, backoff, aged, probe, storeVer, th, history>>

-----------------------------------------------------------------------------

\* The steps that continue what a thread began.
Continue(t) ==
    \/ PutSaved(t) \/ PutUnsaved(t) \/ Bump(t)
    \/ RefreshOK(t) \/ RefreshDead(t) \/ RefreshTransient(t)
    \/ EnsureFreshLocked(t) \/ ProbeCached(t) \/ ProbeCred(t) \/ Respond(t)
    \/ DeadProbe(t) \/ PollProfile(t) \/ PollConfirm(t)
    \/ TransitionHealth(t) \/ PollIfAged(t) \/ Reclaim(t)
    \/ OfferVerify(t) \/ OfferRoute(t) \/ OfferAdopt(t)
    \/ AdminPutVerify(t) \/ AdminPutUnique(t) \/ AdminPutInstall(t)
    \/ AdminRefreshLocked(t)

Begin(t) ==
    \/ \E c \in Creds :
        \/ \E op \in {"get", "probeget"} : Get(t, op, c)
        \/ RefreshDue(t, c) \/ PollOne(t, c) \/ AdminRefresh(t, c) \/ Delete(t, c)
        \/ \E k \in held : AdminPut(t, c, k)
    \/ \E k \in held : Offer(t, k)

Environment ==
    \/ \E c \in Creds : ProbeExpires(c) \/ BackoffEnds(c) \/ GrowsOld(c)
    \/ Crash \/ Restart \/ Tick \/ Upstream

Next == (\E t \in Threads : Continue(t) \/ Begin(t)) \/ Environment

Spec == Init /\ [][Next]_vars

-----------------------------------------------------------------------------
(* Fairness.  Every handler and loop iteration goes on (upstream calls     *)
(* have timeouts), the two loops keep ticking, and time passes.            *)

Fairness ==
    /\ \A t \in Threads : WF_vars(Continue(t))
    /\ \A t \in Threads, c \in Creds : SF_vars(RefreshDue(t, c)) /\ SF_vars(PollOne(t, c))
    /\ \A c \in Creds : WF_vars(BackoffEnds(c)) /\ WF_vars(GrowsOld(c))
    /\ WF_vars(Restart)

FairSpec == Spec /\ Fairness

-----------------------------------------------------------------------------
(* Properties.                                                             *)

\* Every variable has its type.
TypeOK ==
    /\ OAuthTypeOK
    /\ mem \in [Creds -> Record \cup {NoRecord}]
    /\ disk \in [Creds -> Record \cup {NoRecord}]
    /\ up \in BOOLEAN /\ now \in Nat
    /\ lock \in [Creds -> Threads \cup {NoThread}]
    /\ backoff \in SUBSET Creds /\ aged \in SUBSET Creds
    /\ probe \in [Creds -> [gen : Nat, live : BOOLEAN] \cup {NoProbe}]
    /\ storeVer \in Nat
    /\ th \in [Threads -> Thread]
    /\ minted \in [Lineages -> 0..MaxSeq]
    /\ acked \in SUBSET (Creds \X Token)

\* A credential is suspect only when its access token really is revoked or
\* expired: a single fluke 401, or evidence about a token that an adoption or
\* a refresh has replaced meanwhile, never takes a live credential out of
\* service.
SuspectMeansNotLive ==
    \A c \in Creds : Present(mem, c) /\ mem[c].health = "suspect" => ~Live(mem[c].tok)

\* A credential is dead only when its refresh token can no longer be used.
DeadMeansNotRefreshable ==
    \A c \in Creds : Present(mem, c) /\ mem[c].health = "dead" => ~CanRefresh(mem[c].tok)

\* Whenever the mutex of a credential is free, its record is not behind a
\* rotation the broker itself made of that lineage: no concurrent handler,
\* loop or poll loses a minted pair, and so the broker never replays a refresh
\* token it has spent.
NoLostRotation ==
    \A c \in Creds : Present(mem, c) /\ Free(c) => mem[c].tok.seq >= minted[mem[c].tok.lin]

\* A crash and a lost answer cost a credential at most one rotation between
\* two refreshes: the record is never two of the broker's own rotations behind.
AtMostOneRotationLost ==
    \A c \in Creds : Present(mem, c) => mem[c].tok.seq + 1 >= minted[mem[c].tok.lin]

\* A thread that refreshes or commits holds the mutex of its credential and
\* works on the record that is still stored: what it commits is what it read
\* with a token added or the health changed, never an older record.
PendingChangeCurrent ==
    \A t \in Threads :
        LET c == th[t].c
            old == mem[c]
            nr == th[t].nr
        IN  /\ th[t].pc = "refresh" => lock[c] = t /\ Present(mem, c) /\ th[t].rec = old
            /\ th[t].pc = "put" /\ Present(mem, c) =>
                  /\ lock[c] = t
                  /\ \/ nr.health # old.health /\ nr = [old EXCEPT !.health = nr.health]
                     \/ nr.health = "dead" /\ nr = old
                     \/ nr.tok # old.tok /\ nr = [Replace(old, nr.tok) EXCEPT !.gen = nr.gen]
                     \/ th[t].op = "import"

\* Newest login wins: a token a client was told the broker holds, once it has
\* been replaced, never becomes current again by an offer or a refresh.
NeverRolledBack ==
    [][\A c \in Creds : Present(mem, c) /\ Present(mem', c) /\ mem'[c].tok # mem[c].tok
            => <<c, mem'[c].tok>> \notin acked]_vars

\* A token a client was told the broker holds is on disk, or was retired there
\* by a newer one, unless an admin deleted the credential since: the client
\* may forget its refresh token.
AckedDurable == \A e \in acked : Present(disk, e[1]) /\ (disk[e[1]].tok = e[2] \/ InRing(e[2], disk[e[1]]))

\* No two credentials manage the same account, so an offer always has one
\* place to go and the broker can always start again.
OneCredPerAccount == UniqueAccounts(mem) /\ UniqueAccounts(disk)

\* An adopted token enters the credential that manages its account at that
\* very moment, although the offer was routed before it took the mutex.
AdoptionRouted ==
    [][\A t \in Threads : th[t].pc = "put" /\ th[t].op = "offer" /\ th'[t].pc # "put" /\ up'
            => Managing(mem, Owner(th[t].tok)) = {th[t].c}]_vars

\* Every change of a stored record gives it a greater generation, restarts
\* included.
GenGrows ==
    [][\A c \in Creds : Present(mem, c) /\ Present(mem', c) /\ mem[c] # mem'[c]
            => mem'[c].gen > mem[c].gen]_vars

\* A suspect credential does not stay suspect for ever: it recovers, is
\* adopted over, is reclaimed or dies.
SuspectResolved ==
    \A c \in Creds : Present(mem, c) /\ mem[c].health = "suspect"
        ~> ~(Present(mem, c) /\ mem[c].health = "suspect")

\* A healthy credential that is due gets refreshed or loses its health.
DueRefreshed == \A c \in Creds : Present(mem, c) /\ Due(mem[c]) ~> ~(Present(mem, c) /\ Due(mem[c]))

\* A credential declared dead by a fluke recovers while its token lives.
DeadHeals ==
    \A c \in Creds : Present(mem, c) /\ mem[c].health = "dead" /\ Live(mem[c].tok)
        ~> (Present(mem, c) => mem[c].health = "ok" \/ ~Live(mem[c].tok))

\* Seen through the store, the concurrent broker is CredSpec: every handler,
\* loop and poll, split as it is into steps of several threads, changes a
\* record by one legal and atomic change.
Lifecycles == INSTANCE CredSpec WITH cred <- mem, Imports <- \E t \in Threads : "import" \in Ops[t]

ImplementsCredSpec == Lifecycles!Spec
=============================================================================
