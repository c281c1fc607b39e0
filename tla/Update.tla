------------------------------- MODULE Update -------------------------------
(***************************************************************************)
(* The SessionStart hook ensure-ccb.sh, run by several sessions of a host: *)
(* it brings the managed binary to the version of the plugin, under a lock *)
(* made of a directory, and restarts the daemon.  A hook may fail, may be  *)
(* killed (hooks.json gives it 60 s), and its lock may grow stale.         *)
(***************************************************************************)
EXTENDS Daemon

CONSTANTS
    Want,           \* the version of the plugin a session runs
    MaxKills,       \* bound: hooks killed
    KilledInstalling    \* may a hook die between the rename and the restart?

ASSUME UpdateAssumption ==
    /\ Want \in [Hooks -> Versions]
    /\ MaxKills \in Nat /\ KilledInstalling \in BOOLEAN

VARIABLES
    dirlock,    \* .selfupdate.lock: "none", "fresh" or "stale" (10 minutes old)
    hook,       \* where each session's hook is
    kills       \* hooks killed so far

vars == <<daemonVars, dirlock, hook, kills>>

HookPCs == {"idle", "lock", "reclaim", "remake", "reread", "download", "install", "restart", "alive",
            "ensuring", "cleanup", "exit"}

TypeOK ==
    /\ DaemonTypeOK
    /\ dirlock \in {"none", "fresh", "stale"}
    /\ hook \in [Hooks -> HookPCs]
    /\ kills \in Nat

Init ==
    /\ DaemonInit
    /\ dirlock = "none"
    /\ hook = [h \in Hooks |-> "idle"]
    /\ kills = 0

HookTo(h, pc) == hook' = [hook EXCEPT ![h] = pc]
UpToDate(h) == bin = Want[h]

\* A session starts; the fast path ends the hook.
HookStarts(h) ==
    /\ hook[h] = "idle"
    /\ ~UpToDate(h)
    /\ HookTo(h, "lock")
    /\ UNCHANGED <<daemonVars, dirlock, kills>>

NeverReclaimable == FALSE
Reclaimable == dirlock = "stale"

\* mkdir; a lock older than ten minutes is removed first.
HookLocks(h) ==
    /\ hook[h] = "lock"
    /\ \/ dirlock = "none" /\ dirlock' = "fresh" /\ HookTo(h, "reread")
       \/ Reclaimable /\ HookTo(h, "reclaim") /\ UNCHANGED dirlock
       \/ dirlock # "none" /\ ~Reclaimable /\ HookTo(h, "idle") /\ UNCHANGED dirlock
    /\ UNCHANGED <<daemonVars, kills>>

\* rmdir and mkdir are two calls: the directory that goes may be a new one,
\* and another hook may make its own in between.
HookReclaims(h) ==
    \/ /\ hook[h] = "reclaim"
       /\ dirlock' = "none" /\ HookTo(h, "remake")
       /\ UNCHANGED <<daemonVars, kills>>
    \/ /\ hook[h] = "remake"
       /\ IF dirlock = "none" THEN dirlock' = "fresh" /\ HookTo(h, "reread")
                              ELSE HookTo(h, "idle") /\ UNCHANGED dirlock
       /\ UNCHANGED <<daemonVars, kills>>

\* The session that held the lock may have installed this very version.
HookRereads(h) ==
    /\ hook[h] = "reread"
    /\ HookTo(h, IF UpToDate(h) THEN "exit" ELSE "download")
    /\ UNCHANGED <<daemonVars, dirlock, kills>>

\* Download and verification, into a directory of its own.
HookDownloads(h) ==
    /\ hook[h] = "download"
    /\ HookTo(h, "install")
    /\ UNCHANGED <<daemonVars, dirlock, kills>>

\* bail: any of it may fail.
HookBails(h) ==
    /\ hook[h] \in {"download", "install"}
    /\ HookTo(h, "cleanup")
    /\ UNCHANGED <<daemonVars, dirlock, kills>>

\* The atomic rename.
HookInstalls(h) ==
    /\ hook[h] = "install"
    /\ bin' = Want[h]
    /\ HookTo(h, "restart")
    /\ UNCHANGED <<service, flock, watch, alive, faults, dirlock, kills>>

WatchersSpared == watch
\* Every running daemon is told to stop; one that is only starting dies.
WatchersKilled ==
    [w \in Watchers |->
        CASE watch[w].pc = "starting" -> [watch[w] EXCEPT !.pc = "none"]
          [] Serving(w) -> [watch[w] EXCEPT !.pc = "stopping"]
          [] OTHER -> watch[w]]

\* restart_daemon: the unit is restarted by its manager; without a unit pkill
\* ends the daemon and, a second later, ensure-alive starts another.
HookRestarts(h) ==
    /\ hook[h] = "restart"
    /\ watch' = WatchersKilled
    /\ HookTo(h, IF service THEN "cleanup" ELSE "alive")
    /\ UNCHANGED <<bin, service, flock, alive, faults, dirlock, kills>>

HookRunsEnsureAlive(h) ==
    /\ hook[h] = "alive"
    /\ alive[h] = "idle"
    /\ AliveTo(h, "probe")
    /\ HookTo(h, "ensuring")
    /\ UNCHANGED <<bin, service, flock, watch, faults, dirlock, kills>>

HookEnsured(h) ==
    /\ hook[h] = "ensuring"
    /\ alive[h] = "idle"
    /\ HookTo(h, "cleanup")
    /\ UNCHANGED <<daemonVars, dirlock, kills>>

\* cleanup removes the lock, and the EXIT trap calls it once more.
HookCleansUp(h) ==
    /\ hook[h] \in {"cleanup", "exit"}
    /\ dirlock' = "none"
    /\ HookTo(h, IF hook[h] = "cleanup" THEN "exit" ELSE "idle")
    /\ UNCHANGED <<daemonVars, kills>>

HookStep(h) ==
    \/ HookLocks(h) \/ HookReclaims(h) \/ HookRereads(h) \/ HookInstalls(h) \/ HookRestarts(h)
    \/ HookRunsEnsureAlive(h) \/ HookEnsured(h) \/ HookCleansUp(h)

Locked == {"reread", "download", "install", "restart", "alive", "ensuring", "cleanup"}

\* A hook dies where it is, or runs its trap first.
HookKilled(h) ==
    /\ kills < MaxKills
    /\ hook[h] # "idle"
    /\ hook[h] = "restart" => KilledInstalling
    /\ kills' = kills + 1
    /\ \/ HookTo(h, "idle")
       \/ hook[h] \in Locked /\ HookTo(h, "cleanup")
    /\ UNCHANGED <<daemonVars, dirlock>>

LockAges ==
    /\ dirlock = "fresh"
    /\ dirlock' = "stale"
    /\ UNCHANGED <<daemonVars, hook, kills>>

Next ==
    \/ DaemonNext /\ UNCHANGED <<dirlock, hook, kills>>
    \/ \E h \in Hooks : HookStarts(h) \/ HookStep(h) \/ HookDownloads(h) \/ HookBails(h) \/ HookKilled(h)
    \/ LockAges

Spec == Init /\ [][Next]_vars

\* A hook goes on, sessions keep starting, one download in many succeeds.
Fairness ==
    /\ DaemonFairness
    /\ WF_vars(LockAges)
    /\ \A h \in Hooks :
        /\ WF_vars(HookStarts(h)) /\ WF_vars(HookStep(h))
        /\ SF_vars(HookDownloads(h)) /\ SF_vars(HookInstalls(h))

FairSpec == Spec /\ Fairness

-----------------------------------------------------------------------------
(* Properties.                                                             *)

\* No daemon is left with a replaced binary: whenever one that is not stopping
\* runs another release than the installed one, a hook is about to restart it.
\* This needs no lock; two hooks that update at a time still restart it twice.
StaleWatcherPending ==
    \A w \in Watchers :
        watch[w].pc \in {"starting", "running", "unguarded"} /\ watch[w].ver # bin
            => \E h \in Hooks : hook[h] = "restart"

\* A lock left by a killed hook, failed downloads and lost races put an update
\* off but never prevent it.
BinaryArrives == \A v \in Versions : (\A h \in Hooks : Want[h] = v) => <>[](bin = v)

\* In the end a daemon runs, under the lock or for want of one without it, and
\* runs the installed release, however kills, probes, restarts and cron ticks
\* fall.
DaemonArrives == <>[](\E w \in Watchers : Serving(w) /\ watch[w].ver = bin)
=============================================================================
