------------------------------- MODULE Daemon -------------------------------
(***************************************************************************)
(* The single instance of `ccb watch` on a host: the flock on its pidfile, *)
(* `ccb ensure-alive`, which probes that lock before it starts a daemon,   *)
(* and the supervisors that keep one running -- a service manager, or cron *)
(* with ensure-alive every five minutes.                                   *)
(***************************************************************************)
EXTENDS Naturals

CONSTANTS
    Watchers,   \* slots for processes running ccb watch
    Crons,      \* ensure-alive processes that cron starts
    Hooks,      \* session hooks, which run ensure-alive too
    Versions,   \* releases of ccb
    NoProc,     \* nobody holds the flock
    DaemonFaults,   \* faults that happen: "die", "lockerror", "starterror"
    MaxFaults   \* bound: how many of them

Probers == Crons \cup Hooks

ASSUME DaemonAssumption ==
    /\ NoProc \notin Watchers \cup Probers
    /\ Watchers \cap Probers = {} /\ Crons \cap Hooks = {}
    /\ Versions # {}
    /\ MaxFaults \in Nat

VARIABLES
    bin,        \* the release installed as ~/.config/ccbroker/bin/ccb
    service,    \* is there a unit for the daemon (launchd, systemd)?
    flock,      \* who holds the lock on watch.pid
    watch,      \* the watch processes
    alive,      \* the ensure-alive processes
    faults      \* faults spent so far

daemonVars == <<bin, service, flock, watch, alive, faults>>

\* A daemon told to stop ends when its cycle does; until then it has the lock.
WatchPCs == {"none", "starting", "running", "unguarded", "stopping"}
AlivePCs == {"idle", "probe", "release", "start"}

DaemonTypeOK ==
    /\ bin \in Versions
    /\ service \in BOOLEAN
    /\ flock \in Watchers \cup Probers \cup {NoProc}
    /\ watch \in [Watchers -> [pc : WatchPCs, ver : Versions]]
    /\ alive \in [Probers -> AlivePCs]
    /\ faults \in Nat

DaemonInit ==
    /\ bin \in Versions
    /\ service \in BOOLEAN
    /\ flock = NoProc
    /\ watch = [w \in Watchers |-> [pc |-> "none", ver |-> bin]]
    /\ alive = [e \in Probers |-> "idle"]
    /\ faults = 0

Fault(k) == k \in DaemonFaults /\ faults < MaxFaults /\ faults' = faults + 1

WatchTo(w, pc) == watch' = [watch EXCEPT ![w].pc = pc]
AliveTo(e, pc) == alive' = [alive EXCEPT ![e] = pc]
LockFreed(w) == flock' = IF flock = w THEN NoProc ELSE flock

-----------------------------------------------------------------------------
(* ccb watch.                                                              *)

FreeSlots == {w \in Watchers : watch[w].pc = "none"}

\* The process executes what the path names at that moment.  Slots are alike:
\* it takes one that is free.
Launch ==
    /\ FreeSlots # {}
    /\ LET w == CHOOSE w \in FreeSlots : TRUE
       IN  watch' = [watch EXCEPT ![w] = [pc |-> "starting", ver |-> bin]]

LockIgnored == FALSE
LockTaken == flock # NoProc

\* acquireWatchLock: one attempt, without waiting.
WatchLocks(w) ==
    /\ watch[w].pc = "starting"
    /\ ~LockTaken
    /\ flock' = w
    /\ WatchTo(w, "running")
    /\ UNCHANGED <<bin, service, alive, faults>>

\* "watch already running (lock held); exiting"
WatchExits(w) ==
    /\ watch[w].pc = "starting"
    /\ LockTaken
    /\ WatchTo(w, "none")
    /\ UNCHANGED <<bin, service, flock, alive, faults>>

\* The pidfile cannot be opened: on without the guard.
WatchUnguarded(w) ==
    /\ watch[w].pc = "starting"
    /\ Fault("lockerror")
    /\ WatchTo(w, "unguarded")
    /\ UNCHANGED <<bin, service, flock, alive>>

\* It ends by itself or is killed; the kernel drops its lock.
WatchDies(w) ==
    /\ watch[w].pc \in {"starting", "running", "unguarded"}
    /\ Fault("die")
    /\ WatchTo(w, "none")
    /\ LockFreed(w)
    /\ UNCHANGED <<bin, service, alive>>

WatchStops(w) ==
    /\ watch[w].pc = "stopping"
    /\ WatchTo(w, "none")
    /\ LockFreed(w)
    /\ UNCHANGED <<bin, service, alive, faults>>

-----------------------------------------------------------------------------
(* ccb ensure-alive.                                                       *)

\* watchLockHeld takes the lock to see that it is free ...
ProbeFree(e) ==
    /\ alive[e] = "probe"
    /\ flock = NoProc
    /\ flock' = e
    /\ AliveTo(e, "release")
    /\ UNCHANGED <<bin, service, watch, faults>>

ProbeHeld(e) ==
    /\ alive[e] = "probe"
    /\ flock # NoProc
    /\ AliveTo(e, "idle")
    /\ UNCHANGED <<bin, service, flock, watch, faults>>

ProbeError(e) ==
    /\ alive[e] = "probe"
    /\ Fault("lockerror")
    /\ AliveTo(e, "start")
    /\ UNCHANGED <<bin, service, flock, watch>>

LockKept == flock
LockDropped == NoProc

\* ... and drops it again before it starts anything.
ProbeRelease(e) ==
    /\ alive[e] = "release"
    /\ flock' = LockDropped
    /\ AliveTo(e, "start")
    /\ UNCHANGED <<bin, service, watch, faults>>

StartDetached(e) ==
    /\ alive[e] = "start"
    /\ \/ Launch /\ UNCHANGED faults
       \/ Fault("starterror") /\ UNCHANGED watch
    /\ AliveTo(e, "idle")
    /\ UNCHANGED <<bin, service, flock>>

EnsureAlive(e) ==
    ProbeFree(e) \/ ProbeHeld(e) \/ ProbeError(e) \/ ProbeRelease(e) \/ StartDetached(e)

-----------------------------------------------------------------------------
(* The supervisors.  A unit is started whenever its process is gone; cron  *)
(* runs ensure-alive, five minutes apart, so the daemon the last tick has  *)
(* started is past its lock or gone.                                       *)

ServiceStarts ==
    /\ service
    /\ FreeSlots = Watchers
    /\ Launch
    /\ UNCHANGED <<bin, service, flock, alive, faults>>

CronTick(e) ==
    /\ e \in Crons /\ ~service
    /\ alive[e] = "idle"
    /\ \A w \in Watchers : watch[w].pc # "starting"
    /\ AliveTo(e, "probe")
    /\ UNCHANGED <<bin, service, flock, watch, faults>>

DaemonNext ==
    \/ \E w \in Watchers :
        \/ WatchLocks(w) \/ WatchExits(w) \/ WatchUnguarded(w) \/ WatchDies(w) \/ WatchStops(w)
    \/ ServiceStarts
    \/ \E e \in Probers : EnsureAlive(e)
    \/ \E e \in Crons : CronTick(e)

\* Processes go on, units and cron keep working.
DaemonFairness ==
    /\ \A w \in Watchers : WF_daemonVars(WatchLocks(w) \/ WatchExits(w) \/ WatchStops(w))
    /\ WF_daemonVars(ServiceStarts)
    /\ \A e \in Probers : WF_daemonVars(EnsureAlive(e))
    /\ \A e \in Crons : SF_daemonVars(CronTick(e))

-----------------------------------------------------------------------------

Serving(w) == watch[w].pc \in {"running", "unguarded"}

\* Two watch processes never run under the lock at a time, whoever starts
\* them: cron, a hook, a service manager, a user.
OneWatcher ==
    \A v, w \in Watchers : watch[v].pc = "running" /\ watch[w].pc = "running" => v = w
=============================================================================
