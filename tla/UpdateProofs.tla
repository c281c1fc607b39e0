---------------------------- MODULE UpdateProofs ----------------------------
(***************************************************************************)
(* Theorems about the single instance of the watch daemon and about the    *)
(* updates of the managed binary (modules Daemon and Update), for every    *)
(* number of processes, sessions and releases.                             *)
(***************************************************************************)
EXTENDS Update, TLAPS

-----------------------------------------------------------------------------
(* What a step does to the tables of processes.                            *)

Process == [pc : WatchPCs, ver : Versions]

LEMMA ProcessMoves ==
    ASSUME NEW r \in Process, NEW pc \in WatchPCs
    PROVE  /\ [r EXCEPT !.pc = pc] \in Process
           /\ [r EXCEPT !.pc = pc].pc = pc /\ [r EXCEPT !.pc = pc].ver = r.ver
  BY DEF Process

LEMMA WatchMoves ==
    ASSUME DaemonTypeOK, NEW w \in Watchers, NEW pc \in WatchPCs, WatchTo(w, pc)
    PROVE  /\ watch' \in [Watchers -> Process]
           /\ watch'[w].pc = pc /\ watch'[w].ver = watch[w].ver
           /\ \A v \in Watchers \ {w} : watch'[v] = watch[v]
<1>1. watch \in [Watchers -> Process] /\ watch[w] \in Process
  BY DEF DaemonTypeOK, Process
<1>2. watch' = [watch EXCEPT ![w] = [watch[w] EXCEPT !.pc = pc]]
  BY <1>1 DEF WatchTo
<1> QED BY <1>1, <1>2, ProcessMoves

LEMMA LaunchMoves ==
    ASSUME DaemonTypeOK, Launch
    PROVE  /\ watch' \in [Watchers -> Process]
           /\ \E w \in Watchers :
                /\ watch'[w] = [pc |-> "starting", ver |-> bin]
                /\ \A v \in Watchers \ {w} : watch'[v] = watch[v]
<1> DEFINE w == CHOOSE v \in FreeSlots : TRUE
<1>1. w \in Watchers
  BY DEF Launch, FreeSlots
<1>2. watch' = [watch EXCEPT ![w] = [pc |-> "starting", ver |-> bin]]
  BY DEF Launch
<1>3. [pc |-> "starting", ver |-> bin] \in Process /\ watch \in [Watchers -> Process]
  BY DEF Process, DaemonTypeOK, WatchPCs
<1> QED BY <1>1, <1>2, <1>3

LEMMA KilledMoves ==
    ASSUME DaemonTypeOK, watch' = WatchersKilled
    PROVE  /\ watch' \in [Watchers -> Process]
           /\ \A w \in Watchers : /\ watch'[w].pc \in {"none", "stopping"}
                                  /\ watch'[w].ver = watch[w].ver
<1>1. ASSUME NEW w \in Watchers
      PROVE  /\ watch'[w] \in Process
             /\ watch'[w].pc \in {"none", "stopping"} /\ watch'[w].ver = watch[w].ver
  <2>1. watch[w] \in Process /\ {"none", "stopping"} \subseteq WatchPCs
    BY DEF DaemonTypeOK, Process, WatchPCs
  <2>2. watch'[w] = CASE watch[w].pc = "starting" -> [watch[w] EXCEPT !.pc = "none"]
                      [] Serving(w) -> [watch[w] EXCEPT !.pc = "stopping"]
                      [] OTHER -> watch[w]
    BY DEF WatchersKilled
  <2>3. CASE watch[w].pc = "starting"
    <3>1. watch'[w] = [watch[w] EXCEPT !.pc = "none"]
      BY <2>2, <2>3 DEF Serving
    <3> QED BY <2>1, <3>1, ProcessMoves
  <2>4. CASE Serving(w)
    <3>1. watch'[w] = [watch[w] EXCEPT !.pc = "stopping"]
      BY <2>2, <2>4 DEF Serving
    <3> QED BY <2>1, <3>1, ProcessMoves
  <2>5. CASE watch[w].pc # "starting" /\ ~Serving(w)
    <3>1. watch'[w] = watch[w]
      BY <2>2, <2>5
    <3>2. watch[w].pc \in {"none", "stopping"}
      BY <2>1, <2>5 DEF Serving, Process, WatchPCs
    <3> QED BY <2>1, <3>1, <3>2
  <2> QED BY <2>3, <2>4, <2>5
<1>2. DOMAIN watch' = Watchers /\ watch' = [w \in Watchers |-> watch'[w]]
  BY DEF WatchersKilled
<1> QED BY <1>1, <1>2

LEMMA HookMoves ==
    ASSUME TypeOK, NEW h \in Hooks, NEW pc \in HookPCs, HookTo(h, pc)
    PROVE  /\ hook' \in [Hooks -> HookPCs]
           /\ hook'[h] = pc /\ \A g \in Hooks \ {h} : hook'[g] = hook[g]
  BY DEF TypeOK, HookTo

LEMMA AliveMoves ==
    ASSUME DaemonTypeOK, NEW e \in Probers, NEW pc \in AlivePCs, AliveTo(e, pc)
    PROVE  /\ alive' \in [Probers -> AlivePCs]
           /\ alive'[e] = pc /\ \A g \in Probers \ {e} : alive'[g] = alive[g]
  BY DEF DaemonTypeOK, AliveTo

LEMMA FaultCounts == ASSUME DaemonTypeOK, NEW k, Fault(k) PROVE faults' \in Nat
  BY DEF DaemonTypeOK, Fault

-----------------------------------------------------------------------------
(* Types.                                                                  *)

\* The steps of Daemon keep its types.
LEMMA WatchTypes ==
    ASSUME DaemonAssumption, DaemonTypeOK, NEW w \in Watchers,
           WatchLocks(w) \/ WatchExits(w) \/ WatchUnguarded(w) \/ WatchDies(w) \/ WatchStops(w)
    PROVE  DaemonTypeOK'
<1>1. PICK pc \in {"none", "running", "unguarded"} : WatchTo(w, pc)
  BY DEF WatchLocks, WatchExits, WatchUnguarded, WatchDies, WatchStops
<1>2. watch' \in [Watchers -> [pc : WatchPCs, ver : Versions]]
  BY <1>1, WatchMoves DEF WatchPCs, Process
<1>3. flock' \in Watchers \cup Probers \cup {NoProc} /\ UNCHANGED <<bin, service, alive>>
  BY DEF WatchLocks, WatchExits, WatchUnguarded, WatchDies, WatchStops, LockFreed, DaemonTypeOK
<1>4. faults' \in Nat
  BY FaultCounts DEF WatchLocks, WatchExits, WatchUnguarded, WatchDies, WatchStops, DaemonTypeOK
<1> QED BY <1>2, <1>3, <1>4 DEF DaemonTypeOK

LEMMA AliveTypes ==
    ASSUME DaemonAssumption, DaemonTypeOK, NEW e \in Probers, EnsureAlive(e)
    PROVE  DaemonTypeOK'
<1>1. PICK pc \in {"idle", "release", "start"} : AliveTo(e, pc)
  BY DEF EnsureAlive, ProbeFree, ProbeHeld, ProbeError, ProbeRelease, StartDetached
<1>2. alive' \in [Probers -> AlivePCs]
  BY <1>1, AliveMoves DEF AlivePCs
<1>3. /\ flock' \in Watchers \cup Probers \cup {NoProc} /\ UNCHANGED <<bin, service>>
  BY DEF EnsureAlive, ProbeFree, ProbeHeld, ProbeError, ProbeRelease, StartDetached, LockDropped, DaemonTypeOK
<1>4. faults' \in Nat
  BY FaultCounts DEF EnsureAlive, ProbeFree, ProbeHeld, ProbeError, ProbeRelease, StartDetached, DaemonTypeOK
<1>5. watch' \in [Watchers -> [pc : WatchPCs, ver : Versions]]
  BY LaunchMoves DEF EnsureAlive, ProbeFree, ProbeHeld, ProbeError, ProbeRelease, StartDetached, DaemonTypeOK, Process
<1> QED BY <1>2, <1>3, <1>4, <1>5 DEF DaemonTypeOK

LEMMA DaemonTypes ==
    ASSUME DaemonAssumption, DaemonTypeOK, DaemonNext
    PROVE  DaemonTypeOK'
<1>1. CASE ServiceStarts
  BY <1>1, LaunchMoves DEF ServiceStarts, DaemonTypeOK, Process
<1>2. ASSUME NEW e \in Crons, CronTick(e) PROVE DaemonTypeOK'
  BY <1>2, AliveMoves DEF CronTick, DaemonTypeOK, Probers, AlivePCs
<1> QED BY <1>1, <1>2, WatchTypes, AliveTypes DEF DaemonNext

\* So do those of the hooks.
LEMMA HookTypes ==
    ASSUME DaemonAssumption, UpdateAssumption, TypeOK, NEW h \in Hooks,
           HookStarts(h) \/ HookStep(h) \/ HookDownloads(h) \/ HookBails(h) \/ HookKilled(h)
    PROVE  TypeOK'
<1>1. hook' \in [Hooks -> HookPCs]
  <2>1. PICK pc \in HookPCs : HookTo(h, pc)
    BY DEF HookPCs, HookStarts, HookStep, HookLocks, HookReclaims, HookRereads, HookDownloads, HookBails,
           HookInstalls, HookRestarts, HookRunsEnsureAlive, HookEnsured, HookCleansUp, HookKilled
  <2> QED BY <2>1, HookMoves
<1>2. dirlock' \in {"none", "fresh", "stale"} /\ kills' \in Nat
  BY DEF TypeOK, HookStarts, HookStep, HookLocks, HookReclaims, HookRereads, HookDownloads, HookBails,
         HookInstalls, HookRestarts, HookRunsEnsureAlive, HookEnsured, HookCleansUp, HookKilled
<1>3. DaemonTypeOK'
  <2>1. CASE HookInstalls(h)
    BY <2>1 DEF HookInstalls, UpdateAssumption, TypeOK, DaemonTypeOK
  <2>2. CASE HookRestarts(h)
    BY <2>2, KilledMoves DEF HookRestarts, TypeOK, DaemonTypeOK, Process
  <2>3. CASE HookRunsEnsureAlive(h)
    BY <2>3, AliveMoves DEF HookRunsEnsureAlive, TypeOK, DaemonTypeOK, AlivePCs, Probers
  <2>4. CASE UNCHANGED daemonVars
    BY <2>4 DEF daemonVars, TypeOK, DaemonTypeOK
  <2> QED BY <2>1, <2>2, <2>3, <2>4
          DEF HookStarts, HookStep, HookLocks, HookReclaims, HookRereads, HookDownloads, HookBails,
              HookEnsured, HookCleansUp, HookKilled
<1> QED BY <1>1, <1>2, <1>3 DEF TypeOK

LEMMA TypesStep ==
    ASSUME DaemonAssumption, UpdateAssumption, TypeOK, [Next]_vars
    PROVE  TypeOK'
<1>1. CASE DaemonNext /\ UNCHANGED <<dirlock, hook, kills>>
  BY <1>1, DaemonTypes DEF TypeOK
<1>2. CASE LockAges
  BY <1>2 DEF LockAges, daemonVars, TypeOK, DaemonTypeOK
<1>3. CASE UNCHANGED vars
  BY <1>3 DEF vars, daemonVars, TypeOK, DaemonTypeOK
<1> QED BY <1>1, <1>2, <1>3, HookTypes DEF Next

LEMMA TypesStart == ASSUME DaemonAssumption, Init PROVE TypeOK
  BY DEF Init, DaemonInit, TypeOK, DaemonTypeOK, WatchPCs, AlivePCs, HookPCs

\* Every variable keeps its type.
THEOREM TypeCorrect == Spec => []TypeOK
  BY DaemonAssumption, UpdateAssumption, TypesStart, TypesStep, PTL DEF Spec

-----------------------------------------------------------------------------
(* One daemon.  A process that runs under the lock holds it, and a prober  *)
(* that is about to release it has it too, so that the release never takes *)
(* it from a daemon.                                                       *)

Held ==
    /\ \A w \in Watchers : watch[w].pc = "running" => flock = w
    /\ \A e \in Probers : alive[e] = "release" => flock = e

LEMMA HeldStart == ASSUME DaemonInit PROVE Held
  BY DEF DaemonInit, Held

LEMMA WatchHeld ==
    ASSUME DaemonAssumption, DaemonTypeOK, Held, NEW w \in Watchers,
           WatchLocks(w) \/ WatchExits(w) \/ WatchUnguarded(w) \/ WatchDies(w) \/ WatchStops(w)
    PROVE  Held'
<1>1. alive' = alive
  BY DEF WatchLocks, WatchExits, WatchUnguarded, WatchDies, WatchStops
<1>2. CASE WatchLocks(w)
  <2>1. watch'[w].pc = "running" /\ \A v \in Watchers \ {w} : watch'[v] = watch[v]
    BY <1>2, WatchMoves DEF WatchLocks, WatchPCs
  <2>2. flock = NoProc /\ flock' = w
    BY <1>2 DEF WatchLocks, LockTaken
  <2>3. \A v \in Watchers \ {w} : watch[v].pc # "running"
    BY <2>2 DEF Held, DaemonAssumption
  <2>4. \A e \in Probers : alive[e] # "release"
    BY <2>2 DEF Held, DaemonAssumption
  <2> QED BY <1>1, <2>1, <2>2, <2>3, <2>4 DEF Held
<1>3. CASE ~WatchLocks(w)
  <2>1. PICK pc \in {"none", "unguarded"} : WatchTo(w, pc)
    BY <1>3 DEF WatchExits, WatchUnguarded, WatchDies, WatchStops
  <2>2. watch'[w].pc # "running" /\ \A v \in Watchers \ {w} : watch'[v] = watch[v]
    BY <2>1, WatchMoves DEF WatchPCs
  <2>3. flock' = flock \/ (flock = w /\ flock' = NoProc)
    BY <1>3 DEF WatchExits, WatchUnguarded, WatchDies, WatchStops, LockFreed
  <2>4. \A e \in Probers : e # w
    BY DEF DaemonAssumption
  <2> QED BY <1>1, <2>2, <2>3, <2>4 DEF Held
<1> QED BY <1>2, <1>3

LEMMA AliveHeld ==
    ASSUME DaemonAssumption, DaemonTypeOK, Held, NEW e \in Probers, EnsureAlive(e)
    PROVE  Held'
<1>1. \A w \in Watchers : watch'[w].pc = "running" => watch[w].pc = "running"
  <2>1. CASE Launch
    BY <2>1, LaunchMoves
  <2>2. CASE watch' = watch
    BY <2>2
  <2> QED BY <2>1, <2>2 DEF EnsureAlive, ProbeFree, ProbeHeld, ProbeError, ProbeRelease, StartDetached
<1>2. CASE ProbeFree(e)
  <2>1. alive'[e] = "release" /\ \A g \in Probers \ {e} : alive'[g] = alive[g]
    BY <1>2, AliveMoves DEF ProbeFree, AlivePCs
  <2>2. flock = NoProc /\ flock' = e
    BY <1>2 DEF ProbeFree
  <2>3. \A w \in Watchers : watch[w].pc # "running"
    BY <2>2 DEF Held, DaemonAssumption
  <2>4. \A g \in Probers : alive[g] # "release"
    BY <2>2 DEF Held, DaemonAssumption
  <2> QED BY <1>1, <2>1, <2>2, <2>3, <2>4 DEF Held
<1>3. CASE ~ProbeFree(e)
  <2>1. PICK pc \in {"idle", "start"} : AliveTo(e, pc)
    BY <1>3 DEF EnsureAlive, ProbeHeld, ProbeError, ProbeRelease, StartDetached
  <2>2. alive'[e] # "release" /\ \A g \in Probers \ {e} : alive'[g] = alive[g]
    BY <2>1, AliveMoves DEF AlivePCs
  <2>3. flock' = flock \/ (flock = e /\ flock' = NoProc)
    BY <1>3 DEF EnsureAlive, ProbeHeld, ProbeError, ProbeRelease, StartDetached, LockDropped, Held
  <2>4. e \notin Watchers
    BY DEF DaemonAssumption
  <2> QED BY <1>1, <2>2, <2>3, <2>4 DEF Held
<1> QED BY <1>2, <1>3

LEMMA HeldStep ==
    ASSUME DaemonAssumption, TypeOK, Held, [Next]_vars
    PROVE  Held'
<1> USE DEF TypeOK
<1>1. CASE DaemonNext
  <2>1. CASE ServiceStarts
    BY <2>1, LaunchMoves DEF ServiceStarts, Held
  <2>2. ASSUME NEW e \in Crons, CronTick(e) PROVE Held'
    BY <2>2, AliveMoves DEF CronTick, Held, Probers, AlivePCs
  <2> QED BY <1>1, <2>1, <2>2, WatchHeld, AliveHeld DEF DaemonNext
<1>2. ASSUME NEW h \in Hooks,
             HookStarts(h) \/ HookStep(h) \/ HookDownloads(h) \/ HookBails(h) \/ HookKilled(h)
      PROVE  Held'
  <2>1. CASE HookInstalls(h)
    BY <2>1 DEF HookInstalls, Held
  <2>2. CASE HookRestarts(h)
    BY <2>2, KilledMoves DEF HookRestarts, Held
  <2>3. CASE HookRunsEnsureAlive(h)
    BY <2>3, AliveMoves DEF HookRunsEnsureAlive, Held, AlivePCs, Probers
  <2>4. CASE UNCHANGED daemonVars
    BY <2>4 DEF daemonVars, Held
  <2> QED BY <1>2, <2>1, <2>2, <2>3, <2>4
          DEF HookStarts, HookStep, HookLocks, HookReclaims, HookRereads, HookDownloads, HookBails,
              HookEnsured, HookCleansUp, HookKilled
<1>3. CASE UNCHANGED daemonVars
  BY <1>3 DEF daemonVars, Held
<1> QED BY <1>1, <1>2, <1>3 DEF Next, LockAges, vars

\* Two daemons never run under the lock at a time, for any number of cron
\* ticks, hooks and supervised processes, whatever dies or fails.
THEOREM SingleDaemon == Spec => []OneWatcher
<1>1. Init => TypeOK /\ Held
  BY DaemonAssumption, TypesStart, HeldStart DEF Init
<1>2. TypeOK /\ Held /\ [Next]_vars => TypeOK' /\ Held'
  BY DaemonAssumption, UpdateAssumption, TypesStep, HeldStep
<1>3. Held => OneWatcher
  BY DEF Held, OneWatcher
<1> QED BY <1>1, <1>2, <1>3, PTL DEF Spec

-----------------------------------------------------------------------------
(* A replaced binary.  The step of a hook between the rename and the       *)
(* restart is what a daemon of another release waits for; a hook that dies *)
(* there leaves it behind, so the theorem is about runs without that.      *)

Live == {"starting", "running", "unguarded"}
Outdated(w) == watch[w].pc \in Live /\ watch[w].ver # bin

LEMMA DaemonOutdates ==
    ASSUME DaemonTypeOK, DaemonNext
    PROVE  bin' = bin /\ \A w \in Watchers : Outdated(w)' => Outdated(w)
<1>1. CASE Launch /\ bin' = bin
  BY <1>1, LaunchMoves DEF Outdated
<1>2. CASE UNCHANGED <<watch, bin>>
  BY <1>2 DEF Outdated
<1>3. ASSUME NEW w \in Watchers,
             WatchLocks(w) \/ WatchExits(w) \/ WatchUnguarded(w) \/ WatchDies(w) \/ WatchStops(w)
      PROVE  bin' = bin /\ \A v \in Watchers : Outdated(v)' => Outdated(v)
  <2>1. bin' = bin
    BY <1>3 DEF WatchLocks, WatchExits, WatchUnguarded, WatchDies, WatchStops
  <2>2. CASE WatchTo(w, "none")
    <3>1. watch'[w].pc = "none" /\ \A v \in Watchers \ {w} : watch'[v] = watch[v]
      BY <2>2, WatchMoves DEF WatchPCs
    <3> QED BY <2>1, <3>1 DEF Outdated, Live
  <2>3. CASE watch[w].pc = "starting" /\ (WatchTo(w, "running") \/ WatchTo(w, "unguarded"))
    <3>1. watch'[w].ver = watch[w].ver /\ \A v \in Watchers \ {w} : watch'[v] = watch[v]
      BY <2>3, WatchMoves DEF WatchPCs
    <3> QED BY <2>1, <2>3, <3>1 DEF Outdated, Live
  <2> QED BY <1>3, <2>1, <2>2, <2>3 DEF WatchLocks, WatchExits, WatchUnguarded, WatchDies, WatchStops
<1> QED BY <1>1, <1>2, <1>3
        DEF DaemonNext, ServiceStarts, EnsureAlive, ProbeFree, ProbeHeld, ProbeError, ProbeRelease,
            StartDetached, CronTick

LEMMA PendingStep ==
    ASSUME ~KilledInstalling, TypeOK, StaleWatcherPending, [Next]_vars
    PROVE  StaleWatcherPending'
<1> USE DEF TypeOK
<1>0. StaleWatcherPending <=> \A w \in Watchers : Outdated(w) => \E h \in Hooks : hook[h] = "restart"
  BY DEF StaleWatcherPending, Outdated, Live
<1>1. SUFFICES ASSUME NEW w \in Watchers, Outdated(w)'
               PROVE  \E h \in Hooks : hook'[h] = "restart"
  BY DEF StaleWatcherPending, Outdated, Live
<1>2. CASE DaemonNext /\ hook' = hook
  BY <1>0, <1>1, <1>2, DaemonOutdates
<1>3. ASSUME NEW h \in Hooks, HookInstalls(h) PROVE \E g \in Hooks : hook'[g] = "restart"
  BY <1>3, HookMoves DEF HookInstalls, HookPCs
<1>4. ASSUME NEW h \in Hooks, HookRestarts(h) PROVE FALSE
  <2>1. watch'[w].pc \in {"none", "stopping"}
    BY <1>4, KilledMoves DEF HookRestarts
  <2> QED BY <1>1, <2>1 DEF Outdated, Live
<1>5. ASSUME NEW h \in Hooks, hook[h] # "restart", UNCHANGED <<watch, bin>>,
             NEW pc \in HookPCs, HookTo(h, pc)
      PROVE  \E g \in Hooks : hook'[g] = "restart"
  <2>1. PICK g \in Hooks : hook[g] = "restart"
    BY <1>0, <1>1, <1>5 DEF Outdated
  <2> QED BY <1>5, <2>1, HookMoves
<1>6. ASSUME NEW h \in Hooks, HookStarts(h) \/ HookStep(h) \/ HookDownloads(h) \/ HookBails(h) \/ HookKilled(h)
      PROVE  \E g \in Hooks : hook'[g] = "restart"
  <2>1. CASE ~HookInstalls(h) /\ ~HookRestarts(h)
    <3>1. hook[h] # "restart" /\ UNCHANGED <<watch, bin>>
      BY <1>6, <2>1 DEF HookStarts, HookStep, HookLocks, HookReclaims, HookRereads, HookDownloads, HookBails,
         HookRunsEnsureAlive, HookEnsured, HookCleansUp, HookKilled, daemonVars
    <3>2. PICK pc \in HookPCs : HookTo(h, pc)
      BY <1>6, <2>1 DEF HookPCs, HookStarts, HookStep, HookLocks, HookReclaims, HookRereads, HookDownloads,
         HookBails, HookRunsEnsureAlive, HookEnsured, HookCleansUp, HookKilled
    <3> QED BY <1>5, <3>1, <3>2
  <2> QED BY <1>3, <1>4, <2>1
<1>7. CASE LockAges \/ UNCHANGED vars
  BY <1>0, <1>1, <1>7 DEF LockAges, vars, daemonVars, Outdated
<1> QED BY <1>2, <1>6, <1>7 DEF Next

\* No daemon is left with a replaced binary, for any number of sessions that
\* update at once to whatever releases, their locks taken from each other or
\* not: as long as none dies between the rename and the restart, one that runs
\* another release than the installed one has a restart coming.
THEOREM NoStaleDaemon ==
    ASSUME ~KilledInstalling
    PROVE  Spec => []StaleWatcherPending
<1>1. Init => TypeOK /\ StaleWatcherPending
  <2>1. ASSUME Init, NEW w \in Watchers PROVE watch[w].ver = bin
    <3>1. watch[w] = [pc |-> "none", ver |-> bin]
      BY <2>1 DEF Init, DaemonInit
    <3> QED BY <3>1
  <2>2. Init => StaleWatcherPending
    BY <2>1 DEF StaleWatcherPending
  <2> QED BY <2>2, DaemonAssumption, TypesStart
<1>2. TypeOK /\ StaleWatcherPending /\ [Next]_vars => TypeOK' /\ StaleWatcherPending'
  BY DaemonAssumption, UpdateAssumption, TypesStep, PendingStep
<1> QED BY <1>1, <1>2, PTL DEF Spec
=============================================================================
