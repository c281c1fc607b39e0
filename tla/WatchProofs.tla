---------------------------- MODULE WatchProofs ----------------------------
(***************************************************************************)
(* Proofs about Watch: its types, that no mix of daemon, commands and      *)
(* commits puts an older generation over a newer one in the target, the    *)
(* pace of the polls, what a running daemon does of a policy set to        *)
(* manual, and, by induction over the names, the account autoSelect finds. *)
(***************************************************************************)
EXTENDS Watch, WellFoundedInduction, TLAPS

LEMMA CycleFields ==
    ASSUME NEW q \in Cycle
    PROVE  /\ q.pc \in {"idle", "poll", "sleep", "fetch", "select", "switch", "get", "write", "identity"}
           /\ q.pol \in Policies /\ q.rows \in [Creds -> Cred] /\ q.choice \in 0..N
           /\ q.known \in BOOLEAN /\ q.seen \in Held /\ q.got \in Held
  BY DEF Cycle

LEMMA NoCycleType == ASSUME WatchAssumption PROVE NoCycle \in Cycle
  BY DEF WatchAssumption, NoCycle, Cycle, Cred, Unknown, Held, Policies, Creds

LEMMA BecomeTypes ==
    ASSUME TypeOK, NEW p \in Procs, NEW q \in Cycle, Become(p, q)
    PROVE  proc' \in [Procs -> Cycle]
  BY DEF TypeOK, Become

PCs == {"idle", "poll", "sleep", "fetch", "select", "switch", "get", "write", "identity"}

LEMMA StepTypes ==
    ASSUME TypeOK, NEW p \in Procs, NEW pc \in PCs, Step(p, pc)
    PROVE  proc' \in [Procs -> Cycle]
<1>1. proc[p] \in Cycle
  BY DEF TypeOK
<1>2. [proc[p] EXCEPT !.pc = pc] \in Cycle
  BY <1>1 DEF Cycle, PCs
<1> QED BY <1>2, BecomeTypes DEF Step

LEMMA ReadTargetTypes ==
    ASSUME TypeOK, WatchAssumption, NEW p \in Procs, NEW known \in BOOLEAN, ReadTarget(p, known)
    PROVE  proc' \in [Procs -> Cycle]
<1>1. [NoCycle EXCEPT !.pc = "get", !.pol = proc[p].pol, !.known = known, !.seen = target] \in Cycle
  BY NoCycleType DEF TypeOK, Cycle
<1> QED BY <1>1, BecomeTypes DEF ReadTarget

LEMMA FinishTypes ==
    ASSUME TypeOK, WatchAssumption, NEW p \in Procs, Finish(p)
    PROVE  proc' \in [Procs -> Cycle]
<1>1. (IF p = "watch" THEN [NoCycle EXCEPT !.pc = Pace, !.pol = proc[p].pol] ELSE NoCycle) \in Cycle
  BY NoCycleType DEF TypeOK, Cycle, Pace
<1> QED BY <1>1, BecomeTypes DEF Finish

LEMMA EffectivePolicyType == ASSUME NEW s \in Settings PROVE EffectivePolicy(s) \in Policies
  BY DEF EffectivePolicy, Settings, Policies

LEMMA InitTypes == ASSUME WatchAssumption, Init PROVE TypeOK
<1>0. [Unknown EXCEPT !.gen = 1] \in Cred
  <2>1. Unknown \in Cred
    BY DEF Unknown, Cred, WatchAssumption
  <2> QED BY <2>1 DEF Cred
<1>1. cred \in [Creds -> Cred] /\ announced \in [Creds -> Nat]
  BY <1>0 DEF Init
<1>2. policy \in Settings
  BY DEF Init, Settings
<1>3. proc \in [Procs -> Cycle]
  <2>1. [NoCycle EXCEPT !.pol = EffectivePolicy(policy)] \in Cycle
    BY <1>2, NoCycleType, EffectivePolicyType DEF Cycle
  <2> QED BY <2>1, NoCycleType DEF Init
<1>4. poll \in [name : 0..N, cur : Nat, since : Nat, throttle : BOOLEAN]
  <2>1. poll = [name |-> 0, cur |-> 0, since |-> 0, throttle |-> FALSE]
    BY DEF Init, NoPoll
  <2> QED BY <2>1 DEF WatchAssumption
<1>5. active \in 0..N /\ target \in Held /\ ident \in 0..N
  <2>1. active \in {0, N} /\ target = <<0, 0>> /\ ident = 0
    BY DEF Init
  <2> QED BY <2>1 DEF Held, WatchAssumption
<1> QED BY <1>1, <1>2, <1>3, <1>4, <1>5 DEF Init, TypeOK

-----------------------------------------------------------------------------
(* Each step keeps the types; the daemon polls a credential it has a name of. *)

PollsName == proc["watch"].pc = "poll" => poll.name # 0
Types == TypeOK /\ PollsName

\* What a step of the cycle may note.
LEMMA CycleNotes ==
    ASSUME NEW q \in Cycle, NEW pc \in PCs
    PROVE  /\ \A rows \in [Creds -> Cred] : [q EXCEPT !.rows = rows, !.pc = pc] \in Cycle
           /\ \A c \in 0..N : [q EXCEPT !.pc = pc, !.choice = c] \in Cycle
           /\ \A h \in Held : [q EXCEPT !.got = h, !.pc = pc] \in Cycle
<1>1. \A rows \in [Creds -> Cred] : [q EXCEPT !.rows = rows, !.pc = pc] \in Cycle
  BY DEF Cycle, PCs
<1>2. \A c \in 0..N : [q EXCEPT !.pc = pc, !.choice = c] \in Cycle
  BY DEF Cycle, PCs
<1>3. \A h \in Held : [q EXCEPT !.got = h, !.pc = pc] \in Cycle
  BY DEF Cycle, PCs
<1> QED BY <1>1, <1>2, <1>3

LEMMA SyncCycleTypes ==
    ASSUME WatchAssumption, TypeOK, NEW p \in Procs, SyncCycle(p)
    PROVE  TypeOK'
<1>0. proc[p] \in Cycle /\ cred \in [Creds -> Cred] /\ {"select", "switch", "write"} \subseteq PCs
  BY DEF TypeOK, PCs
<1> USE DEF TypeOK, broker
<1>1. CASE FetchUsage(p)
  <2>1. [proc[p] EXCEPT !.rows = cred, !.pc = "select"] \in Cycle
    BY ONLY <1>0, CycleNotes
  <2>2. proc' \in [Procs -> Cycle]
    BY <1>1, <2>1, BecomeTypes, ReadTargetTypes DEF FetchUsage
  <2>3. errors' \in Nat
    <3>1. errors' = errors \/ errors' = errors + 1
      BY <1>1 DEF FetchUsage, Error
    <3> QED BY <3>1
  <2> QED BY <1>1, <2>2, <2>3 DEF FetchUsage
<1>2. CASE AutoSelect(p)
  <2> PICK best \in 0..N :
        \/ ReadTarget(p, TRUE)
        \/ Become(p, [proc[p] EXCEPT !.pc = "switch", !.choice = best])
    BY <1>2 DEF AutoSelect
  <2>1. [proc[p] EXCEPT !.pc = "switch", !.choice = best] \in Cycle
    BY ONLY <1>0, best \in 0..N, CycleNotes
  <2>2. proc' \in [Procs -> Cycle]
    BY <2>1, BecomeTypes, ReadTargetTypes
  <2> QED BY <1>2, <2>2 DEF AutoSelect
<1>3. CASE WriteActive(p)
  <2>1. proc' \in [Procs -> Cycle] /\ active' \in 0..N
    BY <1>3, ReadTargetTypes, CycleFields DEF WriteActive
  <2> QED BY <1>3, <2>1 DEF WriteActive
<1>4. CASE GetCred(p)
  <2>1. ASSUME Servable(active)
        PROVE  [proc[p] EXCEPT !.got = <<active, cred[active].gen>>, !.pc = "write"] \in Cycle
    <3>1. active \in Creds
      BY <2>1 DEF Servable, Creds, WatchAssumption
    <3>2. cred[active].gen \in Nat
      BY <3>1 DEF Cred
    <3>3. <<active, cred[active].gen>> \in Held
      BY <3>2 DEF Held
    <3> QED BY ONLY <1>0, <3>3, CycleNotes
  <2>2. proc' \in [Procs -> Cycle]
    BY <1>4, <2>1, BecomeTypes, FinishTypes DEF GetCred
  <2> QED BY <1>4, <2>2 DEF GetCred, Error
<1>5. CASE WriteTarget(p)
  <2>1. proc' \in [Procs -> Cycle] /\ target' \in Held
    BY <1>5, FinishTypes, StepTypes, CycleFields DEF WriteTarget, PCs
  <2> QED BY <1>5, <2>1 DEF WriteTarget
<1>6. CASE SyncIdentity(p)
  <2>1. proc' \in [Procs -> Cycle] /\ ident' \in 0..N
    <3>1. proc[p].got[1] \in 0..N
      BY CycleFields DEF Held
    <3> QED BY <1>6, <3>1, FinishTypes DEF SyncIdentity
  <2> QED BY <1>6, <2>1 DEF SyncIdentity, Error
<1> QED BY <1>1, <1>2, <1>3, <1>4, <1>5, <1>6 DEF SyncCycle

LEMMA WatchLoopTypes ==
    ASSUME WatchAssumption, TypeOK, PollsName, Iterate \/ PollAnswered \/ PollTimedOut \/ PollFailed \/ Awake
    PROVE  TypeOK'
<1> USE DEF TypeOK, broker
<1>1. CASE Iterate
  <2> DEFINE w == proc["watch"]
             pc == IF active = 0 THEN "fetch" ELSE "poll"
  <2>1. w \in Cycle /\ pc \in PCs /\ EffectivePolicy(policy) \in Policies
    BY EffectivePolicyType DEF Procs, PCs
  <2>2. [w EXCEPT !.pol = EffectivePolicy(policy), !.pc = pc] \in Cycle
    BY <2>1 DEF Cycle, PCs
  <2>3. proc' \in [Procs -> Cycle]
    BY <1>1, <2>1, <2>2, BecomeTypes, StepTypes DEF Iterate, Reload, Procs
  <2>4. poll' = [poll EXCEPT !.name = active, !.throttle = (active = 0),
                             !.cur = IF active = 0 THEN 0 ELSE announced[active]]
    BY <1>1 DEF Iterate
  <2>5. active = 0 \/ announced[active] \in Nat
    BY DEF Creds, WatchAssumption
  <2>6. poll' \in [name : 0..N, cur : Nat, since : Nat, throttle : BOOLEAN]
    BY <2>4, <2>5
  <2> QED BY <1>1, <2>3, <2>6 DEF Iterate, Error
<1>2. CASE PollAnswered
  <2> DEFINE gen == AnsweredGen(poll.name)
  <2>1. gen \in Nat
    BY <1>2 DEF PollAnswered, PollsName, AnsweredGen, Creds, Cred
  <2>2. poll' = [name |-> 0, cur |-> 0, since |-> IF gen > poll.since THEN gen ELSE poll.since,
                 throttle |-> (old \/ Servable(poll.name)) /\ ~(gen > poll.since)]
    BY <1>2 DEF PollAnswered, NoPoll
  <2>3. poll' \in [name : 0..N, cur : Nat, since : Nat, throttle : BOOLEAN]
    BY <2>1, <2>2 DEF WatchAssumption
  <2> QED BY <1>2, <2>3, StepTypes DEF PollAnswered, Procs, PCs
<1>3. CASE PollTimedOut
  <2>1. poll' = [name |-> 0, cur |-> 0, since |-> IF poll.cur > poll.since THEN poll.cur ELSE poll.since,
                 throttle |-> FALSE]
    BY <1>3 DEF PollTimedOut, NoPoll
  <2>2. poll' \in [name : 0..N, cur : Nat, since : Nat, throttle : BOOLEAN]
    BY <2>1 DEF WatchAssumption
  <2> QED BY <1>3, <2>2, StepTypes DEF PollTimedOut, Procs, PCs
<1>4. CASE PollFailed
  <2>1. poll' = [name |-> 0, cur |-> 0, since |-> poll.since, throttle |-> FALSE]
    BY <1>4 DEF PollFailed, NoPoll
  <2>2. poll' \in [name : 0..N, cur : Nat, since : Nat, throttle : BOOLEAN]
    BY <2>1 DEF WatchAssumption
  <2> QED BY <1>4, <2>2, StepTypes DEF PollFailed, Procs, PCs, Error
<1>5. CASE Awake
  BY <1>5, StepTypes DEF Awake, Procs, PCs
<1> QED BY <1>1, <1>2, <1>3, <1>4, <1>5

LEMMA CredUpdates ==
    ASSUME NEW r \in Cred, NEW h \in {"ok", "suspect", "dead"}, NEW s \in 0..MaxScore
    PROVE  /\ [r EXCEPT !.gen = r.gen + 1, !.health = "ok", !.expired = FALSE] \in Cred
           /\ [r EXCEPT !.gen = r.gen + 1, !.health = h] \in Cred
           /\ [r EXCEPT !.account = s] \in Cred
           /\ [r EXCEPT !.model = s] \in Cred
           /\ [r EXCEPT !.expired = TRUE] \in Cred
<1>1. r.gen + 1 \in Nat
  BY DEF Cred
<1> QED BY <1>1 DEF Cred

LEMMA OthersTypes ==
    ASSUME WatchAssumption, TypeOK,
           Command \/ SetPolicy \/ \E c \in Creds : Commit(c) \/ Announce(c) \/ Measure(c)
    PROVE  TypeOK'
<1> USE DEF TypeOK
<1>1. CASE Command
  <2>1. ASSUME NEW q \in Policies
        PROVE  [proc["command"] EXCEPT !.pc = "fetch", !.pol = q] \in Cycle
    BY DEF Cycle, Procs
  <2>2. EffectivePolicy(policy) \in Policies /\ "account" \in Policies
    BY EffectivePolicyType DEF Policies
  <2>3. proc' \in [Procs -> Cycle]
    BY <1>1, <2>1, <2>2, BecomeTypes DEF Command, Procs
  <2>4. active' \in 0..N
    BY <1>1 DEF Command, Creds, WatchAssumption
  <2> QED BY <1>1, <2>3, <2>4 DEF Command, Event, broker
<1>2. CASE SetPolicy
  <2>1. policy' \in Settings /\ stale' = 0 /\ events' = events + 1
    BY <1>2 DEF SetPolicy, Event, Settings
  <2> QED BY <1>2, <2>1 DEF SetPolicy, broker
<1>3. ASSUME NEW c \in Creds, Commit(c) PROVE TypeOK'
  <2>1. cred[c] \in Cred /\ 0 \in 0..MaxScore /\ "ok" \in {"ok", "suspect", "dead"}
    BY DEF WatchAssumption
  <2>2. PICK r \in Cred : Change(c, r)
    BY <1>3, <2>1, CredUpdates DEF Commit
  <2>3. cred' \in [Creds -> Cred]
    BY <2>2 DEF Change
  <2>4. Event
    BY <1>3 DEF Commit
  <2>5. events' \in Nat
    BY <2>4 DEF Event
  <2> QED BY <1>3, <2>3, <2>5 DEF Commit
<1>4. ASSUME NEW c \in Creds, Announce(c) PROVE TypeOK'
  BY <1>4 DEF Announce, Cred
<1>5. ASSUME NEW c \in Creds, Measure(c) PROVE TypeOK'
  <2>1. cred[c] \in Cred /\ 0 \in 0..MaxScore /\ "ok" \in {"ok", "suspect", "dead"}
    BY DEF WatchAssumption
  <2>2. PICK r \in Cred : Change(c, r)
    BY <1>5, <2>1, CredUpdates DEF Measure
  <2>3. cred' \in [Creds -> Cred]
    BY <2>2 DEF Change
  <2>4. Event
    BY <1>5 DEF Measure
  <2>5. events' \in Nat
    BY <2>4 DEF Event
  <2> QED BY <1>5, <2>3, <2>5 DEF Measure
<1> QED BY <1>1, <1>2, <1>3, <1>4, <1>5

-----------------------------------------------------------------------------
(* What a step does to the cycles.                                         *)

LEMMA StepFields ==
    ASSUME TypeOK, NEW p \in Procs, NEW pc \in PCs, Step(p, pc)
    PROVE  /\ proc'[p].pc = pc /\ proc'[p].pol = proc[p].pol
           /\ proc'[p].seen = proc[p].seen /\ proc'[p].got = proc[p].got
           /\ \A q \in Procs \ {p} : proc'[q] = proc[q]
<1>1. /\ proc'[p] = [proc[p] EXCEPT !.pc = pc]
      /\ \A q \in Procs \ {p} : proc'[q] = proc[q]
  BY DEF TypeOK, Step, Become
<1>2. proc[p] \in Cycle
  BY DEF TypeOK
<1> QED BY <1>1, <1>2 DEF Cycle

LEMMA ReadTargetFields ==
    ASSUME TypeOK, NEW p \in Procs, NEW known, ReadTarget(p, known)
    PROVE  /\ proc'[p].pc = "get" /\ proc'[p].pol = proc[p].pol
           /\ proc'[p].seen = target /\ proc'[p].got = <<0, 0>>
           /\ \A q \in Procs \ {p} : proc'[q] = proc[q]
  BY DEF TypeOK, ReadTarget, Become, NoCycle

LEMMA FinishFields ==
    ASSUME TypeOK, NEW p \in Procs, Finish(p)
    PROVE  /\ proc'[p].pc = (IF p = "watch" /\ poll.throttle THEN "sleep" ELSE "idle")
           /\ p = "watch" => proc'[p].pol = proc[p].pol
           /\ proc'[p].seen = <<0, 0>> /\ proc'[p].got = <<0, 0>>
           /\ \A q \in Procs \ {p} : proc'[q] = proc[q]
<1> DEFINE c == IF p = "watch" THEN [NoCycle EXCEPT !.pc = Pace, !.pol = proc[p].pol] ELSE NoCycle
<1>1. proc'[p] = c /\ \A q \in Procs \ {p} : proc'[q] = proc[q]
  BY DEF TypeOK, Finish, Become
<1>2. CASE p = "watch"
  <2>1. c = [NoCycle EXCEPT !.pc = Pace, !.pol = proc[p].pol]
    BY <1>2
  <2>2. c.pc = Pace /\ c.pol = proc[p].pol /\ c.seen = <<0, 0>> /\ c.got = <<0, 0>>
    BY <2>1 DEF NoCycle
  <2> QED BY <1>1, <1>2, <2>2 DEF Pace
<1>3. CASE p # "watch"
  BY <1>1, <1>3 DEF NoCycle
<1> QED BY <1>2, <1>3

\* The steps of a cycle, and where each leads.
LEMMA CycleMoves ==
    ASSUME TypeOK, NEW p \in Procs, SyncCycle(p)
    PROVE  /\ \A q \in Procs \ {p} : proc'[q] = proc[q]
           /\ proc[p].pc \in {"fetch", "select", "switch", "get", "write", "identity"}
           /\ \/ proc'[p].pc \in {"select", "switch", "get", "write", "identity"}
              \/ proc'[p].pc = IF p = "watch" /\ poll.throttle THEN "sleep" ELSE "idle"
           /\ p = "watch" => proc'[p].pol = proc[p].pol
           /\ UNCHANGED <<broker, policy, poll, events, spins>>
<1>1. CASE FetchUsage(p)
  <2>1. ASSUME Become(p, [proc[p] EXCEPT !.rows = cred, !.pc = "select"])
        PROVE  /\ proc'[p].pc = "select" /\ proc'[p].pol = proc[p].pol
               /\ \A q \in Procs \ {p} : proc'[q] = proc[q]
    BY <2>1 DEF TypeOK, Become, Cycle
  <2> QED BY <1>1, <2>1, ReadTargetFields DEF FetchUsage
<1>2. CASE AutoSelect(p)
  <2> PICK best \in 0..N :
        \/ ReadTarget(p, TRUE)
        \/ Become(p, [proc[p] EXCEPT !.pc = "switch", !.choice = best])
    BY <1>2 DEF AutoSelect
  <2>1. ASSUME Become(p, [proc[p] EXCEPT !.pc = "switch", !.choice = best])
        PROVE  /\ proc'[p].pc = "switch" /\ proc'[p].pol = proc[p].pol
               /\ \A q \in Procs \ {p} : proc'[q] = proc[q]
    BY <2>1 DEF TypeOK, Become, Cycle
  <2> QED BY <1>2, <2>1, ReadTargetFields DEF AutoSelect
<1>3. CASE WriteActive(p)
  BY <1>3, ReadTargetFields DEF WriteActive
<1>4. CASE GetCred(p)
  <2>1. ASSUME Become(p, [proc[p] EXCEPT !.got = <<active, cred[active].gen>>, !.pc = "write"])
        PROVE  /\ proc'[p].pc = "write" /\ proc'[p].pol = proc[p].pol
               /\ \A q \in Procs \ {p} : proc'[q] = proc[q]
    BY <2>1 DEF TypeOK, Become, Cycle
  <2> QED BY <1>4, <2>1, FinishFields DEF GetCred
<1>5. CASE WriteTarget(p)
  <2>1. ASSUME Step(p, "identity")
        PROVE  /\ proc'[p].pc = "identity" /\ proc'[p].pol = proc[p].pol
               /\ \A q \in Procs \ {p} : proc'[q] = proc[q]
    BY <2>1, StepFields DEF PCs
  <2> QED BY <1>5, <2>1, FinishFields DEF WriteTarget
<1>6. CASE SyncIdentity(p)
  BY <1>6, FinishFields DEF SyncIdentity
<1> QED BY <1>1, <1>2, <1>3, <1>4, <1>5, <1>6 DEF SyncCycle

\* The same of the loop of the daemon.
LEMMA LoopMoves ==
    ASSUME TypeOK
    PROVE  /\ Iterate =>
                /\ proc["watch"].pc = "idle" /\ proc'["command"] = proc["command"]
                /\ proc'["watch"].pc = IF active = 0 THEN "fetch" ELSE "poll"
                /\ proc'["watch"].seen = proc["watch"].seen /\ proc'["watch"].got = proc["watch"].got
                /\ \/ proc'["watch"].pol = EffectivePolicy(policy) /\ errors' = errors
                   \/ proc'["watch"].pol = proc["watch"].pol /\ errors' = errors + 1
           /\ PollAnswered \/ PollTimedOut \/ PollFailed \/ Awake =>
                \E pc \in {"fetch", "sleep", "idle"} : Step("watch", pc)
<1>1. "watch" \in Procs /\ "command" \in Procs
  BY DEF Procs
<1>2. ASSUME Iterate
      PROVE  /\ proc["watch"].pc = "idle" /\ proc'["command"] = proc["command"]
             /\ proc'["watch"].pc = IF active = 0 THEN "fetch" ELSE "poll"
             /\ proc'["watch"].seen = proc["watch"].seen /\ proc'["watch"].got = proc["watch"].got
             /\ \/ proc'["watch"].pol = EffectivePolicy(policy) /\ errors' = errors
                \/ proc'["watch"].pol = proc["watch"].pol /\ errors' = errors + 1
  <2> DEFINE w == proc["watch"]
             pc == IF active = 0 THEN "fetch" ELSE "poll"
  <2>1. w.pc = "idle"
    BY <1>2 DEF Iterate
  <2>2. CASE Become("watch", [w EXCEPT !.pol = EffectivePolicy(policy), !.pc = pc]) /\ errors' = errors
    BY <1>1, <2>1, <2>2 DEF TypeOK, Become, Cycle
  <2>3. CASE Become("watch", [w EXCEPT !.pc = pc]) /\ errors' = errors + 1
    BY <1>1, <2>1, <2>3 DEF TypeOK, Become, Cycle
  <2> QED BY <1>2, <2>2, <2>3 DEF Iterate, Reload, Step, Error
<1> QED BY <1>2 DEF PollAnswered, PollTimedOut, PollFailed, Awake

LEMMA CommandMoves ==
    ASSUME TypeOK, Command
    PROVE  /\ proc'["watch"] = proc["watch"] /\ proc'["command"].pc = "fetch"
           /\ proc'["command"].seen = proc["command"].seen /\ proc'["command"].got = proc["command"].got
<1>1. PICK q : Become("command", [proc["command"] EXCEPT !.pc = "fetch", !.pol = q])
  BY DEF Command
<1> QED BY <1>1 DEF TypeOK, Become, Procs, Cycle

LEMMA TypesInit == ASSUME WatchAssumption, Init PROVE Types
  BY InitTypes DEF Init, Types, PollsName, NoCycle, Procs

LEMMA TypesStep == ASSUME WatchAssumption, Types, [Next]_vars PROVE Types'
<1> USE DEF Types
<1>1. "watch" \in Procs
  BY DEF Procs
<1>2. ASSUME NEW p \in Procs, SyncCycle(p) PROVE Types'
  <2>1. proc'["watch"].pc = "poll" => proc["watch"].pc = "poll"
    BY <1>1, <1>2, CycleMoves
  <2> QED BY <1>2, <2>1, SyncCycleTypes, CycleMoves DEF PollsName
<1>3. CASE Iterate
  <2>1. poll'.name = active
    <3>1. poll' = [poll EXCEPT !.name = active, !.throttle = (active = 0),
                               !.cur = IF active = 0 THEN 0 ELSE announced[active]]
      BY <1>3 DEF Iterate
    <3>2. poll \in [name : 0..N, cur : Nat, since : Nat, throttle : BOOLEAN]
      BY DEF TypeOK
    <3> QED BY <3>1, <3>2
  <2> QED BY <1>3, <2>1, LoopMoves, WatchLoopTypes DEF PollsName
<1>4. CASE PollAnswered \/ PollTimedOut \/ PollFailed \/ Awake
  <2>1. PICK pc \in {"fetch", "sleep", "idle"} : Step("watch", pc)
    BY <1>4, LoopMoves
  <2>2. proc'["watch"].pc = pc
    BY <1>1, <2>1, StepFields DEF PCs
  <2> QED BY <1>4, <2>2, WatchLoopTypes DEF PollsName
<1>5. CASE Command
  BY <1>5, OthersTypes, CommandMoves DEF PollsName, Command
<1>6. CASE SetPolicy
  BY <1>6, OthersTypes DEF PollsName, SetPolicy
<1>7. ASSUME NEW c \in Creds, Commit(c) \/ Announce(c) \/ Measure(c) PROVE Types'
  BY <1>7, OthersTypes DEF PollsName, Commit, Announce, Measure
<1>8. CASE UNCHANGED vars
  BY <1>8 DEF vars, broker, TypeOK, PollsName
<1> QED BY <1>1, <1>2, <1>3, <1>4, <1>5, <1>6, <1>7, <1>8 DEF Next, RunWatch, Procs

\* Every variable keeps its type; no process works with a policy that is not one.
THEOREM TypeCorrect == Spec => []TypeOK
<1>1. Init => Types
  BY WatchAssumption, TypesInit
<1>2. Types /\ [Next]_vars => Types'
  BY WatchAssumption, TypesStep
<1>3. Types => TypeOK
  BY DEF Types
<1> QED BY <1>1, <1>2, <1>3, PTL DEF Spec

-----------------------------------------------------------------------------
(* What the target, a cycle and the broker hold of a credential: the       *)
(* broker is never behind, and a cycle writes nothing older than it read.  *)

\* The generation held is one the broker has reached.
Reached(held) == held[1] # 0 => held[2] <= cred[held[1]].gen

NotAhead ==
    /\ Reached(target)
    /\ \A p \in Procs : Reached(proc[p].seen) /\ Reached(proc[p].got)
    /\ \A p \in Procs : proc[p].pc = "write" =>
            /\ proc[p].got[1] # 0
            /\ proc[p].got[1] = proc[p].seen[1] => proc[p].got[2] >= proc[p].seen[2]

LEMMA ReachedKept ==
    ASSUME TypeOK, NEW held \in Held, Reached(held),
           \A c \in Creds : cred'[c].gen >= cred[c].gen,
           cred' \in [Creds -> Cred]
    PROVE  held[1] # 0 => held[2] <= cred'[held[1]].gen
<1>1. SUFFICES ASSUME held[1] # 0 PROVE held[2] <= cred'[held[1]].gen
  OBVIOUS
<1>2. held[1] \in Creds /\ held[2] \in Nat
  BY <1>1, WatchAssumption DEF Held, Creds, WatchAssumption
<1>3. cred[held[1]].gen \in Nat /\ cred'[held[1]].gen \in Nat
  BY <1>2 DEF TypeOK, Cred
<1> QED BY <1>1, <1>2, <1>3 DEF Reached

\* Generations never go back at the broker.
LEMMA GenGrows ==
    ASSUME TypeOK, NEW c \in Creds, Commit(c) \/ Measure(c)
    PROVE  \A d \in Creds : cred'[d].gen >= cred[d].gen
<1>1. \A d \in Creds : cred[d] \in Cred /\ cred[d].gen \in Nat
  BY DEF TypeOK, Cred
<1>2. PICK r : /\ Change(c, r)
               /\ r.gen \in {cred[c].gen, cred[c].gen + 1}
  <2>1. CASE Commit(c)
    <3>1. /\ [cred[c] EXCEPT !.gen = cred[c].gen + 1, !.health = "ok", !.expired = FALSE].gen = cred[c].gen + 1
          /\ \A h : [cred[c] EXCEPT !.gen = cred[c].gen + 1, !.health = h].gen = cred[c].gen + 1
      BY <1>1 DEF Cred
    <3> QED BY <2>1, <3>1 DEF Commit
  <2>2. CASE Measure(c)
    <3>1. /\ \A s : [cred[c] EXCEPT !.account = s].gen = cred[c].gen
          /\ \A s : [cred[c] EXCEPT !.model = s].gen = cred[c].gen
          /\ [cred[c] EXCEPT !.expired = TRUE].gen = cred[c].gen
      BY <1>1 DEF Cred
    <3> QED BY <2>2, <3>1 DEF Measure
  <2> QED BY <2>1, <2>2
<1> QED BY <1>1, <1>2 DEF Change, TypeOK

LEMMA NotAheadKept ==
    ASSUME TypeOK, TypeOK', NotAhead, \A c \in Creds : cred'[c].gen >= cred[c].gen,
           target' = target,
           \A p \in Procs :
              /\ proc'[p].seen = proc[p].seen /\ proc'[p].got = proc[p].got
              /\ proc'[p].pc = "write" => proc[p].pc = "write"
    PROVE  NotAhead'
<1>1. \A p \in Procs : proc[p].seen \in Held /\ proc[p].got \in Held
  BY DEF TypeOK, Cycle
<1>2. cred' \in [Creds -> Cred]
  BY DEF TypeOK
<1>3. Reached(target)'
  BY <1>2, ReachedKept DEF NotAhead, TypeOK, Reached
<1>4. \A p \in Procs : Reached(proc[p].seen)' /\ Reached(proc[p].got)'
  BY <1>1, <1>2, ReachedKept DEF NotAhead, Reached
<1> QED BY <1>3, <1>4 DEF NotAhead

LEMMA NotAheadStep == ASSUME Types, Types', NotAhead, [Next]_vars PROVE NotAhead'
<1> USE DEF Types
<1>0. /\ "watch" \in Procs /\ "command" \in Procs
      /\ \A c \in Creds : cred[c].gen \in Nat
      /\ \A p \in Procs : proc[p] \in Cycle /\ proc[p].seen \in Held /\ proc[p].got \in Held
  BY DEF Procs, TypeOK, Cred, Cycle
<1>1. ASSUME NEW p \in Procs, SyncCycle(p) PROVE NotAhead'
  <2>1. cred' = cred /\ \A q \in Procs \ {p} : proc'[q] = proc[q]
    BY <1>1, CycleMoves DEF broker
  <2>2. ASSUME target' = target, proc'[p].pc # "write",
               proc'[p].seen \in {target, proc[p].seen, <<0, 0>>}, proc'[p].got \in {proc[p].got, <<0, 0>>}
        PROVE  NotAhead'
    BY <2>1, <2>2 DEF NotAhead, Reached
  <2>3. CASE FetchUsage(p)
    <3>1. ASSUME Become(p, [proc[p] EXCEPT !.rows = cred, !.pc = "select"])
          PROVE  proc'[p].pc = "select" /\ proc'[p].seen = proc[p].seen /\ proc'[p].got = proc[p].got
      BY <1>0, <3>1 DEF TypeOK, Become, Cycle
    <3> QED BY <2>2, <2>3, <3>1, ReadTargetFields DEF FetchUsage
  <2>4. CASE AutoSelect(p)
    <3> PICK best \in 0..N :
          \/ ReadTarget(p, TRUE)
          \/ Become(p, [proc[p] EXCEPT !.pc = "switch", !.choice = best])
      BY <2>4 DEF AutoSelect
    <3>1. ASSUME Become(p, [proc[p] EXCEPT !.pc = "switch", !.choice = best])
          PROVE  proc'[p].pc = "switch" /\ proc'[p].seen = proc[p].seen /\ proc'[p].got = proc[p].got
      BY <1>0, <3>1 DEF TypeOK, Become, Cycle
    <3> QED BY <2>2, <2>4, <3>1, ReadTargetFields DEF AutoSelect
  <2>5. CASE WriteActive(p)
    BY <2>2, <2>5, ReadTargetFields DEF WriteActive
  <2>6. CASE GetCred(p)
    <3>1. CASE Servable(active) /\ Become(p, [proc[p] EXCEPT !.got = <<active, cred[active].gen>>, !.pc = "write"])
      <4>1. /\ proc'[p].pc = "write" /\ proc'[p].seen = proc[p].seen
            /\ proc'[p].got = <<active, cred[active].gen>>
        BY <1>0, <3>1 DEF TypeOK, Become, Cycle
      <4>2. active # 0 /\ active \in Creds
        <5>1. active # 0
          BY <3>1 DEF Servable
        <5>2. active \in 0..N
          BY DEF TypeOK
        <5> QED BY <5>1, <5>2, WatchAssumption DEF Creds, WatchAssumption
      <4>3. target' = target
        BY <2>6 DEF GetCred
      <4> QED BY <1>0, <2>1, <4>1, <4>2, <4>3 DEF NotAhead, Reached, Held
    <3>2. CASE Finish(p)
      BY <2>2, <2>6, <3>2, FinishFields DEF GetCred
    <3> QED BY <2>6, <3>1, <3>2 DEF GetCred
  <2>7. CASE WriteTarget(p)
    <3>1. proc'[p].pc # "write" /\ proc'[p].seen \in {proc[p].seen, <<0, 0>>} /\ proc'[p].got \in {proc[p].got, <<0, 0>>}
      <4>1. ASSUME Step(p, "identity")
            PROVE  proc'[p].pc = "identity" /\ proc'[p].seen = proc[p].seen /\ proc'[p].got = proc[p].got
        BY <1>0, <4>1, StepFields DEF PCs
      <4> QED BY <2>7, <4>1, FinishFields DEF WriteTarget
    <3>2. target' \in {target, proc[p].got}
      BY <2>7 DEF WriteTarget
    <3> QED BY <2>1, <3>1, <3>2 DEF NotAhead, Reached
  <2>8. CASE SyncIdentity(p)
    BY <2>2, <2>8, FinishFields DEF SyncIdentity
  <2> QED BY <1>1, <2>3, <2>4, <2>5, <2>6, <2>7, <2>8 DEF SyncCycle
<1>2. CASE Iterate
  <2>1. \A c \in Creds : cred'[c].gen >= cred[c].gen
    BY <1>0, <1>2 DEF Iterate, broker
  <2> QED BY <1>2, <2>1, LoopMoves, NotAheadKept DEF Iterate, Procs
<1>3. CASE PollAnswered \/ PollTimedOut \/ PollFailed \/ Awake
  <2>1. PICK pc \in {"fetch", "sleep", "idle"} : Step("watch", pc)
    BY <1>3, LoopMoves
  <2>2. pc \in PCs /\ pc # "write" /\ "command" \in Procs \ {"watch"}
    BY DEF PCs, Procs
  <2>3. /\ proc'["watch"].pc = pc /\ proc'["command"] = proc["command"]
        /\ proc'["watch"].seen = proc["watch"].seen /\ proc'["watch"].got = proc["watch"].got
    BY <1>0, <2>1, <2>2, StepFields
  <2>4. UNCHANGED <<cred, target>>
    BY <1>3 DEF PollAnswered, PollTimedOut, PollFailed, Awake, broker
  <2>5. \A c \in Creds : cred'[c].gen >= cred[c].gen
    BY <1>0, <2>4
  <2>6. \A p \in Procs : p = "watch" \/ p = "command"
    BY DEF Procs
  <2> QED BY <2>2, <2>3, <2>4, <2>5, <2>6, NotAheadKept
<1>4. CASE Command
  <2>1. UNCHANGED <<cred, target>>
    BY <1>4 DEF Command, broker
  <2> QED BY <1>0, <1>4, <2>1, CommandMoves, NotAheadKept DEF Procs
<1>5. CASE SetPolicy
  BY <1>5 DEF SetPolicy, broker, NotAhead, Reached
<1>6. ASSUME NEW c \in Creds, Commit(c) \/ Measure(c) PROVE NotAhead'
  <2>1. UNCHANGED <<target, proc>>
    BY <1>6 DEF Commit, Measure
  <2> QED BY <1>6, <2>1, GenGrows, NotAheadKept
<1>7. ASSUME NEW c \in Creds, Announce(c) PROVE NotAhead'
  BY <1>7 DEF Announce, NotAhead, Reached
<1>8. CASE UNCHANGED vars
  BY <1>8 DEF vars, broker, NotAhead, Reached
<1> QED BY <1>1, <1>2, <1>3, <1>4, <1>5, <1>6, <1>7, <1>8 DEF Next, RunWatch, Procs

\* The daemon and a command that sync at the same time never put an older
\* generation of a credential over a newer one.
THEOREM NeverOlder == Spec => TargetNeverOlder
<1> DEFINE A == target'[1] = target[1] => target'[2] >= target[2]
<1>1. Init => Types /\ NotAhead
  <2>1. Init => Types
    BY WatchAssumption, TypesInit
  <2>2. Init => NotAhead
    <3> SUFFICES ASSUME Init PROVE NotAhead
      OBVIOUS
    <3>1. target = <<0, 0>>
      BY DEF Init
    <3>2. \A p \in Procs : /\ proc[p].pc = "idle" /\ proc[p].seen = <<0, 0>> /\ proc[p].got = <<0, 0>>
      BY DEF Init, NoCycle
    <3> QED BY <3>1, <3>2 DEF NotAhead, Reached
  <2> QED BY <2>1, <2>2
<1>2. Types /\ NotAhead /\ [Next]_vars => Types' /\ NotAhead'
  BY WatchAssumption, TypesStep, NotAheadStep
<1>3. Types /\ NotAhead /\ [Next]_vars => [A]_vars
  <2> SUFFICES ASSUME Types, NotAhead, [Next]_vars PROVE A
    OBVIOUS
  <2>1. target \in Held
    BY DEF Types, TypeOK
  <2>2. CASE target' = target
    BY <2>1, <2>2 DEF Held
  <2>3. ASSUME NEW p \in Procs, WriteTarget(p) PROVE A
    <3>1. target' = target \/ (target = proc[p].seen /\ target' = proc[p].got)
      BY <2>3 DEF WriteTarget, TargetUnchanged
    <3> QED BY <2>2, <2>3, <3>1 DEF WriteTarget, NotAhead
  <2>4. ASSUME target' # target PROVE \E p \in Procs : WriteTarget(p)
    BY <2>4 DEF Next, RunWatch, SyncCycle, FetchUsage, AutoSelect, WriteActive, GetCred, SyncIdentity, Iterate,
        PollAnswered, PollTimedOut, PollFailed, Awake, Command, SetPolicy, Commit, Announce, Measure, vars, Procs
  <2> QED BY <2>2, <2>3, <2>4
<1> QED BY <1>1, <1>2, <1>3, PTL DEF Spec, TargetNeverOlder

-----------------------------------------------------------------------------
(* The daemon does not spin: an answer without progress is either throttled *)
(* or was brought by an announcement the poll had not seen.                 *)

Paced ==
    LET pc == proc["watch"].pc IN
    /\ \A c \in Creds : announced[c] <= cred[c].gen
    /\ pc = "poll" /\ ~old /\ announced[poll.name] # poll.cur => spins = 0
    /\ old /\ spins # 0 => poll.throttle /\ pc \notin {"idle", "poll"}
    /\ NoHotLoop

\* What leaves announcements, poll and spins alone may let the cycle go on.
LEMMA PacedKept ==
    ASSUME TypeOK, Paced, UNCHANGED <<announced, old, poll, spins>>,
           \A c \in Creds : cred'[c].gen >= cred[c].gen, TypeOK',
           \/ proc'["watch"] = proc["watch"]
           \/ /\ proc["watch"].pc \notin {"idle", "poll"}
              /\ proc'["watch"].pc # "poll"
              /\ proc'["watch"].pc = "idle" => ~poll.throttle
    PROVE  Paced'
<1>1. \A c \in Creds : announced'[c] <= cred'[c].gen
  BY DEF Paced, TypeOK, Cred
<1> QED BY <1>1 DEF Paced, NoHotLoop

LEMMA PacedStep == ASSUME Types, Types', Paced, [Next]_vars PROVE Paced'
<1> USE DEF Types
<1>0. /\ "watch" \in Procs /\ "command" \in Procs
      /\ \A c \in Creds : cred[c].gen \in Nat /\ announced[c] \in Nat
  BY DEF Procs, TypeOK, Cred
<1>1. ASSUME NEW p \in Procs, SyncCycle(p) PROVE Paced'
  <2>1. /\ UNCHANGED <<announced, old, poll, spins>>
        /\ \A c \in Creds : cred'[c].gen >= cred[c].gen
    BY <1>0, <1>1, CycleMoves DEF broker
  <2>2. CASE p = "watch"
    BY <1>0, <1>1, <2>1, <2>2, CycleMoves, PacedKept
  <2>3. CASE p # "watch"
    BY <1>0, <1>1, <2>1, <2>3, CycleMoves, PacedKept
  <2> QED BY <2>2, <2>3
<1>2. CASE Iterate
  <2>1. UNCHANGED <<cred, announced, old, spins>>
    BY <1>2 DEF Iterate, broker
  <2>2. /\ proc["watch"].pc = "idle"
        /\ proc'["watch"].pc = IF active = 0 THEN "fetch" ELSE "poll"
    BY <1>2, LoopMoves
  <2>3. active # 0 => poll'.name = active /\ poll'.cur = announced[active]
    <3>1. poll' = [poll EXCEPT !.name = active, !.throttle = (active = 0),
                               !.cur = IF active = 0 THEN 0 ELSE announced[active]]
      BY <1>2 DEF Iterate
    <3>2. poll \in [name : 0..N, cur : Nat, since : Nat, throttle : BOOLEAN]
      BY DEF TypeOK
    <3> QED BY <3>1, <3>2
  <2> QED BY <2>1, <2>2, <2>3 DEF Paced, NoHotLoop
<1>3. CASE PollAnswered
  <2> DEFINE name == poll.name
             gen == AnsweredGen(name)
  <2>1. /\ proc["watch"].pc = "poll" /\ UNCHANGED <<cred, announced, old>>
        /\ old \/ announced[name] > poll.since \/ announced[name] # poll.cur
        /\ spins' = IF gen > poll.since THEN 0 ELSE spins + 1
        /\ poll' = [NoPoll EXCEPT !.since = IF gen > poll.since THEN gen ELSE poll.since,
                                  !.throttle = (old \/ Servable(name)) /\ ~(gen > poll.since)]
    BY <1>3 DEF PollAnswered, broker
  <2>2. proc'["watch"].pc = "fetch"
    BY <1>0, <1>3, StepFields DEF PollAnswered, PCs
  <2>3. name \in Creds /\ poll.since \in Nat /\ spins \in Nat
    <3>1. name \in 0..N /\ poll.since \in Nat /\ spins \in Nat
      BY DEF TypeOK
    <3>2. name # 0
      BY <2>1 DEF PollsName
    <3> QED BY <3>1, <3>2, WatchAssumption DEF Creds, WatchAssumption
  <2>4. poll'.throttle = ((old \/ Servable(name)) /\ ~(gen > poll.since))
    BY <2>1 DEF NoPoll
  <2>5. CASE old
    <3>1. gen = poll.since /\ spins = 0
      BY <2>1, <2>5 DEF AnsweredGen, Paced
    <3>2. ~(gen > poll.since)
      BY <2>3, <3>1
    <3>3. spins' = 1
      BY <2>1, <3>1, <3>2
    <3>4. poll'.throttle
      BY <2>4, <2>5, <3>2, Zenon
    <3>5. proc'["watch"].pc \notin {"idle", "poll"}
      BY <2>2
    <3> QED BY <2>1, <2>5, <3>3, <3>4, <3>5 DEF Paced, NoHotLoop
  <2>6. CASE ~old
    <3>1. gen = cred[name].gen
      BY <2>6 DEF AnsweredGen
    <3>2. spins' = 0 \/ spins = 0
      BY <1>0, <2>1, <2>3, <2>6, <3>1 DEF Paced
    <3>3. spins' <= 1
      BY <2>1, <3>2
    <3> QED BY <2>1, <2>2, <2>6, <3>3 DEF Paced, NoHotLoop
  <2> QED BY <2>5, <2>6
<1>4. CASE PollTimedOut \/ Awake
  <2>1. spins' = 0 /\ UNCHANGED <<cred, announced, old>>
    BY <1>4 DEF PollTimedOut, Awake, broker
  <2> QED BY <2>1 DEF Paced, NoHotLoop
<1>5. CASE PollFailed
  <2>1. proc["watch"].pc = "poll" /\ UNCHANGED <<cred, announced, old, spins>>
    BY <1>5 DEF PollFailed, broker
  <2>2. proc'["watch"].pc = "sleep"
    BY <1>0, <1>5, StepFields DEF PollFailed, PCs
  <2> QED BY <2>1, <2>2 DEF Paced, NoHotLoop
<1>6. CASE Command
  <2>1. UNCHANGED <<cred, announced, old, poll, spins>>
    BY <1>6 DEF Command, broker
  <2> QED BY <1>0, <1>6, <2>1, CommandMoves, PacedKept
<1>7. CASE SetPolicy
  BY <1>7 DEF SetPolicy, broker, Paced, NoHotLoop
<1>8. ASSUME NEW c \in Creds, Commit(c) \/ Measure(c) PROVE Paced'
  <2>1. UNCHANGED <<announced, old, poll, spins, proc>>
    BY <1>8 DEF Commit, Measure
  <2> QED BY <1>8, <2>1, GenGrows, PacedKept
<1>9. ASSUME NEW c \in Creds, Announce(c) PROVE Paced'
  <2>1. /\ spins' = 0 /\ UNCHANGED <<cred, old>>
        /\ announced' = [announced EXCEPT ![c] = cred[c].gen]
    BY <1>9 DEF Announce
  <2>2. \A d \in Creds : announced'[d] <= cred'[d].gen
    BY <1>0, <2>1 DEF Paced, TypeOK
  <2> QED BY <2>1, <2>2 DEF Paced, NoHotLoop
<1>10. CASE UNCHANGED vars
  BY <1>10 DEF vars, broker, Paced, NoHotLoop
<1> QED BY <1>1, <1>2, <1>3, <1>4, <1>5, <1>6, <1>7, <1>8, <1>9, <1>10 DEF Next, RunWatch, Procs

\* A second answer in a row that took no wait brings a new generation.
THEOREM NeverHot == Spec => []NoHotLoop
<1>1. Init => Types /\ Paced
  <2>1. Init => Types
    BY WatchAssumption, TypesInit
  <2>2. Init => Paced
    <3> SUFFICES ASSUME Init PROVE Paced
      OBVIOUS
    <3>1. proc["watch"].pc = "idle" /\ spins = 0
      <4>1. [NoCycle EXCEPT !.pol = EffectivePolicy(policy)].pc = "idle"
        BY DEF NoCycle
      <4> QED BY <4>1 DEF Init, Procs
    <3>2. \A c \in Creds : announced[c] = 1 /\ cred[c].gen = 1
      BY DEF Init, Unknown
    <3> QED BY <3>1, <3>2 DEF Paced, NoHotLoop
  <2> QED BY <2>1, <2>2
<1>2. Types /\ Paced /\ [Next]_vars => Types' /\ Paced'
  BY WatchAssumption, TypesStep, PacedStep
<1>3. Paced => NoHotLoop
  BY DEF Paced
<1> QED BY <1>1, <1>2, <1>3, PTL DEF Spec

-----------------------------------------------------------------------------
(* `ccb policy manual`: the daemon has at most the switch of the policy it *)
(* has loaded, and another one each time it cannot read the config.        *)

MaySwitch ==
    /\ proc["watch"].pol # "manual"
    /\ proc["watch"].pc \in {"poll", "fetch", "select", "switch"}

Budget ==
    /\ proc["watch"].pc \in {"select", "switch"} => proc["watch"].pol # "manual"
    /\ ManualSticks
    /\ EffectivePolicy(policy) = "manual" /\ MaySwitch => stale <= errors

LEMMA Allowance ==
    ASSUME NEW s \in Nat, NEW e \in Nat, NEW e2 \in {e, e + 1}, s <= 1 + e
    PROVE  s <= 1 + e2
  OBVIOUS

LEMMA BudgetKept ==
    ASSUME TypeOK, Budget, policy' = policy, stale' = stale, errors' \in {errors, errors + 1},
           MaySwitch' => MaySwitch,
           proc'["watch"].pc \in {"select", "switch"} => proc'["watch"].pol # "manual"
    PROVE  Budget'
<1>1. stale \in Nat /\ errors \in Nat
  BY DEF TypeOK
<1>2. stale' <= 1 + errors'
  <2>1. stale <= 1 + errors
    BY DEF Budget, ManualSticks
  <2>2. stale <= 1 + errors'
    BY <1>1, <2>1, Allowance
  <2> QED BY <2>2
<1>3. (EffectivePolicy(policy) = "manual" /\ MaySwitch)' => stale' <= errors'
  <2>1. EffectivePolicy(policy') = EffectivePolicy(policy)
    OBVIOUS
  <2> QED BY <1>1, <2>1 DEF Budget, MaySwitch
<1> QED BY <1>2, <1>3 DEF Budget, ManualSticks, MaySwitch

LEMMA BudgetStep == ASSUME Types, Budget, [Next]_vars PROVE Budget'
<1> USE DEF Types
<1>0. "watch" \in Procs /\ "command" \in Procs /\ stale \in Nat /\ errors \in Nat
  BY DEF Procs, TypeOK
<1>1. CASE SyncCycle("watch")
  <2>1. CASE FetchUsage("watch")
    <3>1. errors' \in {errors, errors + 1} /\ policy' = policy /\ stale' = stale
      BY <2>1 DEF FetchUsage, Error
    <3>2. CASE ReadTarget("watch", TRUE) \/ ReadTarget("watch", FALSE)
      BY <1>0, <3>1, <3>2, ReadTargetFields, BudgetKept DEF MaySwitch
    <3>3. CASE proc["watch"].pol # "manual" /\ Become("watch", [proc["watch"] EXCEPT !.rows = cred, !.pc = "select"])
      <4>1. proc'["watch"].pc = "select" /\ proc'["watch"].pol = proc["watch"].pol
        BY <1>0, <3>3 DEF TypeOK, Become, Cycle
      <4>2. proc["watch"].pc = "fetch"
        BY <2>1 DEF FetchUsage
      <4> QED BY <3>1, <3>3, <4>1, <4>2, BudgetKept DEF MaySwitch
    <3> QED BY <2>1, <3>2, <3>3 DEF FetchUsage
  <2>2. CASE AutoSelect("watch")
    <3>1. UNCHANGED <<policy, stale, errors>> /\ proc["watch"].pc = "select"
      BY <2>2 DEF AutoSelect
    <3>2. CASE ReadTarget("watch", TRUE)
      BY <1>0, <3>1, <3>2, ReadTargetFields, BudgetKept DEF MaySwitch
    <3>3. ASSUME NEW best \in 0..N, Become("watch", [proc["watch"] EXCEPT !.pc = "switch", !.choice = best])
          PROVE  Budget'
      <4>1. proc'["watch"].pc = "switch" /\ proc'["watch"].pol = proc["watch"].pol
        BY <1>0, <3>3 DEF TypeOK, Become, Cycle
      <4> QED BY <3>1, <4>1, BudgetKept DEF MaySwitch, Budget
    <3> QED BY <2>2, <3>2, <3>3 DEF AutoSelect
  <2>3. CASE WriteActive("watch")
    <3>1. /\ proc["watch"].pc = "switch" /\ UNCHANGED <<policy, errors>>
          /\ stale' = IF EffectivePolicy(policy) = "manual" THEN stale + 1 ELSE stale
      BY <2>3 DEF WriteActive
    <3>2. proc'["watch"].pc = "get"
      BY <1>0, <2>3, ReadTargetFields DEF WriteActive
    <3>3. MaySwitch
      BY <3>1 DEF MaySwitch, Budget
    <3>4. stale' <= 1 + errors
      BY <1>0, <3>1, <3>3 DEF Budget, ManualSticks
    <3> QED BY <3>1, <3>2, <3>4 DEF Budget, ManualSticks, MaySwitch
  <2>4. CASE GetCred("watch") \/ WriteTarget("watch") \/ SyncIdentity("watch")
    <3>1. errors' \in {errors, errors + 1} /\ policy' = policy /\ stale' = stale
      BY <2>4 DEF GetCred, WriteTarget, SyncIdentity, Error
    <3>2. proc'["watch"].pc \notin {"poll", "fetch", "select", "switch"}
      <4>1. ASSUME Become("watch", [proc["watch"] EXCEPT !.got = <<active, cred[active].gen>>, !.pc = "write"])
            PROVE  proc'["watch"].pc = "write"
        BY <1>0, <4>1 DEF TypeOK, Become, Cycle
      <4>2. ASSUME Step("watch", "identity") PROVE proc'["watch"].pc = "identity"
        BY <1>0, <4>2, StepFields DEF PCs
      <4> QED BY <1>0, <2>4, <4>1, <4>2, FinishFields DEF GetCred, WriteTarget, SyncIdentity
    <3> QED BY <3>1, <3>2, BudgetKept DEF MaySwitch
  <2> QED BY <1>1, <2>1, <2>2, <2>3, <2>4 DEF SyncCycle
<1>2. CASE SyncCycle("command")
  <2>1. errors' \in {errors, errors + 1} /\ policy' = policy /\ stale' = stale
    BY <1>2 DEF SyncCycle, FetchUsage, AutoSelect, WriteActive, GetCred, WriteTarget, SyncIdentity, Error
  <2>2. proc'["watch"] = proc["watch"]
    BY <1>0, <1>2, CycleMoves
  <2> QED BY <2>1, <2>2, BudgetKept DEF MaySwitch, Budget
<1>3. CASE Iterate
  <2>1. /\ proc'["watch"].pc \in {"fetch", "poll"} /\ UNCHANGED <<policy, stale>>
        /\ \/ proc'["watch"].pol = EffectivePolicy(policy) /\ errors' = errors
           \/ errors' = errors + 1
    BY <1>3, LoopMoves DEF Iterate
  <2> QED BY <1>0, <2>1 DEF Budget, ManualSticks, MaySwitch
<1>4. CASE PollAnswered \/ PollTimedOut \/ PollFailed \/ Awake
  <2>1. PICK pc \in {"fetch", "sleep", "idle"} : Step("watch", pc)
    BY <1>4, LoopMoves
  <2>2. proc'["watch"].pc = pc /\ proc'["watch"].pol = proc["watch"].pol
    BY <1>0, <2>1, StepFields DEF PCs
  <2>3. errors' \in {errors, errors + 1} /\ policy' = policy /\ stale' = stale
    BY <1>4 DEF PollAnswered, PollTimedOut, PollFailed, Awake, Error
  <2>4. pc = "fetch" => proc["watch"].pc = "poll"
    <3>1. CASE PollAnswered \/ PollTimedOut
      BY <3>1 DEF PollAnswered, PollTimedOut
    <3>2. CASE PollFailed \/ Awake
      <4>1. proc'["watch"].pc \in {"sleep", "idle"}
        BY <1>0, <3>2, StepFields DEF PollFailed, Awake, PCs
      <4> QED BY <2>2, <4>1
    <3> QED BY <1>4, <3>1, <3>2
  <2> QED BY <2>2, <2>3, <2>4, BudgetKept DEF MaySwitch
<1>5. CASE Command
  BY <1>5, CommandMoves DEF Command, Budget, ManualSticks, MaySwitch
<1>6. CASE SetPolicy
  BY <1>0, <1>6 DEF SetPolicy, Budget, ManualSticks, MaySwitch
<1>7. ASSUME NEW c \in Creds, Commit(c) \/ Announce(c) \/ Measure(c) PROVE Budget'
  BY <1>7 DEF Commit, Announce, Measure, Budget, ManualSticks, MaySwitch
<1>8. CASE UNCHANGED vars
  BY <1>8 DEF vars, Budget, ManualSticks, MaySwitch
<1> QED BY <1>1, <1>2, <1>3, <1>4, <1>5, <1>6, <1>7, <1>8 DEF Next, RunWatch, Procs

\* After `ccb policy manual` the running daemon switches the account at most
\* once more, and once for each config it could not read.
THEOREM ManualObeyed == Spec => []ManualSticks
<1>1. Init => Types /\ Budget
  <2> SUFFICES ASSUME Init PROVE Types /\ Budget
    OBVIOUS
  <2>1. Types
    BY WatchAssumption, TypesInit
  <2>2. [NoCycle EXCEPT !.pol = EffectivePolicy(policy)].pc = "idle"
    BY DEF NoCycle
  <2>3. proc["watch"].pc = "idle" /\ stale = 0 /\ errors = 0
    BY <2>2 DEF Init, Procs
  <2> QED BY <2>1, <2>3 DEF Budget, ManualSticks, MaySwitch
<1>2. Types /\ Budget /\ [Next]_vars => Types' /\ Budget'
  BY WatchAssumption, TypesStep, BudgetStep
<1>3. Budget => ManualSticks
  BY DEF Budget
<1> QED BY <1>1, <1>2, <1>3, PTL DEF Spec

-----------------------------------------------------------------------------
(* The account autoSelect switches to.                                     *)

\* Induction over the naturals, from the fact that they are well-founded.
LEMMA Least ==
    ASSUME NEW T \in SUBSET Nat, T # {}
    PROVE  \E x \in T : \A y \in T : x <= y
<1> DEFINE R == {ss \in Nat \X Nat : ss[1] < ss[2]}
<1>1. IsWellFoundedOn(R, Nat)
  BY NatLessThanWellFounded DEF OpToRel
<1>2. \A x, y \in Nat : <<y, x>> \in R <=> y < x
  OBVIOUS
<1> HIDE DEF R
<1>3. PICK x \in T : \A y \in T : ~(<<y, x>> \in R)
  BY <1>1, WFMin
<1>4. \A y \in T : ~(y < x)
  BY <1>2, <1>3
<1> QED BY <1>4

LEMMA Induction ==
    ASSUME NEW S \in SUBSET Nat, 0 \in S, \A n \in S : n + 1 \in S
    PROVE  S = Nat
<1> SUFFICES ASSUME Nat \ S # {} PROVE FALSE
  OBVIOUS
<1>1. PICK x \in Nat \ S : \A y \in Nat \ S : x <= y
  BY Least
<1>2. x # 0 /\ x - 1 \in Nat
  BY <1>1
<1>3. x - 1 \in S
  BY <1>1, <1>2
<1> QED BY <1>1, <1>2, <1>3

\* One round of the loop of autoSelect: b is the best of the names before c.
Better(rows, pol, b, c) ==
    LET s == Score(rows[c], pol) IN
    IF /\ Eligible(rows[c])
       /\ b = 0 \/ s < Score(rows[b], pol) \/ (s = Score(rows[b], pol) /\ c < b)
    THEN c ELSE b

\* best is the outcome of the rounds up to each name.
Rounds(rows, pol, best, n) ==
    \A c \in 0..n : best[c] = IF c = 0 THEN 0 ELSE Better(rows, pol, best[c - 1], c)

LEMMA RoundsExist == ASSUME NEW rows, NEW pol, NEW m \in Nat PROVE \E best : Rounds(rows, pol, best, m)
<1> DEFINE S == {n \in Nat : \E best : Rounds(rows, pol, best, n)}
<1>1. 0 \in S
  <2>1. Rounds(rows, pol, [c \in 0..0 |-> 0], 0)
    BY DEF Rounds
  <2> QED BY <2>1
<1>2. ASSUME NEW n \in S PROVE n + 1 \in S
  <2>1. PICK best : Rounds(rows, pol, best, n)
    OBVIOUS
  <2> DEFINE new == [c \in 0..(n + 1) |-> IF c = n + 1 THEN Better(rows, pol, best[n], n + 1) ELSE best[c]]
  <2>2. Rounds(rows, pol, new, n + 1)
    <3> SUFFICES ASSUME NEW c \in 0..(n + 1)
                 PROVE  new[c] = IF c = 0 THEN 0 ELSE Better(rows, pol, new[c - 1], c)
      BY DEF Rounds
    <3>1. c # 0 => new[c - 1] = best[c - 1]
      OBVIOUS
    <3> HIDE DEF Better
    <3>2. CASE c = n + 1
      <4>1. new[c] = Better(rows, pol, best[n], n + 1) /\ c # 0 /\ c - 1 = n
        BY <3>2
      <4> QED BY <3>1, <3>2, <4>1
    <3>3. CASE c # n + 1
      <4>1. new[c] = best[c] /\ c \in 0..n
        BY <3>3
      <4> QED BY <2>1, <3>1, <4>1 DEF Rounds
    <3> QED BY <3>2, <3>3
  <2> QED BY <2>2
<1> HIDE DEF S
<1>3. S = Nat
  <2>1. S \in SUBSET Nat
    BY DEF S
  <2> QED BY <1>1, <1>2, <2>1, Induction
<1> QED BY <1>3 DEF S

\* Best is what the loop comes to.
LEMMA BestLoops == ASSUME WatchAssumption, NEW rows, NEW pol PROVE \E best : Rounds(rows, pol, best, N) /\ Best(rows, pol) = best[N]
<1> DEFINE F(best) == [c \in 0..N |-> IF c = 0 THEN 0 ELSE Better(rows, pol, best[c - 1], c)]
           loop == CHOOSE best : best = F(best)
<1>1. Best(rows, pol) = loop[N]
  BY DEF Best, Better
<1>2. \E best : best = F(best)
  <2>1. PICK best : Rounds(rows, pol, best, N)
    BY RoundsExist DEF WatchAssumption
  <2> DEFINE new == [c \in 0..N |-> best[c]]
  <2>2. new = F(new)
    <3>1. ASSUME NEW c \in 0..N PROVE new[c] = IF c = 0 THEN 0 ELSE Better(rows, pol, new[c - 1], c)
      <4>1. new[c] = best[c] /\ (c # 0 => new[c - 1] = best[c - 1])
        BY DEF WatchAssumption
      <4> QED BY <2>1, <4>1 DEF Rounds
    <3> QED BY <3>1
  <2> QED BY <2>2
<1>3. loop = F(loop)
  BY <1>2
<1> HIDE DEF loop
<1>4. Rounds(rows, pol, loop, N)
  BY <1>3 DEF Rounds
<1> QED BY <1>1, <1>4

\* b is an eligible one of the least score among the names up to n, the first
\* of them, or there is none.
LeastUpTo(rows, pol, b, n) ==
    /\ b \in 0..n
    /\ b = 0 => \A c \in 1..n : ~Eligible(rows[c])
    /\ b # 0 => /\ Eligible(rows[b])
                /\ \A c \in 1..n : Eligible(rows[c]) =>
                     \/ Score(rows[b], pol) < Score(rows[c], pol)
                     \/ Score(rows[b], pol) = Score(rows[c], pol) /\ b <= c

LEMMA ScoreType == ASSUME WatchAssumption, NEW r \in Cred, NEW pol PROVE Score(r, pol) \in Nat
  BY DEF Score, Cred, WatchAssumption

LEMMA BestLeast ==
    ASSUME WatchAssumption, NEW rows \in [Creds -> Cred], NEW pol
    PROVE  LeastUpTo(rows, pol, Best(rows, pol), N)
<1>1. PICK best : Rounds(rows, pol, best, N) /\ Best(rows, pol) = best[N]
  BY BestLoops
<1> DEFINE S == {n \in Nat : n <= N => LeastUpTo(rows, pol, best[n], n)}
<1>2. N \in Nat
  BY DEF WatchAssumption
<1>3. 0 \in S
  BY <1>1, <1>2 DEF Rounds, LeastUpTo
<1>4. ASSUME NEW n \in S PROVE n + 1 \in S
  <2> SUFFICES ASSUME n + 1 <= N PROVE LeastUpTo(rows, pol, best[n + 1], n + 1)
    OBVIOUS
  <2> DEFINE b == best[n]
             s(c) == Score(rows[c], pol)
             e(c) == Eligible(rows[c])
  <2>1. n \in Nat /\ n + 1 \in 0..N /\ n + 1 # 0 /\ (n + 1) - 1 = n
    BY <1>2
  <2>2. best[n + 1] = Better(rows, pol, b, n + 1)
    BY <1>1, <2>1 DEF Rounds
  <2>3. LeastUpTo(rows, pol, b, n)
    BY <1>2, <1>4
  <2>4. \A c \in 1..(n + 1) : s(c) \in Nat
    <3>1. \A c \in 1..(n + 1) : rows[c] \in Cred
      BY <1>2, <2>1 DEF Creds
    <3> QED BY <3>1, ScoreType
  <2>5. b \in 0..n /\ (b = 0 => \A c \in 1..n : ~e(c))
        /\ (b # 0 => e(b) /\ \A c \in 1..n : e(c) => s(b) < s(c) \/ (s(b) = s(c) /\ b <= c))
    BY <2>3 DEF LeastUpTo
  <2>6. best[n + 1] = IF e(n + 1) /\ (b = 0 \/ s(n + 1) < s(b) \/ (s(n + 1) = s(b) /\ n + 1 < b)) THEN n + 1 ELSE b
    BY <2>2 DEF Better
  <2> HIDE DEF s, e, b
  <2>7. CASE e(n + 1) /\ (b = 0 \/ s(n + 1) < s(b))
    <3>1. best[n + 1] = n + 1
      BY <2>6, <2>7
    <3>2. ASSUME NEW c \in 1..(n + 1), e(c) PROVE s(n + 1) < s(c) \/ (s(n + 1) = s(c) /\ n + 1 <= c)
      <4>1. CASE c = n + 1
        BY <2>1, <4>1
      <4>2. CASE c # n + 1
        <5>1. c \in 1..n
          BY <2>1, <4>2
        <5>2. b # 0 /\ b \in 1..(n + 1) /\ s(n + 1) < s(b) /\ (s(b) < s(c) \/ s(b) = s(c))
          BY <2>1, <2>5, <2>7, <3>2, <5>1
        <5>3. s(b) \in Nat /\ s(c) \in Nat /\ s(n + 1) \in Nat
          BY <2>1, <2>4, <5>2
        <5> QED BY <5>2, <5>3
      <4> QED BY <4>1, <4>2
    <3> QED BY <2>1, <2>7, <3>1, <3>2 DEF LeastUpTo, s, e
  <2>8. CASE ~(e(n + 1) /\ (b = 0 \/ s(n + 1) < s(b)))
    <3>1. best[n + 1] = b
      BY <2>1, <2>5, <2>6, <2>8
    <3>2. b = 0 => \A c \in 1..(n + 1) : ~e(c)
      BY <2>1, <2>5, <2>8
    <3>3. ASSUME b # 0, NEW c \in 1..(n + 1), e(c) PROVE s(b) < s(c) \/ (s(b) = s(c) /\ b <= c)
      <4>1. s(b) \in Nat /\ s(c) \in Nat /\ b \in 1..n
        BY <2>1, <2>4, <2>5, <3>3
      <4>2. CASE c = n + 1
        BY <2>1, <2>8, <3>3, <4>1, <4>2
      <4>3. CASE c # n + 1
        BY <2>1, <2>5, <3>3, <4>3
      <4> QED BY <4>2, <4>3
    <3> QED BY <2>1, <2>5, <3>1, <3>2, <3>3 DEF LeastUpTo, s, e
  <2> QED BY <2>7, <2>8
<1> HIDE DEF S
<1>5. S = Nat
  <2>1. S \in SUBSET Nat
    BY DEF S
  <2> QED BY <1>3, <1>4, <2>1, Induction
<1>6. LeastUpTo(rows, pol, best[N], N)
  BY <1>2, <1>5 DEF S
<1> QED BY <1>1, <1>6

LEMMA SelectsStep == ASSUME WatchAssumption, Types, SelectsLeast, [Next]_vars PROVE SelectsLeast'
<1>1. TypeOK
  BY DEF Types
<1>2. CASE UNCHANGED proc
  BY <1>2 DEF SelectsLeast
\* Another process is left alone; a process that moves does not come to switch.
<1>3. ASSUME NEW p \in Procs, proc'[p].pc # "switch", \A q \in Procs \ {p} : proc'[q] = proc[q]
      PROVE  SelectsLeast'
  BY <1>3 DEF SelectsLeast
<1>4. ASSUME NEW p \in Procs, NEW q, Become(p, q), q.pc # "switch" PROVE SelectsLeast'
  BY <1>1, <1>3, <1>4 DEF Become, TypeOK
<1>5. ASSUME NEW p \in Procs, NEW pc \in PCs, Step(p, pc), pc # "switch" PROVE SelectsLeast'
  BY <1>1, <1>3, <1>5, StepFields
<1>6. ASSUME NEW p \in Procs, SyncCycle(p) PROVE SelectsLeast'
  <2>1. ASSUME NEW known, ReadTarget(p, known) PROVE SelectsLeast'
    BY <1>4, <2>1 DEF ReadTarget, NoCycle
  <2>2. ASSUME Finish(p) PROVE SelectsLeast'
    <3>1. (IF p = "watch" THEN [NoCycle EXCEPT !.pc = Pace, !.pol = proc[p].pol] ELSE NoCycle).pc # "switch"
      BY DEF NoCycle, Pace
    <3> QED BY <1>4, <2>2, <3>1 DEF Finish
  <2>3. ASSUME NEW got, Become(p, [proc[p] EXCEPT !.got = got, !.pc = "write"]) PROVE SelectsLeast'
    <3>1. [proc[p] EXCEPT !.got = got, !.pc = "write"].pc = "write"
      BY <1>1 DEF TypeOK, Cycle
    <3> QED BY <1>4, <2>3, <3>1
  <2>4. ASSUME Become(p, [proc[p] EXCEPT !.rows = cred, !.pc = "select"]) PROVE SelectsLeast'
    <3>1. [proc[p] EXCEPT !.rows = cred, !.pc = "select"].pc = "select"
      BY <1>1 DEF TypeOK, Cycle
    <3> QED BY <1>4, <2>4, <3>1
  <2>5. CASE AutoSelect(p)
    <3> DEFINE w == proc[p]
               best == Best(w.rows, w.pol)
    <3>1. ASSUME best # 0, Become(p, [w EXCEPT !.pc = "switch", !.choice = best]) PROVE SelectsLeast'
      <4>1. proc' = [proc EXCEPT ![p] = [w EXCEPT !.pc = "switch", !.choice = best]]
        BY <3>1 DEF Become
      <4>2. w \in Cycle /\ w.rows \in [Creds -> Cred]
        BY <1>1, CycleFields DEF TypeOK
      <4> HIDE DEF best
      <4>3. proc'[p].rows = w.rows /\ proc'[p].pol = w.pol /\ proc'[p].choice = best
        BY <1>1, <4>1, <4>2 DEF TypeOK, Cycle
      <4>4. LeastUpTo(w.rows, w.pol, best, N)
        BY <4>2, BestLeast DEF best
      <4>5. \A q \in Procs \ {p} : proc'[q] = proc[q]
        BY <1>1, <4>1 DEF TypeOK
      <4>6. ASSUME NEW q \in Procs, proc'[q].pc = "switch"
            PROVE  /\ Eligible(proc'[q].rows[proc'[q].choice])
                   /\ \A c \in Creds : Eligible(proc'[q].rows[c]) =>
                        \/ Score(proc'[q].rows[proc'[q].choice], proc'[q].pol) < Score(proc'[q].rows[c], proc'[q].pol)
                        \/ /\ Score(proc'[q].rows[proc'[q].choice], proc'[q].pol) = Score(proc'[q].rows[c], proc'[q].pol)
                           /\ proc'[q].choice <= c
        BY <3>1, <4>3, <4>4, <4>5, <4>6 DEF LeastUpTo, Creds, SelectsLeast
      <4> QED BY <4>6 DEF SelectsLeast
    <3> HIDE DEF best
    <3> QED BY <2>1, <2>5, <3>1 DEF AutoSelect, best
  <2>6. CASE FetchUsage(p)
    BY <2>1, <2>4, <2>6 DEF FetchUsage
  <2>7. CASE WriteActive(p)
    BY <2>1, <2>7 DEF WriteActive
  <2>8. CASE GetCred(p)
    BY <2>2, <2>3, <2>8 DEF GetCred
  <2>9. CASE WriteTarget(p) \/ SyncIdentity(p)
    BY <1>5, <2>2, <2>9 DEF WriteTarget, SyncIdentity, PCs
  <2> QED BY <1>6, <2>5, <2>6, <2>7, <2>8, <2>9 DEF SyncCycle
<1>7. CASE Iterate \/ PollAnswered \/ PollTimedOut \/ PollFailed \/ Awake
  <2>1. proc'["watch"].pc \in {"fetch", "poll", "sleep", "idle"} /\ \A q \in Procs \ {"watch"} : proc'[q] = proc[q]
    <3>1. CASE Iterate
      BY <1>1, <3>1, LoopMoves DEF Iterate, Procs
    <3>2. CASE PollAnswered \/ PollTimedOut \/ PollFailed \/ Awake
      <4>1. PICK pc \in {"fetch", "sleep", "idle"} : Step("watch", pc)
        BY <1>1, <3>2, LoopMoves
      <4> QED BY <1>1, <4>1, StepFields DEF Step, Become, TypeOK, PCs, Procs
    <3> QED BY <1>7, <3>1, <3>2
  <2> QED BY <1>3, <2>1 DEF Procs
<1>8. CASE Command
  <2>1. ASSUME NEW pol, Become("command", [proc["command"] EXCEPT !.pc = "fetch", !.pol = pol]) PROVE SelectsLeast'
    <3>1. [proc["command"] EXCEPT !.pc = "fetch", !.pol = pol].pc = "fetch"
      BY <1>1 DEF TypeOK, Cycle, Procs
    <3> QED BY <1>4, <2>1, <3>1 DEF Procs
  <2> QED BY <1>8, <2>1 DEF Command
<1>9. CASE SetPolicy \/ \E c \in Creds : Commit(c) \/ Announce(c) \/ Measure(c)
  BY <1>2, <1>9 DEF SetPolicy, Commit, Announce, Measure
<1>10. CASE UNCHANGED vars
  BY <1>2, <1>10 DEF vars
<1> QED BY <1>6, <1>7, <1>8, <1>9, <1>10 DEF Next, RunWatch, Procs

\* The account autoSelect is about to switch to is eligible and of the least
\* score among the rows it fetched, the first by name among equals: what the
\* loop computes, for every number of credentials.
THEOREM LeastSelected == Spec => []SelectsLeast
<1>1. Init => SelectsLeast
  <2> SUFFICES ASSUME Init, NEW p \in Procs PROVE proc[p].pc # "switch"
    BY DEF SelectsLeast
  <2>1. NoCycle.pc = "idle" /\ [NoCycle EXCEPT !.pol = EffectivePolicy(policy)].pc = "idle"
    BY DEF NoCycle
  <2> QED BY <2>1 DEF Init
<1>2. Init => Types
  BY WatchAssumption, TypesInit
<1>3. Types /\ [Next]_vars => Types'
  BY WatchAssumption, TypesStep
<1>4. Types /\ SelectsLeast /\ [Next]_vars => SelectsLeast'
  BY WatchAssumption, SelectsStep
<1> QED BY <1>1, <1>2, <1>3, <1>4, PTL DEF Spec
=============================================================================
