------------------------------ MODULE Longpoll ------------------------------
(***************************************************************************)
(* Generations and long-polling of one credential: commit (persist, then   *)
(* announce under genMu), waitForGen, the GET that follows a wake-up, and  *)
(* the generation a watching client remembers.                             *)
(*                                                                         *)
(* A wake channel is a number: announcing closes the current one and opens *)
(* the next, so a captured channel is closed when it is not the current.   *)
(***************************************************************************)
EXTENDS Integers

CONSTANTS
    Pollers,
    MaxVersion,     \* bound: commits
    MaxClock,       \* bound: the wall clock reads 0..MaxClock
    MaxRestarts,    \* bound: restarts of the broker
    MaxDeletions    \* bound: deletions

ASSUME LongpollAssumption ==
    MaxVersion \in Nat /\ MaxClock \in Nat /\ MaxRestarts \in Nat /\ MaxDeletions \in Nat

VARIABLES
    clock,      \* the wall clock, stepped back and forth
    stored,     \* generation of the stored record, 0 when there is none
    version,    \* history: the number of the last commit
    pending,    \* a commit that is persisted and not announced: its generation, or 0
    announced,  \* credState.gen
    wake,       \* credState.wake
    restarts,
    deletions,  \* history: how often the credential was deleted
    poll        \* the pollers

vars == <<clock, stored, version, pending, announced, wake, restarts, deletions, poll>>

\* since: the newest generation the client has seen; seen: the commit it was
\* served last.  cur and ch are what waitForGen captured.
Poller == [pc : {"idle", "blocked", "changed"}, since : Nat, seen : Nat, cur : Nat, ch : Nat]

Client(since, seen) == [pc |-> "idle", since |-> since, seen |-> seen, cur |-> 0, ch |-> 0]

Init ==
    /\ clock = 0 /\ stored = 1 /\ version = 1
    /\ pending = 0 /\ announced = 1 /\ wake = 0 /\ restarts = 0 /\ deletions = 0
    /\ poll = [p \in Pollers |-> Client(0, 0)]

-----------------------------------------------------------------------------

NextGenClock(prev) == IF clock > 0 THEN clock ELSE 1

\* nextGen: greater than the stored generation and, if the clock allows, the clock.
NextGen(prev) == IF clock > prev + 1 THEN clock ELSE prev + 1

\* The first half of commit, under the mutex of the credential.
Persist ==
    /\ pending = 0 /\ version < MaxVersion
    /\ stored' = NextGen(stored)
    /\ pending' = stored'
    /\ version' = version + 1
    /\ UNCHANGED <<clock, announced, wake, restarts, deletions, poll>>

\* The second half, under genMu.
Announce ==
    /\ pending # 0
    /\ announced' = pending
    /\ wake' = wake + 1
    /\ pending' = 0
    /\ UNCHANGED <<clock, stored, version, restarts, deletions, poll>>

\* DELETE touches the store only.
Delete ==
    /\ stored # 0 /\ deletions < MaxDeletions
    /\ stored' = 0 /\ deletions' = deletions + 1
    /\ UNCHANGED <<clock, version, pending, announced, wake, restarts, poll>>

\* What waitForGen captures in one critical section: the generation and the
\* channel that the next announcement closes.
CaptureLate(p) == [poll[p] EXCEPT !.cur = announced, !.ch = wake + 1]
Capture(p) == [poll[p] EXCEPT !.cur = announced, !.ch = wake]

Poll(p) ==
    /\ poll[p].pc = "idle" /\ stored # 0
    /\ poll' = [poll EXCEPT ![p] =
                  [Capture(p) EXCEPT !.pc = IF announced > poll[p].since THEN "changed" ELSE "blocked"]]
    /\ UNCHANGED <<clock, stored, version, pending, announced, wake, restarts, deletions>>

\* The captured channel is closed.
Wake(p) ==
    /\ poll[p].pc = "blocked" /\ poll[p].ch < wake
    /\ poll' = [poll EXCEPT ![p].pc = "changed", ![p].cur = announced]
    /\ UNCHANGED <<clock, stored, version, pending, announced, wake, restarts, deletions>>

\* 304 with the captured generation: nothing new to remember.
Timeout(p) ==
    /\ poll[p].pc = "blocked"
    /\ poll' = [poll EXCEPT ![p] = Client(IF @.cur > @.since THEN @.cur ELSE @.since, @.seen)]
    /\ UNCHANGED <<clock, stored, version, pending, announced, wake, restarts, deletions>>

\* The rest of the GET reads the record NOW and advertises its generation; the
\* watching client keeps the greatest one.  A deleted record is a 404.
Answer(p) ==
    /\ poll[p].pc = "changed"
    /\ poll' = [poll EXCEPT ![p] =
                  IF stored = 0 THEN Client(@.since, @.seen)
                  ELSE Client(IF stored > @.since THEN stored ELSE @.since, version)]
    /\ UNCHANGED <<clock, stored, version, pending, announced, wake, restarts, deletions>>

SeedNothing == 0
Seed == stored

\* The wake map is seeded from the store; the connections are gone and the
\* clients come back with the generation they know.
Restart ==
    /\ restarts < MaxRestarts
    /\ restarts' = restarts + 1
    /\ announced' = Seed /\ wake' = 0 /\ pending' = 0
    /\ poll' = [p \in Pollers |-> Client(poll[p].since, poll[p].seen)]
    /\ UNCHANGED <<clock, stored, version, deletions>>

Clock ==
    /\ clock' \in (0..MaxClock) \ {clock}
    /\ UNCHANGED <<stored, version, pending, announced, wake, restarts, deletions, poll>>

PollStep(p) == Poll(p) \/ Wake(p) \/ Timeout(p) \/ Answer(p)

Next == Persist \/ Announce \/ Delete \/ Restart \/ Clock \/ \E p \in Pollers : PollStep(p)

Spec == Init /\ [][Next]_vars

\* The committer finishes; a client polls again and again and takes its
\* answers.  No timeout is promised: nobody may depend on one.
Fairness ==
    /\ WF_vars(Announce)
    /\ \A p \in Pollers : WF_vars(Poll(p)) /\ WF_vars(Wake(p)) /\ WF_vars(Answer(p))

FairSpec == Spec /\ Fairness

-----------------------------------------------------------------------------

\* Every variable has its type.
TypeOK ==
    /\ clock \in Nat /\ stored \in Nat /\ version \in Nat /\ pending \in Nat
    /\ announced \in Nat /\ wake \in Nat /\ restarts \in Nat /\ deletions \in Nat
    /\ poll \in [Pollers -> Poller]

\* No missed wake-up: a poller that is blocked on a channel still open has
\* compared its generation with the one that is announced now.
NoMissedWakeup ==
    \A p \in Pollers :
        poll[p].pc = "blocked" =>
            \/ poll[p].ch < wake
            \/ poll[p].ch = wake /\ announced = poll[p].cur /\ announced <= poll[p].since

\* A generation is announced only after it was persisted, and between commits
\* the wake map tells the generation of the store, restarts included.  (A
\* deletion forgets the generation of the store but not the wake map.)
AnnouncedIsStored == deletions = 0 => announced <= stored /\ (pending = 0 => announced = stored)

\* A new record has a greater generation than every generation a client was
\* told, whatever the clock does and however often the broker restarts, as
\* long as the credential is not deleted.
NeverTold == [][version' # version /\ deletions = 0 => \A p \in Pollers : stored' > poll[p].since]_vars

\* A watching client gets the newest record without depending on a timeout.
CatchesUp ==
    \A p \in Pollers : poll[p].seen < version ~> (poll[p].seen = version \/ deletions # 0)
=============================================================================
