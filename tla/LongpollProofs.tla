--------------------------- MODULE LongpollProofs ---------------------------
(***************************************************************************)
(* Long-polling never misses a wake-up, and generations only grow, for any *)
(* number of pollers, commits, restarts and clock steps.                   *)
(***************************************************************************)
EXTENDS Longpoll, TLAPS

\* The type invariant.
THEOREM TypeCorrect == Spec => []TypeOK
<1>1. Init => TypeOK
  BY DEF Init, TypeOK, Client, Poller
<1>2. TypeOK /\ [Next]_vars => TypeOK'
  <2> SUFFICES ASSUME TypeOK, [Next]_vars PROVE TypeOK'
    OBVIOUS
  <2> USE LongpollAssumption DEF TypeOK, Poller, Client
  <2>1. CASE Persist
    BY <2>1 DEF Persist, NextGen
  <2>2. CASE Announce
    BY <2>2 DEF Announce
  <2>3. CASE Delete
    BY <2>3 DEF Delete
  <2>4. CASE Restart
    BY <2>4 DEF Restart, Seed
  <2>5. CASE Clock
    BY <2>5 DEF Clock
  <2>6. ASSUME NEW p \in Pollers, PollStep(p) PROVE TypeOK'
    <3>1. CASE Poll(p)
      <4>1. [poll[p] EXCEPT !.cur = announced, !.ch = wake] \in Poller
        OBVIOUS
      <4>2. \A pc \in {"changed", "blocked"} : [Capture(p) EXCEPT !.pc = pc] \in Poller
        BY <4>1 DEF Capture
      <4> QED BY <3>1, <4>2 DEF Poll
    <3>2. CASE Wake(p)
      BY <3>2 DEF Wake
    <3>3. CASE Timeout(p)
      BY <3>3 DEF Timeout
    <3>4. CASE Answer(p)
      BY <3>4 DEF Answer
    <3> QED BY <2>6, <3>1, <3>2, <3>3, <3>4 DEF PollStep
  <2>7. CASE UNCHANGED vars
    BY <2>7 DEF vars
  <2> QED BY <2>1, <2>2, <2>3, <2>4, <2>5, <2>6, <2>7 DEF Next
<1> QED BY <1>1, <1>2, PTL DEF Spec

\* A blocked poller whose channel is open has seen the announced generation.
THEOREM WakeupsNotMissed == Spec => []NoMissedWakeup
<1>1. Init => NoMissedWakeup
  BY DEF Init, NoMissedWakeup, Client
<1>2. TypeOK /\ NoMissedWakeup /\ [Next]_vars => NoMissedWakeup'
  <2> SUFFICES ASSUME TypeOK, NoMissedWakeup, [Next]_vars PROVE NoMissedWakeup'
    OBVIOUS
  <2> USE DEF TypeOK, Poller, Client, NoMissedWakeup
  <2>1. CASE Announce
    BY <2>1 DEF Announce
  <2>2. CASE Restart
    BY <2>2 DEF Restart
  <2>3. CASE Persist \/ Delete \/ Clock
    BY <2>3 DEF Persist, Delete, Clock
  <2>4. ASSUME NEW p \in Pollers, PollStep(p) PROVE NoMissedWakeup'
    <3>1. CASE Poll(p)
      BY <3>1 DEF Poll, Capture
    <3>2. CASE Wake(p)
      BY <3>2 DEF Wake
    <3>3. CASE Timeout(p)
      BY <3>3 DEF Timeout
    <3>4. CASE Answer(p)
      BY <3>4 DEF Answer
    <3> QED BY <2>4, <3>1, <3>2, <3>3, <3>4 DEF PollStep
  <2>5. CASE UNCHANGED vars
    BY <2>5 DEF vars
  <2> QED BY <2>1, <2>2, <2>3, <2>4, <2>5 DEF Next
<1> QED BY <1>1, <1>2, TypeCorrect, PTL DEF Spec

-----------------------------------------------------------------------------
(* While the credential is not deleted, no generation known anywhere -- in  *)
(* the wake map, in a pending announcement, by a poller -- exceeds the      *)
(* stored one.                                                              *)

NothingAhead ==
    /\ announced <= stored
    /\ pending = 0 => announced = stored
    /\ pending # 0 => pending = stored
    /\ \A p \in Pollers : poll[p].since <= stored /\ poll[p].cur <= stored

\* NothingAhead holds until the deletion.
LEMMA NothingAheadUntilDeletion == Spec => [](deletions = 0 => NothingAhead)
<1> DEFINE Inv == deletions = 0 => NothingAhead
<1>1. Init => Inv
  BY DEF Init, NothingAhead, Client, Poller
<1>2. TypeOK /\ TypeOK' /\ Inv /\ [Next]_vars => Inv'
  <2> SUFFICES ASSUME TypeOK, TypeOK', Inv, [Next]_vars, deletions' = 0 PROVE NothingAhead'
    OBVIOUS
  <2> USE DEF NothingAhead, TypeOK, Poller, Client
  <2>1. CASE Persist
    BY <2>1 DEF Persist, NextGen
  <2>2. CASE Announce
    BY <2>2 DEF Announce
  <2>3. CASE Delete
    BY <2>3 DEF Delete
  <2>4. CASE Restart
    BY <2>4 DEF Restart, Seed
  <2>5. CASE Clock
    BY <2>5 DEF Clock
  <2>6. ASSUME NEW p \in Pollers, PollStep(p) PROVE NothingAhead'
    <3>1. CASE Poll(p)
      BY <3>1 DEF Poll, Capture
    <3>2. CASE Wake(p)
      BY <3>2 DEF Wake
    <3>3. CASE Timeout(p)
      BY <3>3 DEF Timeout
    <3>4. CASE Answer(p)
      BY <3>4 DEF Answer
    <3> QED BY <2>6, <3>1, <3>2, <3>3, <3>4 DEF PollStep
  <2>7. CASE UNCHANGED vars
    BY <2>7 DEF vars
  <2> QED BY <2>1, <2>2, <2>3, <2>4, <2>5, <2>6, <2>7 DEF Next
<1> QED BY <1>1, <1>2, TypeCorrect, PTL DEF Spec

\* Nothing is announced before it is stored, and nothing stored stays
\* unannounced between commits.
THEOREM AnnouncementsSound == Spec => []AnnouncedIsStored
<1>1. (deletions = 0 => NothingAhead) => AnnouncedIsStored
  BY DEF NothingAhead, AnnouncedIsStored
<1> QED BY <1>1, NothingAheadUntilDeletion, PTL

\* Every commit's generation is greater than all that clients were told, for
\* any clock and any number of restarts.
THEOREM GenerationsNew == Spec => NeverTold
<1>1. TypeOK /\ (deletions = 0 => NothingAhead) /\ [Next]_vars =>
        [version' # version /\ deletions = 0 => \A p \in Pollers : stored' > poll[p].since]_vars
  <2> SUFFICES ASSUME TypeOK, NothingAhead, [Next]_vars, version' # version, NEW p \in Pollers
               PROVE  stored' > poll[p].since
    OBVIOUS
  <2>1. Persist
    BY DEF Next, vars, Announce, Delete, Restart, Clock, PollStep, Poll, Wake, Timeout, Answer
  <2> QED BY <2>1, LongpollAssumption DEF Persist, NextGen, NothingAhead, TypeOK, Poller
<1> QED BY <1>1, NothingAheadUntilDeletion, TypeCorrect, PTL DEF Spec, NeverTold
=============================================================================
