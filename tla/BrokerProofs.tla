---------------------------- MODULE BrokerProofs ----------------------------
(***************************************************************************)
(* What holds of the broker for every number of credentials, threads and   *)
(* tokens, whatever the threads do: its types, that the health of a        *)
(* credential never goes wrong about a token that works, and that who      *)
(* refreshes or commits holds the mutex of the credential, works on the    *)
(* record that is stored and gives it a new generation.                    *)
(*                                                                         *)
(* The argument: what a step may put into a thread, and from there into    *)
(* the store, is described once (StepShape); tokens only get older         *)
(* (UpstreamGrows); a step takes a free mutex, keeps what it holds or lets *)
(* go of it (MutexStep); a thread that comes to refresh or commit has read *)
(* the store in that step or held the mutex since (PendingStep).  The      *)
(* invariants follow from these.                                           *)
(***************************************************************************)
EXTENDS Broker, RecordsProofs

-----------------------------------------------------------------------------
(* The values the definitions are built from have their types.             *)

LEMMA IdleType == AnyTok \in Token /\ Blank \in Record /\ Idle \in Thread
<1>1. AnyTok \in Token
  <2>1. (CHOOSE l \in Lineages : TRUE) \in Lineages /\ 1 \in 1..MaxSeq
    BY TokensAssumption
  <2> QED BY <2>1 DEF AnyTok, Tok, Token
<1>2. Blank \in Record
  <2>1. Fresh(AnyTok) \in Record
    BY <1>1, FreshType
  <2> QED BY <2>1 DEF Blank, Record
<1>3. (CHOOSE c \in Creds : TRUE) \in Creds
  BY BrokerAssumption
<1> QED BY <1>1, <1>2, <1>3 DEF Idle, Thread, PCs, Activities, Health

LEMMA TokType ==
    ASSUME NEW l \in Lineages, NEW i \in 1..MaxSeq
    PROVE  Tok(l, i) \in Token
  BY DEF Tok, Token

LEMMA TokFields ==
    ASSUME NEW k \in Token
    PROVE  k.lin \in Lineages /\ k.seq \in 0..MaxSeq
  BY TokensAssumption DEF Token

LEMMA PresentType ==
    ASSUME NEW s \in [Creds -> Record \cup {NoRecord}], NEW c \in Creds, Present(s, c)
    PROVE  s[c] \in Record
  BY DEF Present

LEMMA NextGenType ==
    ASSUME NEW g \in Nat, now \in Nat
    PROVE  NextGen(g) \in Nat /\ NextGen(g) > g
  BY DEF NextGen

LEMMA StoredType ==
    ASSUME TypeOK, NEW t \in Threads
    PROVE  Stored(t) \in Record
<1> DEFINE c == th[t].c
           prev == IF Present(mem, c) THEN mem[c].gen ELSE 0
<1>1. c \in Creds /\ th[t].nr \in Record
  BY DEF TypeOK, Thread
<1>2. prev \in Nat
  BY <1>1, PresentType DEF TypeOK, Record
<1> HIDE DEF prev
<1>3. NextGen(prev) \in Nat
  BY <1>2, NextGenType DEF TypeOK
<1>4. Stored(t) = [th[t].nr EXCEPT !.gen = NextGen(prev)]
  BY DEF Stored, prev
<1> QED BY <1>1, <1>3, <1>4 DEF Record

LEMMA BecomeType ==
    ASSUME TypeOK, NEW t \in Threads, NEW r \in Thread, Become(t, r)
    PROVE  th' \in [Threads -> Thread]
  BY DEF Become, TypeOK

LEMMA DoneType ==
    ASSUME TypeOK, NEW t \in Threads, Done(t)
    PROVE  th' \in [Threads -> Thread]
  BY IdleType, BecomeType DEF Done

LEMMA GotoType ==
    ASSUME TypeOK, NEW t \in Threads, NEW pc \in PCs, Goto(t, pc)
    PROVE  th' \in [Threads -> Thread]
<1>1. [th[t] EXCEPT !.pc = pc] \in Thread
  BY DEF TypeOK, Thread
<1> QED BY <1>1, BecomeType DEF Goto

LEMMA FinishType ==
    ASSUME TypeOK, NEW t \in Threads, NEW r \in Record, Finish(t, r)
    PROVE  th' \in [Threads -> Thread]
<1> DEFINE next(pc, x) == [Idle EXCEPT !.pc = pc, !.op = th[t].op, !.c = th[t].c, !.rec = x,
                                       !.flag = th[t].flag]
           new == CASE th[t].op = "get"      -> next("respond", r)
                    [] th[t].op = "probeget" -> next("probe", r)
                    [] th[t].op = "heal"     -> next("respond", [r EXCEPT !.health = "ok"])
                    [] th[t].op = "poll"     -> next("ifaged", Blank)
                    [] OTHER                 -> Idle
<1>1. ASSUME NEW pc \in PCs, NEW x \in Record PROVE next(pc, x) \in Thread
  BY IdleType DEF TypeOK, Thread
<1>2. "respond" \in PCs /\ "probe" \in PCs /\ "ifaged" \in PCs
  BY DEF PCs
<1>3. [r EXCEPT !.health = "ok"] \in Record
  BY DEF Record, Health
<1> HIDE DEF next
<1>4. new \in Thread
  BY <1>1, <1>2, <1>3, IdleType
<1> QED BY <1>4, BecomeType DEF Finish, next

LEMMA ProfileAnswerType ==
    ASSUME TypeOK, NEW k, NEW a, ProfileAnswer(k, a)
    PROVE  faults' \in Nat
  BY DEF ProfileAnswer, Fault, TypeOK, OAuthTypeOK

LEMMA RefreshAnswerType ==
    ASSUME TypeOK, NEW k \in Token, NEW a, RefreshAnswer(k, a)
    PROVE  latest' \in [Lineages -> 1..MaxSeq] /\ faults' \in Nat
<1>1. ASSUME NEW l \in Lineages, Mint(l) PROVE latest' \in [Lineages -> 1..MaxSeq]
  BY <1>1, TokensAssumption DEF Mint, TypeOK, OAuthTypeOK
<1>2. k.lin \in Lineages
  BY DEF Token
<1> QED BY <1>1, <1>2 DEF RefreshAnswer, Fault, TypeOK, OAuthTypeOK

-----------------------------------------------------------------------------
(* The type invariant, action by action.  Every action changes one thread   *)
(* or none; ThreadsOK and the rest are shown apart.                         *)

ThreadsOK == th \in [Threads -> Thread]

LEMMA CommitTypes ==
    ASSUME TypeOK, NEW t \in Threads, PutSaved(t) \/ PutUnsaved(t) \/ Bump(t)
    PROVE  TypeOK'
<1>1. th[t] \in Thread /\ th[t].c \in Creds /\ th[t].tok \in Token
  BY DEF TypeOK, Thread
<1>2. Stored(t) \in Record
  BY StoredType
<1>3. mem' = [mem EXCEPT ![th[t].c] = Stored(t)] => mem' \in [Creds -> Record \cup {NoRecord}]
  BY <1>1, <1>2 DEF TypeOK
<1> USE DEF TypeOK, OAuthTypeOK, oauthVars, storeVars, volatile, history
<1>4. CASE PutSaved(t)
  <2>1. [th[t] EXCEPT !.pc = "bump", !.nr = Stored(t)] \in Thread
    BY <1>1, <1>2 DEF Thread, PCs
  <2>2. ThreadsOK'
    BY <1>4, <2>1, BecomeType DEF PutSaved, ThreadsOK
  <2> QED BY <1>1, <1>3, <1>4, <2>2 DEF PutSaved, WriteThrough, ThreadsOK
<1>5. CASE PutUnsaved(t)
  <2>1. (IF th[t].nr.health = "dead" THEN th[t].nr ELSE th[t].rec) \in Record
    BY <1>1 DEF Thread
  <2>2. ThreadsOK'
    BY <1>5, <2>1, FinishType DEF PutUnsaved, ThreadsOK
  <2> QED BY <1>1, <1>3, <1>5, <2>2 DEF PutUnsaved, Fault, Release, ThreadsOK
<1>6. CASE Bump(t)
  <2>1. (IF th[t].op = "heal" THEN th[t].rec ELSE th[t].nr) \in Record
    BY <1>1 DEF Thread
  <2>2. ThreadsOK'
    BY <1>6, <2>1, FinishType DEF Bump, ThreadsOK
  <2>3. acked' \in SUBSET (Creds \X Token)
    BY <1>1, <1>6 DEF Bump
  <2> QED BY <1>1, <1>6, <2>2, <2>3 DEF Bump, Release, ThreadsOK
<1> QED BY <1>4, <1>5, <1>6

LEMMA RefreshTypes ==
    ASSUME TypeOK, NEW t \in Threads, RefreshOK(t) \/ RefreshDead(t) \/ RefreshTransient(t)
    PROVE  TypeOK'
<1>1. /\ th[t] \in Thread /\ th[t].c \in Creds /\ th[t].rec \in Record
      /\ th[t].rec.tok \in Token /\ th[t].rec.tok.lin \in Lineages
  BY DEF TypeOK, Thread, Record, Token
<1> USE DEF TypeOK, OAuthTypeOK, oauthVars, storeVars, volatile, history
<1>2. CASE RefreshOK(t)
  <2> DEFINE r == th[t].rec
             k == Tok(r.tok.lin, latest'[r.tok.lin])
  <2>1. latest' \in [Lineages -> 1..MaxSeq] /\ faults' \in Nat
    BY <1>1, <1>2, RefreshAnswerType DEF RefreshOK
  <2>2. k \in Token
    BY <1>1, <2>1, TokType
  <2>3. Replace(r, k) \in Record
    BY <1>1, <2>2, ReplaceType
  <2>4. minted' \in [Lineages -> 0..MaxSeq]
    <3>1. k.lin \in Lineages /\ k.seq \in 0..MaxSeq
      BY ONLY <2>2, TokFields
    <3>2. minted' = [minted EXCEPT ![k.lin] = k.seq]
      BY <1>2 DEF RefreshOK
    <3> QED BY <3>1, <3>2
  <2> HIDE DEF k
  <2>5. [th[t] EXCEPT !.pc = "put", !.nr = Replace(r, k)] \in Thread
    BY <1>1, <2>3 DEF Thread, PCs
  <2>6. ThreadsOK'
    BY <1>2, <2>5, BecomeType DEF RefreshOK, ThreadsOK, k
  <2> QED BY <1>2, <2>1, <2>4, <2>6 DEF RefreshOK, ThreadsOK
<1>3. CASE RefreshDead(t)
  <2>1. latest' \in [Lineages -> 1..MaxSeq] /\ faults' \in Nat
    BY <1>1, <1>3, RefreshAnswerType DEF RefreshDead
  <2>2. [th[t].rec EXCEPT !.health = "dead"] \in Record
    BY <1>1 DEF Record, Health
  <2>3. [th[t] EXCEPT !.pc = "put", !.nr = [th[t].rec EXCEPT !.health = "dead"]] \in Thread
    BY <1>1, <2>2 DEF Thread, PCs
  <2>4. ThreadsOK'
    BY <1>3, <2>3, BecomeType DEF RefreshDead, ThreadsOK
  <2> QED BY <1>3, <2>1, <2>4 DEF RefreshDead, ThreadsOK
<1>4. CASE RefreshTransient(t)
  <2>1. latest' \in [Lineages -> 1..MaxSeq] /\ faults' \in Nat
    BY <1>1, <1>4, RefreshAnswerType DEF RefreshTransient
  <2>2. ThreadsOK'
    BY <1>1, <1>4, FinishType DEF RefreshTransient, ThreadsOK
  <2>3. minted' \in [Lineages -> 0..MaxSeq]
    BY <1>1, <1>4, <2>1 DEF RefreshTransient
  <2> QED BY <1>1, <1>4, <2>1, <2>2, <2>3 DEF RefreshTransient, Release, ThreadsOK
<1> QED BY <1>2, <1>3, <1>4

LEMMA ServeTypes ==
    ASSUME TypeOK, NEW t \in Threads,
           \/ EnsureFreshLocked(t) \/ ProbeCached(t) \/ ProbeCred(t) \/ Respond(t)
           \/ \E c \in Creds, op \in {"get", "probeget"} : Get(t, op, c)
    PROVE  TypeOK'
<1>1. /\ th[t] \in Thread /\ th[t].c \in Creds /\ th[t].rec \in Record /\ th[t].rec.tok \in Token
      /\ th[t].rec.gen \in Nat
  BY DEF TypeOK, Thread, Record
<1> USE DEF TypeOK, OAuthTypeOK, oauthVars, storeVars, volatile, history
<1>2. ASSUME NEW live \in BOOLEAN, Probed(t, live) PROVE ThreadsOK'
  <2>1. [th[t] EXCEPT !.pc = "transition", !.op = "heal", !.to = "ok", !.flag = TRUE] \in Thread
    BY <1>1 DEF Thread, PCs, Activities, Health
  <2>2. [th[t] EXCEPT !.pc = "respond", !.flag = live] \in Thread
    BY <1>1 DEF Thread, PCs
  <2> QED BY <1>2, <2>1, <2>2, BecomeType DEF Probed, ThreadsOK
<1>3. CASE EnsureFreshLocked(t)
  <2>1. ASSUME Present(mem, th[t].c) PROVE Reread(t) \in Record
    BY <1>1, <2>1, PresentType DEF Reread
  <2>2. ASSUME NEW r \in Record PROVE [th[t] EXCEPT !.pc = "refresh", !.rec = r] \in Thread
    BY <1>1 DEF Thread, PCs
  <2>3. ThreadsOK'
    BY <1>3, <2>1, <2>2, BecomeType, FinishType, DoneType DEF EnsureFreshLocked, ThreadsOK
  <2> QED BY <1>1, <1>3, <2>3 DEF EnsureFreshLocked, Acquire, ThreadsOK
<1>4. CASE ProbeCached(t)
  <2>1. probe[th[t].c].live \in BOOLEAN
    BY <1>1, <1>4 DEF ProbeCached, Cached
  <2>2. ThreadsOK'
    BY <1>2, <1>4, <2>1 DEF ProbeCached
  <2> QED BY <1>4, <2>2 DEF ProbeCached, ThreadsOK
<1>5. CASE ProbeCred(t)
  <2>1. PICK a \in {"ok", "auth", "down"} :
          /\ ProfileAnswer(th[t].rec.tok, a)
          /\ probe' = [probe EXCEPT ![th[t].c] = [gen |-> th[t].rec.gen, live |-> a = "ok"]]
          /\ Probed(t, a = "ok")
    BY <1>5 DEF ProbeCred
  <2> DEFINE live == a = "ok"
  <2>2. live \in BOOLEAN
    OBVIOUS
  <2> HIDE DEF live
  <2>3. ThreadsOK'
    BY <1>2, <2>1, <2>2 DEF live
  <2>4. [gen |-> th[t].rec.gen, live |-> live] \in [gen : Nat, live : BOOLEAN]
    BY <1>1, <2>2
  <2>5. probe' \in [Creds -> [gen : Nat, live : BOOLEAN] \cup {NoProbe}]
    BY <1>1, <2>1, <2>4 DEF live
  <2>6. faults' \in Nat
    BY <2>1, ProfileAnswerType
  <2> QED BY <1>5, <2>3, <2>5, <2>6 DEF ProbeCred, ThreadsOK
<1>6. CASE Respond(t)
  <2>1. held' \in SUBSET Token
    BY <1>1, <1>6 DEF Respond
  <2>2. ThreadsOK'
    BY <1>6, DoneType DEF Respond, ThreadsOK
  <2> QED BY <1>6, <2>1, <2>2 DEF Respond, ThreadsOK
<1>7. ASSUME NEW c \in Creds, NEW op \in {"get", "probeget"}, Get(t, op, c) PROVE TypeOK'
  <2> DEFINE pc == IF Due(mem[c]) THEN "lock" ELSE IF op = "get" THEN "respond" ELSE "probe"
             new == [Idle EXCEPT !.op = op, !.c = c, !.rec = mem[c], !.pc = pc]
  <2>1. mem[c] \in Record
    BY <1>7, PresentType DEF Get
  <2>2. pc \in PCs /\ op \in Activities
    BY DEF PCs, Activities, OpNames
  <2>3. new \in Thread
    <3> HIDE DEF pc
    <3> QED BY <2>1, <2>2, IdleType DEF Thread
  <2>4. ThreadsOK'
    BY <1>7, <2>3, BecomeType DEF Get, ThreadsOK
  <2> QED BY <1>7, <2>4 DEF Get, ThreadsOK
<1> QED BY <1>3, <1>4, <1>5, <1>6, <1>7

LEMMA PollTypes ==
    ASSUME TypeOK, NEW t \in Threads,
           \/ DeadProbe(t) \/ PollProfile(t) \/ PollConfirm(t)
           \/ TransitionHealth(t) \/ PollIfAged(t) \/ Reclaim(t)
           \/ \E c \in Creds : RefreshDue(t, c) \/ PollOne(t, c)
    PROVE  TypeOK'
<1>1. th[t] \in Thread /\ th[t].c \in Creds /\ th[t].rec \in Record /\ th[t].to \in Health
  BY DEF TypeOK, Thread
<1>2. ASSUME NEW h \in Health, ToHealth(t, h) PROVE ThreadsOK'
  <2>1. [th[t] EXCEPT !.pc = "transition", !.to = h] \in Thread
    BY <1>1 DEF Thread, PCs
  <2> QED BY <1>2, <2>1, BecomeType DEF ToHealth, ThreadsOK
<1>3. "ok" \in Health /\ "suspect" \in Health /\ "confirm" \in PCs /\ "ifaged" \in PCs
  BY DEF Health, PCs
<1> USE DEF TypeOK, OAuthTypeOK, oauthVars, storeVars, volatile, history
<1>4. CASE DeadProbe(t)
  <2>1. ThreadsOK'
    BY <1>2, <1>3, <1>4, DoneType DEF DeadProbe, ThreadsOK
  <2> QED BY <1>4, <2>1, ProfileAnswerType DEF DeadProbe, ThreadsOK
<1>5. CASE PollProfile(t)
  <2>1. ThreadsOK'
    BY <1>2, <1>3, <1>5, GotoType DEF PollProfile, ThreadsOK
  <2> QED BY <1>5, <2>1, ProfileAnswerType DEF PollProfile, ThreadsOK
<1>6. CASE PollConfirm(t)
  <2>1. ThreadsOK'
    BY <1>2, <1>3, <1>6, GotoType DEF PollConfirm, ThreadsOK
  <2> QED BY <1>6, <2>1, ProfileAnswerType DEF PollConfirm, ThreadsOK
<1>7. CASE TransitionHealth(t)
  <2> DEFINE nr == [mem[th[t].c] EXCEPT !.health = th[t].to]
  <2>1. ASSUME EvidenceCurrent(t) PROVE [th[t] EXCEPT !.pc = "put", !.nr = nr] \in Thread
    <3>1. mem[th[t].c] \in Record
      BY <1>1, <2>1, PresentType DEF EvidenceCurrent
    <3>2. nr \in Record
      BY <1>1, <3>1 DEF Record
    <3> HIDE DEF nr
    <3> QED BY <1>1, <3>2 DEF Thread, PCs
  <2>2. ThreadsOK'
    BY <1>1, <1>7, <2>1, BecomeType, FinishType DEF TransitionHealth, ThreadsOK
  <2> QED BY <1>1, <1>7, <2>2 DEF TransitionHealth, Acquire, ThreadsOK
<1>8. CASE PollIfAged(t)
  <2>1. [Idle EXCEPT !.pc = "reclaim", !.op = "reclaim", !.c = th[t].c] \in Thread
    BY <1>1, IdleType DEF Thread, PCs, Activities
  <2>2. ThreadsOK'
    BY <1>8, <2>1, BecomeType, DoneType DEF PollIfAged, ThreadsOK
  <2> QED BY <1>8, <2>2 DEF PollIfAged, ThreadsOK
<1>9. CASE Reclaim(t)
  <2>1. ASSUME Present(mem, th[t].c) PROVE [th[t] EXCEPT !.pc = "refresh", !.rec = mem[th[t].c]] \in Thread
    BY <1>1, <2>1, PresentType DEF Thread, PCs
  <2>2. ThreadsOK'
    BY <1>9, <2>1, BecomeType, DoneType DEF Reclaim, ThreadsOK
  <2> QED BY <1>1, <1>9, <2>2 DEF Reclaim, Acquire, ThreadsOK
<1>10. ASSUME NEW c \in Creds, RefreshDue(t, c) PROVE TypeOK'
  <2>1. [Idle EXCEPT !.pc = "refresh", !.op = "loop", !.c = c, !.rec = mem[c]] \in Thread
    BY <1>10, PresentType, IdleType DEF RefreshDue, Thread, PCs, Activities, OpNames
  <2>2. ThreadsOK'
    BY <1>10, <2>1, BecomeType DEF RefreshDue, ThreadsOK
  <2> QED BY <1>10, <2>2 DEF RefreshDue, Acquire, ThreadsOK
<1>11. ASSUME NEW c \in Creds, PollOne(t, c) PROVE TypeOK'
  <2> DEFINE new(pc, op, live) == [Idle EXCEPT !.c = c, !.rec = mem[c], !.flag = live, !.pc = pc, !.op = op]
             unexpired == Unexpired(mem[c].tok)
  <2>1. mem[c] \in Record
    BY <1>11, PresentType DEF PollOne
  <2>2. unexpired \in BOOLEAN
    BY DEF Unexpired
  <2>3. ASSUME NEW pc \in {"deadprobe", "profile"}, NEW op \in {"deadpoll", "poll"}, NEW live \in BOOLEAN
        PROVE  new(pc, op, live) \in Thread
    BY <2>1, IdleType DEF Thread, PCs, Activities, OpNames
  <2>4. ThreadsOK'
    <3> DEFINE pc == IF mem[c].health = "dead" THEN "deadprobe" ELSE "profile"
               op == IF mem[c].health = "dead" THEN "deadpoll" ELSE "poll"
    <3>1. pc \in {"deadprobe", "profile"} /\ op \in {"deadpoll", "poll"}
      OBVIOUS
    <3>2. Become(t, new(pc, op, unexpired))
      BY <1>11 DEF PollOne
    <3> HIDE DEF unexpired, new, pc, op
    <3>3. new(pc, op, unexpired) \in Thread
      BY <2>2, <2>3, <3>1
    <3> QED BY <3>2, <3>3, BecomeType DEF ThreadsOK
  <2> QED BY <1>11, <2>4 DEF PollOne, ThreadsOK
<1> QED BY <1>4, <1>5, <1>6, <1>7, <1>8, <1>9, <1>10, <1>11

LEMMA OfferTypes ==
    ASSUME TypeOK, NEW t \in Threads,
           \/ OfferVerify(t) \/ OfferRoute(t) \/ OfferAdopt(t)
           \/ \E k \in held : Offer(t, k)
    PROVE  TypeOK'
<1>1. th[t] \in Thread /\ th[t].c \in Creds /\ th[t].tok \in Token
  BY DEF TypeOK, Thread
<1> USE DEF TypeOK, OAuthTypeOK, oauthVars, storeVars, volatile, history
<1>2. CASE OfferVerify(t)
  <2>1. "route" \in PCs
    BY DEF PCs
  <2>2. ThreadsOK'
    BY <1>2, <2>1, GotoType, DoneType DEF OfferVerify, ThreadsOK
  <2> QED BY <1>2, <2>2, ProfileAnswerType DEF OfferVerify, ThreadsOK
<1>3. CASE OfferRoute(t)
  <2>1. ASSUME NEW c \in Managing(mem, Owner(th[t].tok))
        PROVE  [th[t] EXCEPT !.pc = "adopt", !.c = c, !.rec = mem[c]] \in Thread
    <3>1. c \in Creds /\ mem[c] \in Record
      BY <2>1, PresentType DEF Managing
    <3> QED BY <1>1, <3>1 DEF Thread, PCs
  <2>2. ThreadsOK'
    BY <1>3, <2>1, BecomeType, DoneType DEF OfferRoute, ThreadsOK
  <2> QED BY <1>3, <2>2 DEF OfferRoute, ThreadsOK
<1>4. CASE OfferAdopt(t)
  <2> DEFINE k == th[t].tok
             again == [Idle EXCEPT !.pc = "verify", !.op = "offer", !.tok = k, !.ver = storeVer, !.retry = TRUE]
             new == [th[t] EXCEPT !.pc = "put", !.nr = Replace(mem[th[t].c], k)]
  <2>1. again \in Thread
    BY <1>1, IdleType DEF Thread, PCs, Activities, OpNames
  <2>2. ASSUME Present(mem, th[t].c) PROVE new \in Thread
    <3>1. Replace(mem[th[t].c], k) \in Record
      BY <1>1, <2>2, PresentType, ReplaceType
    <3> QED BY <1>1, <3>1 DEF Thread, PCs
  <2> HIDE DEF again, new
  <2>3. ThreadsOK'
    BY <1>4, <2>1, <2>2, IdleType, BecomeType, DoneType DEF OfferAdopt, ThreadsOK, again, new
  <2>4. acked' \in SUBSET (Creds \X Token) /\ lock' \in [Creds -> Threads \cup {NoThread}]
    BY <1>1, <1>4 DEF OfferAdopt, Acquire
  <2> QED BY <1>4, <2>3, <2>4 DEF OfferAdopt, ThreadsOK
<1>5. ASSUME NEW k \in held, Offer(t, k) PROVE TypeOK'
  <2>1. [Idle EXCEPT !.pc = "verify", !.op = "offer", !.tok = k, !.ver = storeVer] \in Thread
    BY IdleType DEF Thread, PCs, Activities, OpNames
  <2>2. ThreadsOK'
    BY <1>5, <2>1, BecomeType DEF Offer, ThreadsOK
  <2> QED BY <1>5, <2>2 DEF Offer, ThreadsOK
<1> QED BY <1>2, <1>3, <1>4, <1>5

LEMMA AdminTypes ==
    ASSUME TypeOK, NEW t \in Threads,
           \/ AdminPutVerify(t) \/ AdminPutUnique(t) \/ AdminPutInstall(t) \/ AdminRefreshLocked(t)
           \/ \E c \in Creds : AdminRefresh(t, c) \/ Delete(t, c) \/ \E k \in held : AdminPut(t, c, k)
    PROVE  TypeOK'
<1>1. th[t] \in Thread /\ th[t].c \in Creds /\ th[t].tok \in Token
  BY DEF TypeOK, Thread
<1>2. "unique" \in PCs /\ "install" \in PCs
  BY DEF PCs
<1> USE DEF TypeOK, OAuthTypeOK, oauthVars, storeVars, volatile, history
<1>3. CASE AdminPutVerify(t)
  <2>1. ThreadsOK'
    BY <1>2, <1>3, GotoType, DoneType DEF AdminPutVerify, ThreadsOK
  <2> QED BY <1>3, <2>1, ProfileAnswerType DEF AdminPutVerify, ThreadsOK
<1>4. CASE AdminPutUnique(t)
  <2>1. ThreadsOK'
    BY <1>2, <1>4, GotoType, DoneType DEF AdminPutUnique, ThreadsOK
  <2> QED BY <1>4, <2>1 DEF AdminPutUnique, ThreadsOK
<1>5. CASE AdminPutInstall(t)
  <2> DEFINE nr == IF Present(mem, th[t].c) THEN Replace(mem[th[t].c], th[t].tok) ELSE Fresh(th[t].tok)
  <2>1. nr \in Record
    BY <1>1, PresentType, ReplaceType, FreshType
  <2> HIDE DEF nr
  <2>2. [th[t] EXCEPT !.pc = "put", !.nr = nr] \in Thread
    BY <1>1, <2>1 DEF Thread, PCs
  <2>3. ThreadsOK'
    BY <1>5, <2>2, BecomeType DEF AdminPutInstall, ThreadsOK, nr
  <2> QED BY <1>1, <1>5, <2>3 DEF AdminPutInstall, Acquire, ThreadsOK
<1>6. CASE AdminRefreshLocked(t)
  <2>1. ASSUME Present(mem, th[t].c) PROVE [th[t] EXCEPT !.pc = "refresh", !.rec = mem[th[t].c]] \in Thread
    BY <1>1, <2>1, PresentType DEF Thread, PCs
  <2>2. ThreadsOK'
    BY <1>6, <2>1, BecomeType, DoneType DEF AdminRefreshLocked, ThreadsOK
  <2> QED BY <1>1, <1>6, <2>2 DEF AdminRefreshLocked, Acquire, ThreadsOK
<1>7. ASSUME NEW c \in Creds, AdminRefresh(t, c) PROVE TypeOK'
  <2>1. [Idle EXCEPT !.pc = "adminlock", !.op = "adminrefresh", !.c = c] \in Thread
    BY IdleType DEF Thread, PCs, Activities, OpNames
  <2>2. ThreadsOK'
    BY <1>7, <2>1, BecomeType DEF AdminRefresh, ThreadsOK
  <2> QED BY <1>7, <2>2 DEF AdminRefresh, ThreadsOK
<1>8. ASSUME NEW c \in Creds, Delete(t, c) PROVE TypeOK'
  <2>1. mem' \in [Creds -> Record \cup {NoRecord}] /\ disk' \in [Creds -> Record \cup {NoRecord}]
    BY <1>8 DEF Delete, WriteThrough
  <2>2. faults' \in Nat /\ acked' \in SUBSET (Creds \X Token)
    BY <1>8 DEF Delete, Fault
  <2> QED BY <1>8, <2>1, <2>2 DEF Delete
<1>9. ASSUME NEW c \in Creds, NEW k \in held, AdminPut(t, c, k) PROVE TypeOK'
  <2>1. [Idle EXCEPT !.pc = "verifyimport", !.op = "import", !.c = c, !.tok = k] \in Thread
    BY IdleType DEF Thread, PCs, Activities, OpNames
  <2>2. ThreadsOK'
    BY <1>9, <2>1, BecomeType DEF AdminPut, ThreadsOK
  <2> QED BY <1>9, <2>2 DEF AdminPut, ThreadsOK
<1> QED BY <1>3, <1>4, <1>5, <1>6, <1>7, <1>8, <1>9

LEMMA EnvironmentTypes ==
    ASSUME TypeOK, Environment
    PROVE  TypeOK'
<1> USE DEF TypeOK, OAuthTypeOK, oauthVars, storeVars, volatile, history
<1>1. ASSUME NEW c \in Creds, ProbeExpires(c) PROVE TypeOK'
  BY <1>1 DEF ProbeExpires
<1>2. ASSUME NEW c \in Creds, BackoffEnds(c) PROVE TypeOK'
  BY <1>2 DEF BackoffEnds
<1>3. ASSUME NEW c \in Creds, GrowsOld(c) PROVE TypeOK'
  BY <1>3 DEF GrowsOld
<1>4. CASE Crash
  <2>1. ThreadsOK' /\ faults' \in Nat
    BY <1>4, IdleType DEF Crash, Fault, ThreadsOK
  <2> QED BY <1>4, <2>1 DEF Crash, ThreadsOK
<1>5. CASE Restart
  BY <1>5 DEF Restart
<1>6. CASE Tick
  BY <1>6, BrokerAssumption DEF Tick
<1>7. CASE Upstream
  <2>1. ASSUME NEW l \in Lineages, ExternalRefresh(l) PROVE OAuthTypeOK'
    <3>1. latest' \in [Lineages -> 1..MaxSeq] /\ latest[l] + 1 \in 1..MaxSeq
      BY <2>1, TokensAssumption DEF ExternalRefresh, Mint
    <3>2. held' \in SUBSET Token
      BY <2>1, <3>1, TokType DEF ExternalRefresh
    <3> QED BY <2>1, <3>1, <3>2 DEF ExternalRefresh
  <2>2. ASSUME NEW l \in Lineages, NEW i \in 1..MaxSeq, Age(l, i) PROVE OAuthTypeOK'
    <3>1. age[l][i] + 1 \in 0..2
      <4>1. age[l][i] \in 0..2
        <5>1. age[l] \in [1..MaxSeq -> 0..2]
          OBVIOUS
        <5> QED BY <5>1
      <4>2. age[l][i] < MaxAge
        BY <2>2 DEF Age
      <4>3. MaxAge \in 0..2
        BY OAuthAssumption
      <4> QED BY <4>1, <4>2, <4>3
    <3>2. age' \in [Lineages -> [1..MaxSeq -> 0..2]]
      <4> DEFINE older == [age[l] EXCEPT ![i] = @ + 1]
      <4>1. older \in [1..MaxSeq -> 0..2]
        BY <3>1
      <4>2. age' = [age EXCEPT ![l] = older]
        BY <2>2 DEF Age
      <4> HIDE DEF older
      <4> QED BY <4>1, <4>2
    <3> QED BY <2>2, <3>2 DEF Age
  <2> QED BY <1>7, <2>1, <2>2 DEF Upstream, OAuthNext
<1> QED BY <1>1, <1>2, <1>3, <1>4, <1>5, <1>6, <1>7 DEF Environment

LEMMA TypesStart == Init => TypeOK
<1> SUFFICES ASSUME Init PROVE TypeOK
  OBVIOUS
<1>1. OAuthTypeOK
  <2>1. held \in SUBSET Token
    BY TokType, TokensAssumption DEF Init, OAuthInit
  <2> QED BY <2>1, TokensAssumption DEF Init, OAuthInit, OAuthTypeOK
<1>2. mem \in [Creds -> Record \cup {NoRecord}]
  <2>1. ASSUME NEW l \in Lineages PROVE Fresh(Tok(l, 1)) \in Record
    <3>1. Tok(l, 1) \in Token
      BY TokType, TokensAssumption
    <3> QED BY <3>1, FreshType
  <2> QED BY <2>1 DEF Init
<1>3. minted \in [Lineages -> 0..MaxSeq]
  BY TokensAssumption DEF Init
<1>4. up \in BOOLEAN
  BY DEF Init
<1>5. th \in [Threads -> Thread]
  BY IdleType DEF Init
<1> QED BY <1>1, <1>2, <1>3, <1>4, <1>5 DEF Init, TypeOK

\* Every variable keeps its type, whatever the threads, faults and clock do:
\* records stay records, rings stay within RingSize, generations are numbers.
THEOREM TypeCorrect == Spec => []TypeOK
<1>1. TypeOK /\ [Next]_vars => TypeOK'
  <2> SUFFICES ASSUME TypeOK, [Next]_vars PROVE TypeOK'
    OBVIOUS
  <2>1. ASSUME NEW t \in Threads, Continue(t) PROVE TypeOK'
    BY <2>1, CommitTypes, RefreshTypes, ServeTypes, PollTypes, OfferTypes, AdminTypes DEF Continue
  <2>2. ASSUME NEW t \in Threads, Begin(t) PROVE TypeOK'
    BY <2>2, ServeTypes, PollTypes, OfferTypes, AdminTypes DEF Begin
  <2>3. CASE Environment
    BY <2>3, EnvironmentTypes
  <2>4. CASE UNCHANGED vars
    BY <2>4 DEF vars, TypeOK, OAuthTypeOK, oauthVars, volatile, history
  <2> QED BY <2>1, <2>2, <2>3, <2>4 DEF Next
<1> QED BY <1>1, TypesStart, PTL DEF Spec

-----------------------------------------------------------------------------
(* Health: DeadMeansNotRefreshable.                                        *)

(* Where thread t gets its token, its snapshot and its pending record from. *)

TokSource(t) == th'[t].tok \in {th[t].tok, AnyTok} \cup held

RecSource(t) ==
    \/ th'[t].rec.tok \in {th[t].rec.tok, th[t].nr.tok, AnyTok}
    \/ \E c \in Creds : Present(mem, c) /\ th'[t].rec.tok = mem[c].tok

NrSource(t) ==
    LET nr == th'[t].nr IN
    \/ nr.tok = th[t].nr.tok /\ nr.health = th[t].nr.health
    \/ nr.health = "ok" /\ nr.tok \in {AnyTok, th[t].tok}
    \/ nr.health = "ok" /\ \E l \in Lineages : nr.tok = Tok(l, latest'[l])
    \/ /\ nr.health = "dead" /\ nr.tok = th[t].rec.tok
       /\ ~CanRefresh(nr.tok) \/ "flukegrant" \in FaultKinds
    \/ /\ th[t].pc = "transition" /\ EvidenceCurrent(t)
       /\ nr.health = th[t].to /\ nr.tok = mem[th[t].c].tok

\* A 401 proves that the token does not live, or was a fluke.
Refused(t) == ~Live(th[t].rec.tok) \/ (faults < MaxFaults /\ faults' = faults + 1 /\ "fluke" \in FaultKinds)

EvidenceSource(t) ==
    /\ th'[t].to \in {th[t].to, "ok", "suspect"}
    /\ th'[t].pc = "confirm" =>
         th'[t].rec = th[t].rec /\ (th[t].pc = "confirm" \/ Refused(t))
    /\ th'[t].pc = "transition" /\ th'[t].to = "suspect" =>
         /\ th'[t].rec = th[t].rec
         /\ (th[t].pc = "transition" /\ th[t].to = "suspect") \/ (th[t].pc = "confirm" /\ Refused(t))

ThreadStep(t) == TokSource(t) /\ RecSource(t) /\ NrSource(t) /\ EvidenceSource(t)

LEMMA IdleSources ==
    ASSUME NEW t \in Threads, th'[t] = Idle
    PROVE  ThreadStep(t)
<1>1. /\ Idle.tok = AnyTok /\ Idle.rec.tok = AnyTok /\ Idle.nr.tok = AnyTok
      /\ Idle.nr.health = "ok" /\ Idle.to = "ok" /\ Idle.pc = "idle"
  BY DEF Idle, Blank, Fresh
<1> QED BY <1>1 DEF ThreadStep, TokSource, RecSource, NrSource, EvidenceSource

LEMMA SameSources ==
    ASSUME NEW t \in Threads, th'[t] = th[t]
    PROVE  ThreadStep(t)
  BY DEF ThreadStep, TokSource, RecSource, NrSource, EvidenceSource

LEMMA FinishSources ==
    ASSUME TypeOK, NEW t \in Threads, NEW r \in Record, Finish(t, r),
           r.tok \in {th[t].rec.tok, th[t].nr.tok} \/ \E c \in Creds : Present(mem, c) /\ r.tok = mem[c].tok
    PROVE  ThreadStep(t)
<1> DEFINE next(pc, x) == [Idle EXCEPT !.pc = pc, !.op = th[t].op, !.c = th[t].c, !.rec = x,
                                       !.flag = th[t].flag]
           healed == [r EXCEPT !.health = "ok"]
<1>1. \/ th'[t] = Idle
      \/ th'[t] = next("respond", r) \/ th'[t] = next("probe", r)
      \/ th'[t] = next("respond", healed) \/ th'[t] = next("ifaged", Blank)
  BY DEF Finish, Become, TypeOK
<1>2. /\ Idle.tok = AnyTok /\ Idle.nr.tok = AnyTok /\ Idle.nr.health = "ok" /\ Idle.to = "ok"
      /\ Blank.tok = AnyTok /\ healed.tok = r.tok
  BY DEF Idle, Blank, Fresh, Record
<1>3. ASSUME NEW pc \in {"respond", "probe", "ifaged"}, NEW x \in {r, healed, Blank}, th'[t] = next(pc, x)
      PROVE  ThreadStep(t)
  <2> DEFINE n == next(pc, x)
  <2>1. /\ n.tok = AnyTok /\ n.nr.tok = AnyTok /\ n.nr.health = "ok" /\ n.to = "ok"
        /\ n.pc = pc /\ n.rec.tok \in {r.tok, AnyTok}
    BY <1>2 DEF Idle
  <2> HIDE DEF n, next
  <2>2. th'[t] = n
    BY <1>3 DEF n
  <2> QED BY <2>1, <2>2 DEF ThreadStep, TokSource, RecSource, NrSource, EvidenceSource
<1> HIDE DEF next, healed
<1> QED BY <1>1, <1>3, IdleSources

\* The thread that moves.
LEMMA CommitSources ==
    ASSUME TypeOK, NEW t \in Threads, PutSaved(t) \/ PutUnsaved(t) \/ Bump(t)
    PROVE  ThreadStep(t)
<1>1. th[t] \in Thread /\ th[t].rec \in Record /\ th[t].nr \in Record
  BY DEF TypeOK, Thread
<1>2. CASE PutSaved(t)
  <2>1. th'[t] = [th[t] EXCEPT !.pc = "bump", !.nr = Stored(t)]
    BY <1>2 DEF PutSaved, Become, TypeOK
  <2>2. Stored(t).tok = th[t].nr.tok /\ Stored(t).health = th[t].nr.health
    BY <1>1 DEF Stored, Record
  <2> QED BY <1>1, <2>1, <2>2 DEF Thread, ThreadStep, TokSource, RecSource, NrSource, EvidenceSource
<1>3. CASE PutUnsaved(t)
  BY <1>1, <1>3, FinishSources DEF PutUnsaved
<1>4. CASE Bump(t)
  BY <1>1, <1>4, FinishSources DEF Bump
<1> QED BY <1>2, <1>3, <1>4

LEMMA RefreshSources ==
    ASSUME TypeOK, NEW t \in Threads, RefreshOK(t) \/ RefreshDead(t) \/ RefreshTransient(t)
    PROVE  ThreadStep(t)
<1>1. /\ th[t] \in Thread /\ th[t].rec \in Record /\ th[t].rec.tok.lin \in Lineages
      /\ th[t].rec.tok \in Token
  BY DEF TypeOK, Thread, Record, Token
<1>2. CASE RefreshOK(t)
  <2> DEFINE l == th[t].rec.tok.lin
             nr == Replace(th[t].rec, Tok(l, latest'[l]))
  <2>1. th'[t] = [th[t] EXCEPT !.pc = "put", !.nr = nr]
    BY <1>2 DEF RefreshOK, Become, TypeOK
  <2>2. nr.health = "ok" /\ nr.tok = Tok(l, latest'[l])
    BY <1>1 DEF Replace, Record
  <2> HIDE DEF nr
  <2> QED BY <1>1, <2>1, <2>2 DEF Thread, ThreadStep, TokSource, RecSource, NrSource, EvidenceSource
<1>3. CASE RefreshDead(t)
  <2> DEFINE nr == [th[t].rec EXCEPT !.health = "dead"]
  <2>1. th'[t] = [th[t] EXCEPT !.pc = "put", !.nr = nr]
    BY <1>3 DEF RefreshDead, Become, TypeOK
  <2>2. nr.health = "dead" /\ nr.tok = th[t].rec.tok
    BY <1>1 DEF Record
  <2>3. ~CanRefresh(th[t].rec.tok) \/ "flukegrant" \in FaultKinds
    BY <1>3 DEF RefreshDead, RefreshAnswer, Permanent, Fault
  <2> HIDE DEF nr
  <2> QED BY <1>1, <2>1, <2>2, <2>3 DEF Thread, ThreadStep, TokSource, RecSource, NrSource, EvidenceSource
<1>4. CASE RefreshTransient(t)
  BY <1>1, <1>4, FinishSources DEF RefreshTransient
<1> QED BY <1>2, <1>3, <1>4

LEMMA ServeSources ==
    ASSUME TypeOK, NEW t \in Threads,
           \/ EnsureFreshLocked(t) \/ ProbeCached(t) \/ ProbeCred(t) \/ Respond(t)
           \/ \E c \in Creds, op \in {"get", "probeget"} : Get(t, op, c)
    PROVE  ThreadStep(t)
<1>1. th[t] \in Thread /\ th[t].c \in Creds /\ th[t].rec \in Record
  BY DEF TypeOK, Thread
<1> USE DEF ThreadStep, TokSource, RecSource, NrSource, EvidenceSource
<1>2. ASSUME NEW live, Probed(t, live) PROVE ThreadStep(t)
  <2>1. \/ th'[t] = [th[t] EXCEPT !.pc = "transition", !.op = "heal", !.to = "ok", !.flag = TRUE]
        \/ th'[t] = [th[t] EXCEPT !.pc = "respond", !.flag = live]
    BY <1>2 DEF Probed, Become, TypeOK
  <2> QED BY <1>1, <2>1 DEF Thread
<1>3. CASE EnsureFreshLocked(t)
  <2>1. CASE Finish(t, Reread(t)) /\ Present(mem, th[t].c)
    BY <1>1, <2>1, FinishSources, PresentType DEF Reread, TypeOK
  <2>2. CASE Done(t)
    BY <2>2, IdleSources DEF Done, Become, TypeOK
  <2>3. CASE Become(t, [th[t] EXCEPT !.pc = "refresh", !.rec = Reread(t)]) /\ Present(mem, th[t].c)
    <3>1. th'[t] = [th[t] EXCEPT !.pc = "refresh", !.rec = Reread(t)]
      BY <2>3 DEF Become, TypeOK
    <3> QED BY <1>1, <2>3, <3>1 DEF Thread, Reread
  <2> QED BY <1>3, <2>1, <2>2, <2>3 DEF EnsureFreshLocked
<1>4. CASE ProbeCached(t)
  BY <1>2, <1>4 DEF ProbeCached
<1>5. CASE ProbeCred(t)
  BY <1>2, <1>5 DEF ProbeCred
<1>6. CASE Respond(t)
  BY <1>6, IdleSources DEF Respond, Done, Become, TypeOK
<1>7. ASSUME NEW c \in Creds, NEW op \in {"get", "probeget"}, Get(t, op, c) PROVE ThreadStep(t)
  <2> DEFINE pc == IF Due(mem[c]) THEN "lock" ELSE IF op = "get" THEN "respond" ELSE "probe"
             new == [Idle EXCEPT !.op = op, !.c = c, !.rec = mem[c], !.pc = pc]
  <2>1. th'[t] = new
    BY <1>7 DEF Get, Become, TypeOK
  <2>2. /\ new.tok = AnyTok /\ new.rec = mem[c] /\ new.nr.tok = AnyTok /\ new.nr.health = "ok"
        /\ new.to = "ok" /\ new.pc = pc
    BY DEF Idle, Blank, Fresh
  <2>3. pc \notin {"confirm", "transition"} /\ Present(mem, c)
    BY <1>7 DEF Get
  <2> HIDE DEF new, pc
  <2> QED BY <2>1, <2>2, <2>3
<1> QED BY <1>3, <1>4, <1>5, <1>6, <1>7

LEMMA PollSources ==
    ASSUME TypeOK, NEW t \in Threads,
           \/ DeadProbe(t) \/ PollProfile(t) \/ PollConfirm(t)
           \/ TransitionHealth(t) \/ PollIfAged(t) \/ Reclaim(t)
           \/ \E c \in Creds : RefreshDue(t, c) \/ PollOne(t, c)
    PROVE  ThreadStep(t)
<1>1. th[t] \in Thread /\ th[t].c \in Creds /\ th[t].rec \in Record
  BY DEF TypeOK, Thread
<1>2. CASE Done(t)
  BY <1>2, IdleSources DEF Done, Become, TypeOK
<1>3. ProfileAnswer(th[t].rec.tok, "auth") => Refused(t)
  BY DEF ProfileAnswer, Refused, Fault
<1> USE DEF ThreadStep, TokSource, RecSource, NrSource, EvidenceSource
<1>4. ASSUME NEW pc \in {"confirm", "ifaged"}, Goto(t, pc), pc = "confirm" => Refused(t) PROVE ThreadStep(t)
  <2>1. th'[t] = [th[t] EXCEPT !.pc = pc]
    BY <1>4 DEF Goto, Become, TypeOK
  <2> QED BY <1>1, <1>4, <2>1 DEF Thread
<1>5. ASSUME NEW h \in {"ok", "suspect"}, ToHealth(t, h), h = "suspect" => th[t].pc = "confirm" /\ Refused(t)
      PROVE  ThreadStep(t)
  <2>1. th'[t] = [th[t] EXCEPT !.pc = "transition", !.to = h]
    BY <1>5 DEF ToHealth, Become, TypeOK
  <2> QED BY <1>1, <1>5, <2>1 DEF Thread
<1>6. CASE DeadProbe(t)
  BY <1>2, <1>5, <1>6 DEF DeadProbe
<1>7. CASE PollProfile(t)
  BY <1>3, <1>4, <1>5, <1>7 DEF PollProfile
<1>8. CASE PollConfirm(t)
  BY <1>3, <1>4, <1>5, <1>8 DEF PollConfirm, At
<1>9. CASE TransitionHealth(t)
  <2> DEFINE nr == [mem[th[t].c] EXCEPT !.health = th[t].to]
  <2>1. CASE Finish(t, th[t].rec)
    BY <1>1, <2>1, FinishSources
  <2>2. CASE EvidenceCurrent(t) /\ Become(t, [th[t] EXCEPT !.pc = "put", !.nr = nr])
    <3>1. th'[t] = [th[t] EXCEPT !.pc = "put", !.nr = nr]
      BY <2>2 DEF Become, TypeOK
    <3>2. mem[th[t].c] \in Record
      BY <1>1, <2>2, PresentType DEF EvidenceCurrent, TypeOK
    <3>3. nr.health = th[t].to /\ nr.tok = mem[th[t].c].tok
      BY <3>2 DEF Record
    <3> HIDE DEF nr
    <3> QED BY <1>1, <1>9, <2>2, <3>1, <3>3 DEF Thread, TransitionHealth, At
  <2> QED BY <1>9, <2>1, <2>2 DEF TransitionHealth
<1>10. ASSUME NEW new \in Thread, Become(t, new),
              /\ new.tok = AnyTok /\ new.nr = Blank /\ new.to = "ok"
              /\ new.pc \notin {"confirm", "transition"}
              /\ new.rec = Blank \/ \E c \in Creds : Present(mem, c) /\ new.rec = mem[c]
       PROVE  ThreadStep(t)
  <2>1. th'[t] = new /\ Blank.tok = AnyTok /\ Blank.health = "ok"
    BY <1>10 DEF Become, TypeOK, Blank, Fresh
  <2> QED BY <1>10, <2>1
<1>11. CASE PollIfAged(t)
  <2> DEFINE new == [Idle EXCEPT !.pc = "reclaim", !.op = "reclaim", !.c = th[t].c]
  <2>1. new \in Thread /\ new.tok = AnyTok /\ new.nr = Blank /\ new.to = "ok" /\ new.rec = Blank /\ new.pc = "reclaim"
    BY <1>1, IdleType DEF Thread, PCs, Activities, Idle
  <2> HIDE DEF new
  <2>2. Become(t, new) => ThreadStep(t)
    BY <1>10, <2>1
  <2> QED BY <1>2, <1>11, <2>2 DEF PollIfAged, new
<1>12. CASE Reclaim(t)
  <2>1. CASE Present(mem, th[t].c) /\ Become(t, [th[t] EXCEPT !.pc = "refresh", !.rec = mem[th[t].c]])
    <3>1. th'[t] = [th[t] EXCEPT !.pc = "refresh", !.rec = mem[th[t].c]]
      BY <2>1 DEF Become, TypeOK
    <3> QED BY <1>1, <2>1, <3>1 DEF Thread
  <2> QED BY <1>2, <1>12, <2>1 DEF Reclaim
<1>13. ASSUME NEW c \in Creds, RefreshDue(t, c) PROVE ThreadStep(t)
  <2> DEFINE new == [Idle EXCEPT !.pc = "refresh", !.op = "loop", !.c = c, !.rec = mem[c]]
  <2>1. mem[c] \in Record /\ Present(mem, c)
    BY <1>13, PresentType DEF RefreshDue, TypeOK
  <2>2. new \in Thread /\ new.tok = AnyTok /\ new.nr = Blank /\ new.to = "ok" /\ new.rec = mem[c] /\ new.pc = "refresh"
    BY <2>1, IdleType DEF Thread, PCs, Activities, OpNames, Idle
  <2>3. Become(t, new)
    BY <1>13 DEF RefreshDue
  <2> HIDE DEF new
  <2> QED BY <1>10, <2>1, <2>2, <2>3
<1>14. ASSUME NEW c \in Creds, PollOne(t, c) PROVE ThreadStep(t)
  <2> DEFINE dead == mem[c].health = "dead"
             new == [Idle EXCEPT !.c = c, !.rec = mem[c], !.flag = Unexpired(mem[c].tok),
                       !.pc = IF dead THEN "deadprobe" ELSE "profile",
                       !.op = IF dead THEN "deadpoll" ELSE "poll"]
  <2>1. th'[t] = new /\ Present(mem, c)
    BY <1>14 DEF PollOne, Become, TypeOK
  <2>2. /\ new.tok = AnyTok /\ new.nr = Blank /\ new.to = "ok" /\ new.rec = mem[c]
        /\ new.pc \in {"deadprobe", "profile"}
    BY DEF Idle
  <2>3. Blank.tok = AnyTok /\ Blank.health = "ok"
    BY DEF Blank, Fresh
  <2> HIDE DEF new
  <2> QED BY <2>1, <2>2, <2>3
<1> QED BY <1>6, <1>7, <1>8, <1>9, <1>11, <1>12, <1>13, <1>14

LEMMA OfferSources ==
    ASSUME TypeOK, NEW t \in Threads,
           \/ OfferVerify(t) \/ OfferRoute(t) \/ OfferAdopt(t)
           \/ \E k \in held : Offer(t, k)
    PROVE  ThreadStep(t)
<1>1. th[t] \in Thread /\ th[t].c \in Creds /\ th[t].rec \in Record
  BY DEF TypeOK, Thread
<1>2. CASE Done(t)
  BY <1>2, IdleSources DEF Done, Become, TypeOK
<1>3. Idle.nr = Blank /\ Idle.rec = Blank /\ Blank.tok = AnyTok /\ Blank.health = "ok" /\ Idle.to = "ok"
  BY DEF Idle, Blank, Fresh
<1> USE DEF ThreadStep, TokSource, RecSource, NrSource, EvidenceSource
<1>4. CASE OfferVerify(t)
  <2>1. CASE Goto(t, "route")
    <3>1. th'[t] = [th[t] EXCEPT !.pc = "route"]
      BY <2>1 DEF Goto, Become, TypeOK
    <3> QED BY <1>1, <3>1 DEF Thread
  <2> QED BY <1>2, <1>4, <2>1 DEF OfferVerify
<1>5. CASE OfferRoute(t)
  <2>1. ASSUME NEW c \in Managing(mem, Owner(th[t].tok)),
               Become(t, [th[t] EXCEPT !.pc = "adopt", !.c = c, !.rec = mem[c]])
        PROVE  ThreadStep(t)
    <3>1. c \in Creds /\ Present(mem, c)
      BY DEF Managing, TypeOK
    <3>2. th'[t] = [th[t] EXCEPT !.pc = "adopt", !.c = c, !.rec = mem[c]]
      BY <2>1 DEF Become, TypeOK
    <3> QED BY <1>1, <3>1, <3>2 DEF Thread
  <2> QED BY <1>2, <1>5, <2>1 DEF OfferRoute
<1>6. CASE OfferAdopt(t)
  <2> DEFINE k == th[t].tok
             again == [Idle EXCEPT !.pc = "verify", !.op = "offer", !.tok = k, !.ver = storeVer, !.retry = TRUE]
             nr == Replace(mem[th[t].c], k)
  <2>1. CASE Become(t, again)
    <3>1. th'[t] = again
      BY <2>1 DEF Become, TypeOK
    <3>2. again.pc = "verify" /\ again.tok = k /\ again.rec = Blank /\ again.nr = Blank /\ again.to = "ok"
      BY DEF Idle
    <3> HIDE DEF again
    <3> QED BY <1>3, <3>1, <3>2
  <2>2. CASE Present(mem, th[t].c) /\ Become(t, [th[t] EXCEPT !.pc = "put", !.nr = nr])
    <3>1. th'[t] = [th[t] EXCEPT !.pc = "put", !.nr = nr]
      BY <2>2 DEF Become, TypeOK
    <3>2. nr.health = "ok" /\ nr.tok = k
      BY <1>1, <2>2, PresentType DEF Replace, Record, TypeOK
    <3> HIDE DEF nr
    <3> QED BY <1>1, <3>1, <3>2 DEF Thread
  <2> HIDE DEF again, nr
  <2> QED BY <1>2, <1>6, <2>1, <2>2 DEF OfferAdopt, Done, again, nr
<1>7. ASSUME NEW k \in held, Offer(t, k) PROVE ThreadStep(t)
  <2> DEFINE new == [Idle EXCEPT !.pc = "verify", !.op = "offer", !.tok = k, !.ver = storeVer]
  <2>1. th'[t] = new
    BY <1>7 DEF Offer, Become, TypeOK
  <2>2. new.pc = "verify" /\ new.tok = k /\ new.rec = Blank /\ new.nr = Blank /\ new.to = "ok"
    BY DEF Idle
  <2> HIDE DEF new
  <2> QED BY <1>3, <2>1, <2>2
<1> QED BY <1>4, <1>5, <1>6, <1>7

LEMMA AdminSources ==
    ASSUME TypeOK, NEW t \in Threads,
           \/ AdminPutVerify(t) \/ AdminPutUnique(t) \/ AdminPutInstall(t) \/ AdminRefreshLocked(t)
           \/ \E c \in Creds : AdminRefresh(t, c) \/ Delete(t, c) \/ \E k \in held : AdminPut(t, c, k)
    PROVE  ThreadStep(t)
<1>1. th[t] \in Thread /\ th[t].c \in Creds /\ th[t].rec \in Record
  BY DEF TypeOK, Thread
<1>2. CASE Done(t)
  BY <1>2, IdleSources DEF Done, Become, TypeOK
<1>3. Idle.nr = Blank /\ Idle.rec = Blank /\ Blank.tok = AnyTok /\ Blank.health = "ok"
      /\ Idle.to = "ok" /\ Idle.tok = AnyTok
  BY DEF Idle, Blank, Fresh
<1> USE DEF ThreadStep, TokSource, RecSource, NrSource, EvidenceSource
<1>4. ASSUME NEW pc \in {"unique", "install"}, Goto(t, pc) PROVE ThreadStep(t)
  <2>1. th'[t] = [th[t] EXCEPT !.pc = pc]
    BY <1>4 DEF Goto, Become, TypeOK
  <2> QED BY <1>1, <2>1 DEF Thread
<1>5. CASE AdminPutVerify(t)
  BY <1>2, <1>4, <1>5 DEF AdminPutVerify
<1>6. CASE AdminPutUnique(t)
  BY <1>2, <1>4, <1>6 DEF AdminPutUnique
<1>7. CASE AdminPutInstall(t)
  <2> DEFINE nr == IF Present(mem, th[t].c) THEN Replace(mem[th[t].c], th[t].tok) ELSE Fresh(th[t].tok)
  <2>1. th'[t] = [th[t] EXCEPT !.pc = "put", !.nr = nr]
    BY <1>7 DEF AdminPutInstall, Become, TypeOK
  <2>2. nr.health = "ok" /\ nr.tok = th[t].tok
    BY <1>1, PresentType DEF Replace, Fresh, Record, TypeOK
  <2> HIDE DEF nr
  <2> QED BY <1>1, <2>1, <2>2 DEF Thread
<1>8. CASE AdminRefreshLocked(t)
  <2>1. CASE Present(mem, th[t].c) /\ Become(t, [th[t] EXCEPT !.pc = "refresh", !.rec = mem[th[t].c]])
    <3>1. th'[t] = [th[t] EXCEPT !.pc = "refresh", !.rec = mem[th[t].c]]
      BY <2>1 DEF Become, TypeOK
    <3> QED BY <1>1, <2>1, <3>1 DEF Thread
  <2> QED BY <1>2, <1>8, <2>1 DEF AdminRefreshLocked
<1>9. ASSUME NEW c \in Creds, AdminRefresh(t, c) PROVE ThreadStep(t)
  <2> DEFINE new == [Idle EXCEPT !.pc = "adminlock", !.op = "adminrefresh", !.c = c]
  <2>1. th'[t] = new
    BY <1>9 DEF AdminRefresh, Become, TypeOK
  <2>2. new.pc = "adminlock" /\ new.tok = AnyTok /\ new.rec = Blank /\ new.nr = Blank /\ new.to = "ok"
    BY <1>3 DEF Idle
  <2> HIDE DEF new
  <2> QED BY <1>3, <2>1, <2>2
<1>10. ASSUME NEW c \in Creds, Delete(t, c) PROVE ThreadStep(t)
  BY <1>10, SameSources DEF Delete
<1>11. ASSUME NEW c \in Creds, NEW k \in held, AdminPut(t, c, k) PROVE ThreadStep(t)
  <2> DEFINE new == [Idle EXCEPT !.pc = "verifyimport", !.op = "import", !.c = c, !.tok = k]
  <2>1. th'[t] = new
    BY <1>11 DEF AdminPut, Become, TypeOK
  <2>2. new.pc = "verifyimport" /\ new.tok = k /\ new.rec = Blank /\ new.nr = Blank /\ new.to = "ok"
    BY DEF Idle
  <2> HIDE DEF new
  <2> QED BY <1>3, <2>1, <2>2
<1> QED BY <1>5, <1>6, <1>7, <1>8, <1>9, <1>10, <1>11

-----------------------------------------------------------------------------
(* What a step does to the upstream server, the clients and the store.      *)

UpstreamStep ==
    /\ \A l \in Lineages : latest'[l] >= latest[l] /\ \A i \in 1..MaxSeq : age'[l][i] >= age[l][i]
    /\ faults' >= faults
    /\ \A k \in held' : \/ k \in held
                        \/ \E t \in Threads : k = th[t].rec.tok
                        \/ \E l \in Lineages : k = Tok(l, latest'[l])

StoreStep ==
    \A c \in Creds :
        /\ \/ mem'[c] \in {mem[c], NoRecord, disk[c]}
           \/ \E t \in Threads : th[t].pc = "put" /\ th[t].c = c /\ mem'[c] = Stored(t)
        /\ disk'[c] \in {disk[c], mem'[c]}

OtherThreads(t) == \A u \in Threads : u = t \/ th'[u] = th[u]

LEMMA NumberTypes ==
    ASSUME TypeOK
    PROVE  /\ \A l \in Lineages : latest[l] \in Int /\ \A i \in 1..MaxSeq : age[l][i] \in Int
           /\ faults \in Int
<1>1. ASSUME NEW l \in Lineages, NEW i \in 1..MaxSeq PROVE age[l][i] \in Int
  <2>1. age[l] \in [1..MaxSeq -> 0..2]
    BY DEF TypeOK, OAuthTypeOK
  <2>2. age[l][i] \in 0..2
    BY <2>1
  <2> QED BY <2>2
<1>2. \A l \in Lineages : latest[l] \in Int
  BY DEF TypeOK, OAuthTypeOK
<1> QED BY <1>1, <1>2 DEF TypeOK, OAuthTypeOK

LEMMA SameUpstream ==
    ASSUME TypeOK, UNCHANGED <<latest, age>>, faults' = faults \/ faults' = faults + 1, held' = held
    PROVE  UpstreamStep
  BY NumberTypes DEF UpstreamStep

LEMMA SameStore ==
    ASSUME UNCHANGED <<mem, disk>>
    PROVE  StoreStep
  BY DEF StoreStep

LEMMA CommitWorld ==
    ASSUME TypeOK, NEW t \in Threads, PutSaved(t) \/ PutUnsaved(t) \/ Bump(t)
    PROVE  UpstreamStep /\ StoreStep /\ OtherThreads(t)
<1>1. OtherThreads(t)
  BY DEF PutSaved, PutUnsaved, Bump, Finish, Become, TypeOK, OtherThreads
<1>2. UpstreamStep
  BY SameUpstream DEF PutSaved, PutUnsaved, Bump, Fault, oauthVars
<1>3. StoreStep
  BY SameStore DEF PutSaved, PutUnsaved, Bump, At, WriteThrough, StoreStep, TypeOK, storeVars
<1> QED BY <1>1, <1>2, <1>3

LEMMA RefreshWorld ==
    ASSUME TypeOK, NEW t \in Threads, RefreshOK(t) \/ RefreshDead(t) \/ RefreshTransient(t)
    PROVE  UpstreamStep /\ StoreStep /\ OtherThreads(t)
<1>1. OtherThreads(t)
  BY DEF RefreshOK, RefreshDead, RefreshTransient, Finish, Become, TypeOK, OtherThreads
<1>2. UpstreamStep
  <2>1. PICK a : RefreshAnswer(th[t].rec.tok, a)
    BY DEF RefreshOK, RefreshDead, RefreshTransient
  <2>2. UNCHANGED <<age, held>>
    BY DEF RefreshOK, RefreshDead, RefreshTransient
  <2>3. th[t].rec.tok.lin \in Lineages
    BY DEF TypeOK, Thread, Record, Token
  <2>4. \A l \in Lineages : latest'[l] >= latest[l]
    <3>1. latest' = latest \/ Mint(th[t].rec.tok.lin)
      BY <2>1 DEF RefreshAnswer
    <3> QED BY <2>3, <3>1 DEF Mint, TypeOK, OAuthTypeOK
  <2>5. faults' >= faults
    BY <2>1 DEF RefreshAnswer, Fault, TypeOK, OAuthTypeOK
  <2>6. \A l \in Lineages : \A i \in 1..MaxSeq : age'[l][i] >= age[l][i]
    BY <2>2, NumberTypes
  <2> QED BY <2>2, <2>4, <2>5, <2>6 DEF UpstreamStep
<1>3. StoreStep
  BY SameStore DEF RefreshOK, RefreshDead, RefreshTransient, storeVars
<1> QED BY <1>1, <1>2, <1>3

LEMMA ServeWorld ==
    ASSUME TypeOK, NEW t \in Threads,
           \/ EnsureFreshLocked(t) \/ ProbeCached(t) \/ ProbeCred(t) \/ Respond(t)
           \/ \E c \in Creds, op \in {"get", "probeget"} : Get(t, op, c)
    PROVE  UpstreamStep /\ StoreStep /\ OtherThreads(t)
<1>1. OtherThreads(t)
  BY DEF EnsureFreshLocked, ProbeCached, ProbeCred, Probed, Respond, Get, Finish, Done, Become, TypeOK, OtherThreads
<1>2. UpstreamStep
  <2>1. CASE Respond(t)
    <3>1. UNCHANGED <<latest, age, faults>> /\ held' \subseteq held \cup {th[t].rec.tok}
      BY <2>1 DEF Respond
    <3> QED BY <3>1, NumberTypes DEF UpstreamStep
  <2>2. CASE ~Respond(t)
    BY <2>2, SameUpstream DEF EnsureFreshLocked, ProbeCached, ProbeCred, Get, ProfileAnswer, Fault, oauthVars
  <2> QED BY <2>1, <2>2
<1>3. StoreStep
  BY SameStore DEF EnsureFreshLocked, ProbeCached, ProbeCred, Respond, Get, storeVars
<1> QED BY <1>1, <1>2, <1>3

LEMMA PollWorld ==
    ASSUME TypeOK, NEW t \in Threads,
           \/ DeadProbe(t) \/ PollProfile(t) \/ PollConfirm(t)
           \/ TransitionHealth(t) \/ PollIfAged(t) \/ Reclaim(t)
           \/ \E c \in Creds : RefreshDue(t, c) \/ PollOne(t, c)
    PROVE  UpstreamStep /\ StoreStep /\ OtherThreads(t)
<1>1. OtherThreads(t)
  BY DEF DeadProbe, PollProfile, PollConfirm, TransitionHealth, PollIfAged, Reclaim, RefreshDue, PollOne,
         ToHealth, Goto, Finish, Done, Become, TypeOK, OtherThreads
<1>2. UpstreamStep
  BY SameUpstream DEF DeadProbe, PollProfile, PollConfirm, TransitionHealth, PollIfAged, Reclaim, RefreshDue,
         PollOne, ProfileAnswer, Fault, oauthVars
<1>3. StoreStep
  BY SameStore DEF DeadProbe, PollProfile, PollConfirm, TransitionHealth, PollIfAged, Reclaim, RefreshDue,
         PollOne, storeVars
<1> QED BY <1>1, <1>2, <1>3

LEMMA OfferWorld ==
    ASSUME TypeOK, NEW t \in Threads,
           \/ OfferVerify(t) \/ OfferRoute(t) \/ OfferAdopt(t)
           \/ \E k \in held : Offer(t, k)
    PROVE  UpstreamStep /\ StoreStep /\ OtherThreads(t)
<1>1. OtherThreads(t)
  BY DEF OfferVerify, OfferRoute, OfferAdopt, Offer, Goto, Done, Become, TypeOK, OtherThreads
<1>2. UpstreamStep
  BY SameUpstream DEF OfferVerify, OfferRoute, OfferAdopt, Offer, ProfileAnswer, Fault, oauthVars
<1>3. StoreStep
  BY SameStore DEF OfferVerify, OfferRoute, OfferAdopt, Offer, storeVars
<1> QED BY <1>1, <1>2, <1>3

LEMMA AdminWorld ==
    ASSUME TypeOK, NEW t \in Threads,
           \/ AdminPutVerify(t) \/ AdminPutUnique(t) \/ AdminPutInstall(t) \/ AdminRefreshLocked(t)
           \/ \E c \in Creds : AdminRefresh(t, c) \/ Delete(t, c) \/ \E k \in held : AdminPut(t, c, k)
    PROVE  UpstreamStep /\ StoreStep /\ OtherThreads(t)
<1>1. OtherThreads(t)
  BY DEF AdminPutVerify, AdminPutUnique, AdminPutInstall, AdminRefreshLocked, AdminRefresh, Delete, AdminPut,
         Goto, Done, Become, TypeOK, OtherThreads
<1>2. UpstreamStep
  BY SameUpstream DEF AdminPutVerify, AdminPutUnique, AdminPutInstall, AdminRefreshLocked, AdminRefresh, Delete,
         AdminPut, ProfileAnswer, Fault, oauthVars
<1>3. StoreStep
  <2>1. ASSUME NEW c \in Creds, Delete(t, c) PROVE StoreStep
    BY <2>1 DEF Delete, WriteThrough, StoreStep, TypeOK
  <2>2. CASE ~\E c \in Creds : Delete(t, c)
    BY <2>2, SameStore DEF AdminPutVerify, AdminPutUnique, AdminPutInstall, AdminRefreshLocked, AdminRefresh,
         AdminPut, storeVars
  <2> QED BY <2>1, <2>2
<1> QED BY <1>1, <1>2, <1>3

\* The environment moves no thread, except that a crash ends them all.
LEMMA EnvironmentWorld ==
    ASSUME TypeOK, Environment
    PROVE  UpstreamStep /\ StoreStep /\ \A t \in Threads : ThreadStep(t)
<1>1. CASE \E c \in Creds : ProbeExpires(c) \/ BackoffEnds(c) \/ GrowsOld(c)
  <2>1. UNCHANGED <<th, storeVars, oauthVars>>
    BY <1>1 DEF ProbeExpires, BackoffEnds, GrowsOld
  <2> QED BY <2>1, SameUpstream, SameStore, SameSources DEF oauthVars, storeVars
<1>2. CASE Crash
  <2>1. UNCHANGED <<latest, age, held, storeVars>> /\ faults' = faults + 1
    BY <1>2 DEF Crash, Fault
  <2>2. \A t \in Threads : th'[t] = Idle
    BY <1>2 DEF Crash
  <2> QED BY <2>1, <2>2, SameUpstream, SameStore, IdleSources DEF storeVars
<1>3. CASE Restart
  <2>1. UNCHANGED <<th, disk, oauthVars>> /\ mem' = disk
    BY <1>3 DEF Restart
  <2> QED BY <2>1, SameUpstream, SameSources DEF oauthVars, StoreStep
<1>4. CASE Tick
  <2>1. UNCHANGED <<th, storeVars, oauthVars>>
    BY <1>4 DEF Tick
  <2> QED BY <2>1, SameUpstream, SameStore, SameSources DEF oauthVars, storeVars
<1>5. CASE Upstream
  <2>1. UNCHANGED <<th, mem, disk>>
    BY <1>5 DEF Upstream
  <2>2. ASSUME NEW l \in Lineages, ExternalRefresh(l) PROVE UpstreamStep
    <3>1. UNCHANGED <<age, faults>> /\ held' = held \cup {Tok(l, latest[l] + 1)}
      BY <2>2 DEF ExternalRefresh
    <3>2. latest' = [latest EXCEPT ![l] = latest[l] + 1]
      BY <2>2 DEF ExternalRefresh, Mint
    <3>3. latest'[l] = latest[l] + 1 /\ \A m \in Lineages : latest'[m] >= latest[m]
      BY <3>2, NumberTypes DEF TypeOK, OAuthTypeOK
    <3> QED BY <3>1, <3>3, NumberTypes DEF UpstreamStep
  <2>3. ASSUME NEW l \in Lineages, NEW i \in 1..MaxSeq, Age(l, i) PROVE UpstreamStep
    <3>1. UNCHANGED <<latest, held, faults>> /\ age' = [age EXCEPT ![l][i] = age[l][i] + 1]
      BY <2>3 DEF Age
    <3>2. ASSUME NEW m \in Lineages, NEW j \in 1..MaxSeq PROVE age'[m][j] >= age[m][j]
      <4>1. age \in [Lineages -> [1..MaxSeq -> 0..2]] /\ age[m] \in [1..MaxSeq -> 0..2]
        BY DEF TypeOK, OAuthTypeOK
      <4> DEFINE row == [age[l] EXCEPT ![i] = age[l][i] + 1]
      <4>2. age' = [age EXCEPT ![l] = row]
        BY <3>1
      <4>3. age'[m] = IF m = l THEN row ELSE age[m]
        BY <4>1, <4>2
      <4>4. m = l => row[j] = IF j = i THEN age[m][j] + 1 ELSE age[m][j]
        BY <4>1
      <4> HIDE DEF row
      <4> QED BY <4>3, <4>4, NumberTypes
    <3> QED BY <3>1, <3>2, NumberTypes DEF UpstreamStep
  <2>4. UpstreamStep
    BY <1>5, <2>2, <2>3 DEF Upstream, OAuthNext
  <2> QED BY <2>1, <2>4, SameStore, SameSources
<1> QED BY <1>1, <1>2, <1>3, <1>4, <1>5 DEF Environment

\* Every step of the broker, in the three terms above.
LEMMA StepShape ==
    ASSUME TypeOK, [Next]_vars
    PROVE  UpstreamStep /\ StoreStep /\ \A t \in Threads : ThreadStep(t)
<1>1. CASE UNCHANGED vars
  BY <1>1, SameUpstream, SameStore, SameSources DEF vars, oauthVars
<1>2. CASE Environment
  BY <1>2, EnvironmentWorld
<1>3. ASSUME NEW t \in Threads, Continue(t) \/ Begin(t)
      PROVE  UpstreamStep /\ StoreStep /\ OtherThreads(t) /\ ThreadStep(t)
  <2>1. CASE PutSaved(t) \/ PutUnsaved(t) \/ Bump(t)
    BY <2>1, CommitSources, CommitWorld
  <2>2. CASE RefreshOK(t) \/ RefreshDead(t) \/ RefreshTransient(t)
    BY <2>2, RefreshSources, RefreshWorld
  <2>3. CASE \/ EnsureFreshLocked(t) \/ ProbeCached(t) \/ ProbeCred(t) \/ Respond(t)
             \/ \E c \in Creds, op \in {"get", "probeget"} : Get(t, op, c)
    BY <2>3, ServeSources, ServeWorld
  <2>4. CASE \/ DeadProbe(t) \/ PollProfile(t) \/ PollConfirm(t)
             \/ TransitionHealth(t) \/ PollIfAged(t) \/ Reclaim(t)
             \/ \E c \in Creds : RefreshDue(t, c) \/ PollOne(t, c)
    BY <2>4, PollSources, PollWorld
  <2>5. CASE \/ OfferVerify(t) \/ OfferRoute(t) \/ OfferAdopt(t)
             \/ \E k \in held : Offer(t, k)
    BY <2>5, OfferSources, OfferWorld
  <2>6. CASE \/ AdminPutVerify(t) \/ AdminPutUnique(t) \/ AdminPutInstall(t) \/ AdminRefreshLocked(t)
             \/ \E c \in Creds : AdminRefresh(t, c) \/ Delete(t, c) \/ \E k \in held : AdminPut(t, c, k)
    BY <2>6, AdminSources, AdminWorld
  <2> QED BY <1>3, <2>1, <2>2, <2>3, <2>4, <2>5, <2>6 DEF Continue, Begin
<1>4. ASSUME NEW t \in Threads, OtherThreads(t), ThreadStep(t)
      PROVE  \A u \in Threads : ThreadStep(u)
  BY <1>4, SameSources DEF OtherThreads
<1> QED BY <1>1, <1>2, <1>3, <1>4 DEF Next

-----------------------------------------------------------------------------
(* Every token the broker or a client handles was minted.                   *)

TokensIssued ==
    /\ \A k \in held : Issued(k)
    /\ \A c \in Creds : Present(mem, c) => Issued(mem[c].tok)
    /\ \A c \in Creds : Present(disk, c) => Issued(disk[c].tok)
    /\ \A t \in Threads : Issued(th[t].tok) /\ Issued(th[t].rec.tok) /\ Issued(th[t].nr.tok)

LEMMA TokenTypes ==
    ASSUME TypeOK
    PROVE  /\ \A c \in Creds : Present(mem, c) => mem[c] \in Record /\ mem[c].tok \in Token
           /\ \A c \in Creds : Present(disk, c) => disk[c] \in Record /\ disk[c].tok \in Token
           /\ \A t \in Threads : /\ th[t].c \in Creds /\ th[t].rec \in Record /\ th[t].nr \in Record
                                  /\ th[t].tok \in Token /\ th[t].rec.tok \in Token /\ th[t].nr.tok \in Token
           /\ AnyTok \in Token /\ held \subseteq Token
  BY PresentType, IdleType DEF TypeOK, OAuthTypeOK, Thread, Record

\* What is stored by a commit is what was pending.
LEMMA StoredTok ==
    ASSUME TypeOK, NEW t \in Threads
    PROVE  Stored(t).tok = th[t].nr.tok /\ Stored(t).health = th[t].nr.health
  BY TokenTypes DEF Stored, Record

\* A record of the store comes from the store, from the file or from a thread.
LEMMA StoreSource ==
    ASSUME TypeOK, StoreStep, NEW c \in Creds
    PROVE  /\ \/ mem'[c] \in {mem[c], disk[c], NoRecord}
              \/ \E t \in Threads : mem'[c].tok = th[t].nr.tok /\ mem'[c].health = th[t].nr.health
           /\ \/ disk'[c] \in {mem[c], disk[c], NoRecord}
              \/ \E t \in Threads : disk'[c].tok = th[t].nr.tok /\ disk'[c].health = th[t].nr.health
  BY StoredTok DEF StoreStep

\* What the state after a step says of a token of any state.
IssuedNext(k) == k.seq <= latest'[k.lin]
CanRefreshNext(k) == IssuedNext(k) /\ (Rotating => ~(k.seq < latest'[k.lin]))
LiveNext(k) == IssuedNext(k) /\ ~(k.seq < latest'[k.lin]) /\ age'[k.lin][k.seq] < 2

\* Tokens stay minted, superseded ones stay superseded, expired ones expired.
LEMMA UpstreamGrows ==
    ASSUME TypeOK, TypeOK', UpstreamStep
    PROVE  /\ \A k \in Token : Issued(k) => IssuedNext(k)
           /\ \A k \in Token : Issued(k) /\ ~CanRefresh(k) => ~CanRefreshNext(k)
           /\ \A k \in Token : Issued(k) /\ ~Live(k) => ~LiveNext(k)
<1> SUFFICES ASSUME NEW k \in Token
             PROVE  /\ Issued(k) => IssuedNext(k)
                    /\ Issued(k) /\ ~CanRefresh(k) => ~CanRefreshNext(k)
                    /\ Issued(k) /\ ~Live(k) => ~LiveNext(k)
  OBVIOUS
<1>1. k.lin \in Lineages /\ k.seq \in 1..MaxSeq /\ k.seq \in Int
  BY DEF Token
<1>2. latest[k.lin] \in Int /\ age[k.lin][k.seq] \in Int
  BY <1>1, NumberTypes
<1>3. latest'[k.lin] \in Int /\ age'[k.lin][k.seq] \in Int
  <2>1. latest' \in [Lineages -> 1..MaxSeq] /\ age' \in [Lineages -> [1..MaxSeq -> 0..2]]
    BY DEF TypeOK, OAuthTypeOK
  <2>2. age'[k.lin] \in [1..MaxSeq -> 0..2]
    BY <1>1, <2>1
  <2>3. age'[k.lin][k.seq] \in 0..2
    BY <1>1, <2>2
  <2> QED BY <1>1, <2>1, <2>3
<1>4. latest'[k.lin] >= latest[k.lin] /\ age'[k.lin][k.seq] >= age[k.lin][k.seq]
  BY <1>1 DEF UpstreamStep
<1>5. Issued(k) => IssuedNext(k)
  BY <1>1, <1>2, <1>3, <1>4 DEF Issued, IssuedNext
<1>6. Superseded(k) => k.seq < latest'[k.lin]
  BY <1>1, <1>2, <1>3, <1>4 DEF Superseded
<1>7. ~Unexpired(k) => ~(age'[k.lin][k.seq] < 2)
  BY <1>1, <1>2, <1>3, <1>4 DEF Unexpired
<1> QED BY <1>5, <1>6, <1>7 DEF CanRefresh, CanRefreshNext, Live, LiveNext

\* The pairs the server hands out, and the first one of a lineage, are minted.
LEMMA NewestIssued ==
    ASSUME TypeOK, TypeOK'
    PROVE  Issued(AnyTok) /\ \A l \in Lineages : IssuedNext(Tok(l, latest'[l]))
<1>1. AnyTok.seq = 1 /\ AnyTok.lin \in Lineages
  BY TokensAssumption DEF AnyTok, Tok
<1>2. latest[AnyTok.lin] \in 1..MaxSeq
  BY <1>1 DEF TypeOK, OAuthTypeOK
<1>3. \A l \in Lineages : latest'[l] \in Int
  BY DEF TypeOK, OAuthTypeOK
<1>4. \A l \in Lineages : IssuedNext(Tok(l, latest'[l]))
  BY <1>3 DEF IssuedNext, Tok
<1> QED BY <1>1, <1>2, <1>4 DEF Issued

LEMMA IssuedStart == Init => TokensIssued
<1> SUFFICES ASSUME Init PROVE TokensIssued
  OBVIOUS
<1>1. \A l \in Lineages : Issued(Tok(l, 1))
  <2>1. \A l \in Lineages : latest[l] = 1
    BY DEF Init, OAuthInit
  <2>2. \A l \in Lineages : Tok(l, 1).lin = l /\ Tok(l, 1).seq = 1
    BY DEF Tok
  <2>3. ASSUME NEW l \in Lineages PROVE Tok(l, 1).seq <= latest[Tok(l, 1).lin]
    <3>1. Tok(l, 1).lin = l /\ Tok(l, 1).seq = 1 /\ latest[l] = 1
      BY <2>1, <2>2
    <3> QED BY <3>1
  <2> QED BY <2>3 DEF Issued
<1>2. \A l \in Lineages : Fresh(Tok(l, 1)).tok = Tok(l, 1)
  BY DEF Fresh
<1>3. /\ AnyTok \in {Tok(l, 1) : l \in Lineages}
      /\ Idle.tok = AnyTok /\ Idle.rec.tok = AnyTok /\ Idle.nr.tok = AnyTok
  BY TokensAssumption DEF AnyTok, Idle, Blank, Fresh
<1>4. \A t \in Threads : th[t] = Idle
  BY DEF Init
<1>5. \A c \in Creds : disk[c] = mem[c] /\ (Present(mem, c) => mem[c] \in {Fresh(Tok(l, 1)) : l \in Lineages})
  BY DEF Init, Present
<1>6. held = {Tok(l, 1) : l \in Lineages}
  BY DEF Init, OAuthInit
<1> QED BY <1>1, <1>2, <1>3, <1>4, <1>5, <1>6 DEF TokensIssued, Present

LEMMA IssuedStep ==
    ASSUME TypeOK, TypeOK', TokensIssued, [Next]_vars
    PROVE  TokensIssued'
<1>1. UpstreamStep /\ StoreStep /\ \A t \in Threads : ThreadStep(t)
  BY StepShape
<1>2. \A k \in Token : Issued(k) => IssuedNext(k)
  BY <1>1, UpstreamGrows
<1>3. IssuedNext(AnyTok) /\ \A l \in Lineages : IssuedNext(Tok(l, latest'[l]))
  BY <1>2, NewestIssued, TokenTypes
<1>4. \A k \in held' : IssuedNext(k)
  BY <1>1, <1>2, <1>3, TokenTypes DEF UpstreamStep, TokensIssued
<1>5. \A c \in Creds : /\ mem'[c] # NoRecord => IssuedNext(mem'[c].tok)
                       /\ disk'[c] # NoRecord => IssuedNext(disk'[c].tok)
  BY <1>1, <1>2, StoreSource, TokenTypes DEF TokensIssued, Present
<1>6. ASSUME NEW t \in Threads
      PROVE  IssuedNext(th'[t].tok) /\ IssuedNext(th'[t].rec.tok) /\ IssuedNext(th'[t].nr.tok)
  <2>1. IssuedNext(th'[t].tok)
    BY <1>1, <1>2, <1>3, TokenTypes DEF ThreadStep, TokSource, TokensIssued
  <2>2. IssuedNext(th'[t].rec.tok)
    BY <1>1, <1>2, <1>3, TokenTypes DEF ThreadStep, RecSource, TokensIssued
  <2>3. IssuedNext(th'[t].nr.tok)
    BY <1>1, <1>2, <1>3, TokenTypes DEF ThreadStep, NrSource, EvidenceCurrent, TokensIssued
  <2> QED BY <2>1, <2>2, <2>3
<1> QED BY <1>4, <1>5, <1>6 DEF TokensIssued, Present, Issued, IssuedNext

\* No token of the store, of a thread or of a client is one the server never
\* minted.
THEOREM TokensAreIssued == Spec => []TokensIssued
<1>1. TypeOK /\ TypeOK' /\ TokensIssued /\ [Next]_vars => TokensIssued'
  BY IssuedStep
<1> QED BY <1>1, IssuedStart, TypeCorrect, PTL DEF Spec

-----------------------------------------------------------------------------
(* A credential dies only with its refresh token.                           *)

\* Wherever a record is dead -- in the store, in the file, pending in a thread
\* -- its refresh token is of no use any more; and no evidence of a poll or a
\* probe says "dead".
DeathsProven ==
    /\ \A c \in Creds : Present(mem, c) /\ mem[c].health = "dead" => ~CanRefresh(mem[c].tok)
    /\ \A c \in Creds : Present(disk, c) /\ disk[c].health = "dead" => ~CanRefresh(disk[c].tok)
    /\ \A t \in Threads : /\ th[t].to # "dead"
                          /\ th[t].nr.health = "dead" => ~CanRefresh(th[t].nr.tok)

LEMMA DeathsStart == Init => DeathsProven
<1> SUFFICES ASSUME Init PROVE DeathsProven
  OBVIOUS
<1>1. \A l \in Lineages : Fresh(Tok(l, 1)).health = "ok"
  BY DEF Fresh
<1>2. Idle.to = "ok" /\ Idle.nr.health = "ok"
  BY DEF Idle, Blank, Fresh
<1>3. \A t \in Threads : th[t] = Idle
  BY DEF Init
<1>4. \A c \in Creds : disk[c] = mem[c] /\ (Present(mem, c) => mem[c] \in {Fresh(Tok(l, 1)) : l \in Lineages})
  BY DEF Init, Present
<1> QED BY <1>1, <1>2, <1>3, <1>4 DEF DeathsProven, Present

LEMMA DeathsStep ==
    ASSUME "flukegrant" \notin FaultKinds,
           TypeOK, TypeOK', TokensIssued, DeathsProven, [Next]_vars
    PROVE  DeathsProven'
<1>1. UpstreamStep /\ StoreStep /\ \A t \in Threads : ThreadStep(t)
  BY StepShape
<1>2. \A k \in Token : Issued(k) /\ ~CanRefresh(k) => ~CanRefreshNext(k)
  BY <1>1, UpstreamGrows
<1>3. \A c \in Creds : /\ mem'[c] # NoRecord /\ mem'[c].health = "dead" => ~CanRefreshNext(mem'[c].tok)
                       /\ disk'[c] # NoRecord /\ disk'[c].health = "dead" => ~CanRefreshNext(disk'[c].tok)
  BY <1>1, <1>2, StoreSource, TokenTypes DEF TokensIssued, DeathsProven, Present
<1>4. ASSUME NEW t \in Threads
      PROVE  /\ th'[t].to # "dead"
             /\ th'[t].nr.health = "dead" => ~CanRefreshNext(th'[t].nr.tok)
  <2>1. th'[t].to # "dead"
    BY <1>1 DEF ThreadStep, EvidenceSource, DeathsProven
  <2>2. th'[t].nr.health = "dead" => th'[t].nr.tok \in Token /\ Issued(th'[t].nr.tok) /\ ~CanRefresh(th'[t].nr.tok)
    BY <1>1, TokenTypes DEF ThreadStep, NrSource, DeathsProven, TokensIssued
  <2> QED BY <1>2, <2>1, <2>2
<1> QED BY <1>3, <1>4 DEF DeathsProven, Present, CanRefresh, CanRefreshNext, Superseded, Issued, IssuedNext

\* Unless the authorization server itself refuses a valid refresh token, a
\* credential is never declared dead while it could be refreshed: refreshing,
\* reclaiming, polling and offering concurrently, over crashes and failing
\* saves, only a real permanent answer about the token still stored kills it.
THEOREM DeadMeansGone ==
    ASSUME "flukegrant" \notin FaultKinds
    PROVE  Spec => []DeadMeansNotRefreshable
<1>1. TypeOK /\ TypeOK' /\ TokensIssued /\ DeathsProven /\ [Next]_vars => DeathsProven'
  BY DeathsStep
<1>2. DeathsProven => DeadMeansNotRefreshable
  BY DEF DeathsProven, DeadMeansNotRefreshable
<1> QED BY <1>1, <1>2, DeathsStart, TypeCorrect, TokensAreIssued, PTL DEF Spec

-----------------------------------------------------------------------------
(* Commits.                                                                *)

Holding == {"refresh", "put", "bump"}
Importing == {"verifyimport", "unique", "install"}

\* What a step of thread t does to the mutexes.
MutexStep(t) ==
    \/ lock' = lock /\ (th'[t].pc \in Holding => th[t].pc \in Holding /\ th'[t].c = th[t].c)
    \/ lock' = [lock EXCEPT ![th'[t].c] = t] /\ Free(th'[t].c) /\ th'[t].c \in Creds
    \/ /\ lock' = [lock EXCEPT ![th[t].c] = NoThread] /\ th'[t].pc \notin Holding
       /\ th[t].pc \in Holding

\* How record nr differs from the record old it is to replace.
Change(old, nr, op) ==
    \/ nr.health # old.health /\ nr = [old EXCEPT !.health = nr.health]
    \/ nr.health = "dead" /\ nr = old
    \/ nr.tok # old.tok /\ nr = [Replace(old, nr.tok) EXCEPT !.gen = nr.gen]
    \/ op = "import"

\* The record thread t works on is the one that is stored, unless it was
\* deleted.
WorksOnStored(t) ==
    LET old == mem[th[t].c] IN
    /\ th[t].pc = "refresh" /\ Present(mem, th[t].c) => th[t].rec = old
    /\ th[t].pc = "put" /\ Present(mem, th[t].c) => Change(old, th[t].nr, th[t].op)
    /\ th[t].pc \in Importing => th[t].op = "import"

\* The same of the thread a step has moved, about the store it found.
PendingStep(t) ==
    LET old == mem[th'[t].c] IN
    /\ th'[t].pc \in {"refresh", "put"} => mem' = mem
    /\ th'[t].pc = "refresh" => old # NoRecord /\ th'[t].rec = old
    /\ th'[t].pc = "put" /\ old # NoRecord => Change(old, th'[t].nr, th'[t].op)
    /\ th'[t].pc \in Importing => th'[t].op = "import"

\* A thread that moves on outside every mutex.
LEMMA OutsideStep ==
    ASSUME NEW t \in Threads, UNCHANGED lock, th'[t].pc \notin Holding,
           th'[t].pc \in Importing => th'[t].op = "import"
    PROVE  MutexStep(t) /\ PendingStep(t)
  BY DEF MutexStep, PendingStep, Holding, Importing

LEMMA IdleStep ==
    ASSUME TypeOK, NEW t \in Threads, UNCHANGED lock, Done(t)
    PROVE  MutexStep(t) /\ PendingStep(t)
<1>1. th'[t] = Idle /\ Idle.pc = "idle"
  BY DEF Done, Become, TypeOK, Idle
<1> QED BY <1>1, OutsideStep DEF Holding, Importing

LEMMA GotoStep ==
    ASSUME TypeOK, NEW t \in Threads, UNCHANGED lock, NEW pc \in PCs \ Holding, Goto(t, pc),
           pc \in Importing => th[t].op = "import"
    PROVE  MutexStep(t) /\ PendingStep(t)
<1>1. th'[t] = [th[t] EXCEPT !.pc = pc]
  BY DEF Goto, Become, TypeOK
<1>2. th[t] \in Thread
  BY DEF TypeOK
<1>3. th'[t].pc = pc /\ th'[t].op = th[t].op
  BY <1>1, <1>2 DEF Thread
<1> QED BY <1>3, OutsideStep

LEMMA FinishesOutside ==
    ASSUME TypeOK, NEW t \in Threads, NEW r, Finish(t, r)
    PROVE  th'[t].pc \notin Holding /\ th'[t].pc \notin Importing
<1> DEFINE next(pc, x) == [Idle EXCEPT !.pc = pc, !.op = th[t].op, !.c = th[t].c, !.rec = x,
                                       !.flag = th[t].flag]
<1>1. \/ th'[t] = Idle
      \/ th'[t] = next("respond", r) \/ th'[t] = next("probe", r)
      \/ th'[t] = next("respond", [r EXCEPT !.health = "ok"]) \/ th'[t] = next("ifaged", Blank)
  BY DEF Finish, Become, TypeOK
<1>2. \A pc, x : next(pc, x).pc = pc
  BY DEF Idle
<1>3. Idle.pc = "idle"
  BY DEF Idle
<1> HIDE DEF next
<1> QED BY <1>1, <1>2, <1>3 DEF Holding, Importing

\* Letting go of the mutex and going on outside it.
LEMMA ReleaseStep ==
    ASSUME TypeOK, NEW t \in Threads, NEW r, th[t].pc \in Holding, Release(th[t].c), Finish(t, r)
    PROVE  MutexStep(t) /\ PendingStep(t)
  BY FinishesOutside DEF MutexStep, PendingStep, Release, Holding, Importing

\* Taking the free mutex of c to refresh the record that is stored.
LEMMA RefreshTaken ==
    ASSUME TypeOK, NEW t \in Threads, NEW c \in Creds, Free(c), Acquire(t, c), UNCHANGED mem,
           th'[t].pc = "refresh", th'[t].c = c, Present(mem, c), th'[t].rec = mem[c]
    PROVE  MutexStep(t) /\ PendingStep(t)
  BY DEF MutexStep, PendingStep, Acquire, Present, Importing

\* Taking it to commit a change of the record that is stored.
LEMMA CommitTaken ==
    ASSUME TypeOK, NEW t \in Threads, NEW c \in Creds, Free(c), Acquire(t, c), UNCHANGED mem,
           th'[t].pc = "put", th'[t].c = c,
           Present(mem, c) => Change(mem[c], th'[t].nr, th'[t].op)
    PROVE  MutexStep(t) /\ PendingStep(t)
  BY DEF MutexStep, PendingStep, Acquire, Present, Importing

-----------------------------------------------------------------------------
(* Every step of a thread has the two shapes.                              *)

LEMMA CommitMutex ==
    ASSUME TypeOK, NEW t \in Threads, PutSaved(t) \/ PutUnsaved(t) \/ Bump(t)
    PROVE  MutexStep(t) /\ PendingStep(t)
<1>1. CASE PutSaved(t)
  <2>1. th'[t] = [th[t] EXCEPT !.pc = "bump", !.nr = Stored(t)]
    BY <1>1 DEF PutSaved, Become, TypeOK
  <2>2. th[t] \in Thread
    BY DEF TypeOK
  <2>3. th'[t].pc = "bump" /\ th'[t].c = th[t].c
    BY <2>1, <2>2 DEF Thread
  <2>4. UNCHANGED lock /\ th[t].pc = "put"
    BY <1>1 DEF PutSaved, At, volatile
  <2> QED BY <2>3, <2>4 DEF MutexStep, PendingStep, Holding, Importing
<1>2. CASE PutUnsaved(t)
  BY <1>2, ReleaseStep DEF PutUnsaved, At, Holding, Importing
<1>3. CASE Bump(t)
  BY <1>3, ReleaseStep DEF Bump, At, Holding, Importing
<1> QED BY <1>1, <1>2, <1>3

\* A record is itself with one of its fields replaced by its own.
LEMMA SameFields ==
    ASSUME NEW r \in Record
    PROVE  r = [r EXCEPT !.health = r.health] /\ r = [r EXCEPT !.gen = r.gen]
  BY DEF Record

LEMMA ReplaceChanges ==
    ASSUME NEW old \in Record, NEW k \in Token, k # old.tok, NEW op
    PROVE  Change(old, Replace(old, k), op)
<1> DEFINE nr == Replace(old, k)
<1>1. nr \in Record
  BY ReplaceType
<1>2. nr.tok = k
  BY DEF Replace, Record
<1>3. nr = [nr EXCEPT !.gen = nr.gen]
  BY <1>1, SameFields
<1> HIDE DEF nr
<1>4. nr = Replace(old, nr.tok)
  BY <1>2 DEF nr
<1>5. Change(old, nr, op)
  BY <1>2, <1>3, <1>4 DEF Change
<1> QED BY <1>5 DEF nr

LEMMA HealthChanges ==
    ASSUME NEW old \in Record, NEW h \in Health, h # old.health \/ h = "dead", NEW op
    PROVE  Change(old, [old EXCEPT !.health = h], op)
<1> DEFINE nr == [old EXCEPT !.health = h]
<1>1. nr.health = h /\ (h = old.health => nr = old)
  BY SameFields DEF Record
<1>2. nr = [old EXCEPT !.health = nr.health]
  BY <1>1
<1> HIDE DEF nr
<1>3. Change(old, nr, op)
  BY <1>1, <1>2 DEF Change
<1> QED BY <1>3 DEF nr

LEMMA RefreshMutex ==
    ASSUME TypeOK, TokensIssued, NEW t \in Threads,
           RefreshOK(t) \/ RefreshDead(t) \/ RefreshTransient(t)
    PROVE  MutexStep(t) /\ (WorksOnStored(t) => PendingStep(t))
<1>1. /\ th[t] \in Thread /\ th[t].rec \in Record /\ th[t].rec.tok.lin \in Lineages
      /\ th[t].rec.tok \in Token
  BY DEF TypeOK, Thread, Record, Token
<1>2. th[t].pc = "refresh"
  BY DEF RefreshOK, RefreshDead, RefreshTransient, At
<1>3. WorksOnStored(t) /\ mem[th[t].c] # NoRecord => th[t].rec = mem[th[t].c]
  BY <1>2 DEF WorksOnStored, Present
<1>4. ASSUME NEW nr, th'[t] = [th[t] EXCEPT !.pc = "put", !.nr = nr], UNCHANGED <<mem, lock>>,
             Change(th[t].rec, nr, th[t].op)
      PROVE  MutexStep(t) /\ (WorksOnStored(t) => PendingStep(t))
  <2>1. th'[t].pc = "put" /\ th'[t].c = th[t].c /\ th'[t].nr = nr /\ th'[t].op = th[t].op
    BY <1>1, <1>4 DEF Thread
  <2>2. MutexStep(t)
    BY <1>2, <1>4, <2>1 DEF MutexStep, Holding
  <2>3. WorksOnStored(t) => PendingStep(t)
    BY <1>3, <1>4, <2>1 DEF PendingStep, Importing
  <2> QED BY <2>2, <2>3
<1>5. CASE RefreshOK(t)
  <2> DEFINE l == th[t].rec.tok.lin
             k == Tok(l, latest'[l])
  <2>1. th'[t] = [th[t] EXCEPT !.pc = "put", !.nr = Replace(th[t].rec, k)]
    BY <1>5 DEF RefreshOK, Become, TypeOK
  <2>2. latest[l] < MaxSeq /\ latest'[l] = latest[l] + 1
    BY <1>1, <1>5 DEF RefreshOK, RefreshAnswer, Mint, TypeOK, OAuthTypeOK
  <2>3. latest[l] \in 1..MaxSeq
    BY <1>1 DEF TypeOK, OAuthTypeOK
  <2>4. th[t].rec.tok.seq <= latest[l] /\ th[t].rec.tok.seq \in 1..MaxSeq
    BY <1>1 DEF TokensIssued, Issued, Token
  <2>5. k \in Token /\ k.seq = latest[l] + 1
    BY <1>1, <2>2, <2>3, TokensAssumption DEF Tok, Token
  <2>6. k # th[t].rec.tok
    BY <2>3, <2>4, <2>5
  <2> HIDE DEF k
  <2>7. Change(th[t].rec, Replace(th[t].rec, k), th[t].op)
    BY <1>1, <2>5, <2>6, ReplaceChanges
  <2> QED BY <1>4, <1>5, <2>1, <2>7 DEF RefreshOK, storeVars, volatile
<1>6. CASE RefreshDead(t)
  <2>1. th'[t] = [th[t] EXCEPT !.pc = "put", !.nr = [th[t].rec EXCEPT !.health = "dead"]]
    BY <1>6 DEF RefreshDead, Become, TypeOK
  <2>2. Change(th[t].rec, [th[t].rec EXCEPT !.health = "dead"], th[t].op)
    BY <1>1, HealthChanges DEF Health
  <2> QED BY <1>4, <1>6, <2>1, <2>2 DEF RefreshDead, storeVars, volatile
<1>7. CASE RefreshTransient(t)
  BY <1>2, <1>7, ReleaseStep DEF RefreshTransient, Holding, Importing
<1> QED BY <1>5, <1>6, <1>7

LEMMA ServeMutex ==
    ASSUME TypeOK, NEW t \in Threads,
           \/ EnsureFreshLocked(t) \/ ProbeCached(t) \/ ProbeCred(t) \/ Respond(t)
           \/ \E c \in Creds, op \in {"get", "probeget"} : Get(t, op, c)
    PROVE  MutexStep(t) /\ PendingStep(t)
<1>1. th[t] \in Thread /\ th[t].c \in Creds
  BY DEF TypeOK, Thread
<1>2. CASE EnsureFreshLocked(t)
  <2>1. CASE th' = [th EXCEPT ![t] = [th[t] EXCEPT !.pc = "refresh", !.rec = Reread(t)]]
             /\ Present(mem, th[t].c) /\ Acquire(t, th[t].c)
    <3>1. th'[t] = [th[t] EXCEPT !.pc = "refresh", !.rec = mem[th[t].c]]
      BY <2>1 DEF TypeOK, Reread
    <3>2. th'[t].pc = "refresh" /\ th'[t].c = th[t].c /\ th'[t].rec = mem[th[t].c]
      BY <1>1, <3>1 DEF Thread
    <3> QED BY <1>1, <1>2, <2>1, <3>2, RefreshTaken DEF EnsureFreshLocked, storeVars
  <2>2. CASE UNCHANGED lock /\ Finish(t, Reread(t))
    BY <2>2, FinishesOutside, OutsideStep
  <2>3. CASE UNCHANGED lock /\ Done(t)
    BY <2>3, IdleStep
  <2> QED BY <1>2, <2>1, <2>2, <2>3 DEF EnsureFreshLocked, Become
<1>3. ASSUME NEW live \in BOOLEAN, Probed(t, live), UNCHANGED lock PROVE MutexStep(t) /\ PendingStep(t)
  <2>1. \/ th'[t] = [th[t] EXCEPT !.pc = "transition", !.op = "heal", !.to = "ok", !.flag = TRUE]
        \/ th'[t] = [th[t] EXCEPT !.pc = "respond", !.flag = live]
    BY <1>3 DEF Probed, Become, TypeOK
  <2>2. th'[t].pc \in {"transition", "respond"}
    BY <1>1, <2>1 DEF Thread
  <2> QED BY <1>3, <2>2, OutsideStep DEF Holding, Importing
<1>4. CASE ProbeCached(t)
  <2>1. probe[th[t].c].live \in BOOLEAN
    BY <1>1, <1>4 DEF ProbeCached, Cached, TypeOK
  <2> QED BY <1>3, <1>4, <2>1 DEF ProbeCached, volatile
<1>5. CASE ProbeCred(t)
  BY <1>3, <1>5 DEF ProbeCred
<1>6. CASE Respond(t)
  BY <1>6, IdleStep DEF Respond, volatile
<1>7. ASSUME NEW c \in Creds, NEW op \in {"get", "probeget"}, Get(t, op, c)
      PROVE  MutexStep(t) /\ PendingStep(t)
  <2>1. th'[t] = [Idle EXCEPT !.op = op, !.c = c, !.rec = mem[c],
                    !.pc = IF Due(mem[c]) THEN "lock" ELSE IF op = "get" THEN "respond" ELSE "probe"]
    BY <1>7 DEF Get, Become, TypeOK
  <2>2. th'[t].pc \in {"lock", "respond", "probe"}
    BY <2>1 DEF Idle
  <2> QED BY <1>7, <2>2, OutsideStep DEF Get, volatile, Holding, Importing
<1> QED BY <1>2, <1>4, <1>5, <1>6, <1>7

LEMMA PollMutex ==
    ASSUME TypeOK, NEW t \in Threads,
           \/ DeadProbe(t) \/ PollProfile(t) \/ PollConfirm(t)
           \/ TransitionHealth(t) \/ PollIfAged(t) \/ Reclaim(t)
           \/ \E c \in Creds : RefreshDue(t, c) \/ PollOne(t, c)
    PROVE  MutexStep(t) /\ PendingStep(t)
<1>1. th[t] \in Thread /\ th[t].c \in Creds /\ th[t].to \in Health
  BY DEF TypeOK, Thread
<1>2. ASSUME NEW h \in Health, ToHealth(t, h), UNCHANGED lock PROVE MutexStep(t) /\ PendingStep(t)
  <2>1. th'[t] = [th[t] EXCEPT !.pc = "transition", !.to = h]
    BY <1>2 DEF ToHealth, Become, TypeOK
  <2>2. th'[t].pc = "transition"
    BY <1>1, <2>1 DEF Thread
  <2> QED BY <1>2, <2>2, OutsideStep DEF Holding, Importing
<1>3. CASE DeadProbe(t)
  BY <1>2, <1>3, IdleStep DEF DeadProbe, volatile, Health
<1>4. "confirm" \in PCs \ Holding /\ "ifaged" \in PCs \ Holding
  BY DEF PCs, Holding, Importing
<1>5. CASE PollProfile(t)
  BY <1>2, <1>4, <1>5, GotoStep DEF PollProfile, volatile, Health, Importing
<1>6. CASE PollConfirm(t)
  BY <1>2, <1>4, <1>6, GotoStep DEF PollConfirm, volatile, Health, Importing
<1>7. CASE TransitionHealth(t)
  <2> DEFINE c == th[t].c
             nr == [mem[c] EXCEPT !.health = th[t].to]
  <2>1. CASE EvidenceCurrent(t)
    <3>1. th'[t] = [th[t] EXCEPT !.pc = "put", !.nr = nr]
      BY <1>7, <2>1 DEF TransitionHealth, Become, TypeOK
    <3>2. th'[t].pc = "put" /\ th'[t].c = c /\ th'[t].nr = nr
      BY <1>1, <3>1 DEF Thread
    <3>3. mem[c] \in Record /\ mem[c].health # th[t].to
      BY <1>1, <2>1, TokenTypes DEF EvidenceCurrent
    <3>4. Change(mem[c], nr, th'[t].op)
      BY <1>1, <3>3, HealthChanges
    <3>5. Free(c) /\ Acquire(t, c) /\ UNCHANGED mem
      BY <1>7, <2>1 DEF TransitionHealth, storeVars
    <3> HIDE DEF nr
    <3> QED BY <1>1, <3>2, <3>4, <3>5, CommitTaken
  <2>2. CASE ~EvidenceCurrent(t)
    BY <1>7, <2>2, FinishesOutside, OutsideStep DEF TransitionHealth
  <2> QED BY <2>1, <2>2
<1>8. CASE PollIfAged(t)
  <2>1. CASE Become(t, [Idle EXCEPT !.pc = "reclaim", !.op = "reclaim", !.c = th[t].c])
    <3>1. th'[t].pc = "reclaim"
      BY <2>1 DEF Become, TypeOK, Idle
    <3> QED BY <1>8, <3>1, OutsideStep DEF PollIfAged, volatile, Holding, Importing
  <2>2. CASE Done(t)
    BY <1>8, <2>2, IdleStep DEF PollIfAged, volatile
  <2> QED BY <1>8, <2>1, <2>2 DEF PollIfAged
<1>9. CASE Reclaim(t)
  <2>1. CASE Become(t, [th[t] EXCEPT !.pc = "refresh", !.rec = mem[th[t].c]])
             /\ Present(mem, th[t].c) /\ Acquire(t, th[t].c)
    <3>1. th'[t] = [th[t] EXCEPT !.pc = "refresh", !.rec = mem[th[t].c]]
      BY <2>1 DEF Become, TypeOK
    <3>2. th'[t].pc = "refresh" /\ th'[t].c = th[t].c /\ th'[t].rec = mem[th[t].c]
      BY <1>1, <3>1 DEF Thread
    <3> QED BY <1>1, <1>9, <2>1, <3>2, RefreshTaken DEF Reclaim, storeVars
  <2>2. CASE Done(t) /\ UNCHANGED lock
    BY <2>2, IdleStep
  <2> QED BY <1>9, <2>1, <2>2 DEF Reclaim
<1>10. ASSUME NEW c \in Creds, RefreshDue(t, c) PROVE MutexStep(t) /\ PendingStep(t)
  <2>1. th'[t] = [Idle EXCEPT !.pc = "refresh", !.op = "loop", !.c = c, !.rec = mem[c]]
    BY <1>10 DEF RefreshDue, Become, TypeOK
  <2>2. th'[t].pc = "refresh" /\ th'[t].c = c /\ th'[t].rec = mem[c]
    BY <2>1 DEF Idle
  <2> QED BY <1>10, <2>2, RefreshTaken DEF RefreshDue, storeVars
<1>11. ASSUME NEW c \in Creds, PollOne(t, c) PROVE MutexStep(t) /\ PendingStep(t)
  <2>1. th'[t].pc \in {"deadprobe", "profile"}
    BY <1>11 DEF PollOne, Become, TypeOK, Idle
  <2> QED BY <1>11, <2>1, OutsideStep DEF PollOne, volatile, Holding, Importing
<1> QED BY <1>3, <1>5, <1>6, <1>7, <1>8, <1>9, <1>10, <1>11

LEMMA OfferMutex ==
    ASSUME TypeOK, NEW t \in Threads,
           \/ OfferVerify(t) \/ OfferRoute(t) \/ OfferAdopt(t)
           \/ \E k \in held : Offer(t, k)
    PROVE  MutexStep(t) /\ PendingStep(t)
<1>1. th[t] \in Thread /\ th[t].c \in Creds /\ th[t].tok \in Token
  BY DEF TypeOK, Thread
<1>2. CASE OfferVerify(t)
  <2>1. "route" \in PCs \ Holding
    BY DEF PCs, Holding, Importing
  <2> QED BY <1>2, <2>1, GotoStep, IdleStep DEF OfferVerify, volatile, Importing
<1>3. CASE OfferRoute(t)
  <2>1. ASSUME NEW c, Become(t, [th[t] EXCEPT !.pc = "adopt", !.c = c, !.rec = mem[c]])
        PROVE  MutexStep(t) /\ PendingStep(t)
    <3>1. th'[t] = [th[t] EXCEPT !.pc = "adopt", !.c = c, !.rec = mem[c]]
      BY <2>1 DEF Become, TypeOK
    <3>2. th'[t].pc = "adopt"
      BY <1>1, <3>1 DEF Thread
    <3> QED BY <1>3, <3>2, OutsideStep DEF OfferRoute, volatile, Holding, Importing
  <2> QED BY <1>3, <2>1, IdleStep DEF OfferRoute, volatile
<1>4. CASE OfferAdopt(t)
  <2> DEFINE c == th[t].c
             nr == Replace(mem[c], th[t].tok)
  <2>1. CASE Done(t) /\ UNCHANGED lock
    BY <2>1, IdleStep
  <2>2. CASE ~StoreUnchanged(t) /\ UNCHANGED lock
    <3> DEFINE again == [Idle EXCEPT !.pc = "verify", !.op = "offer", !.tok = th[t].tok, !.ver = storeVer,
                                     !.retry = TRUE]
    <3>1. Idle.pc = "idle" /\ again.pc = "verify"
      BY DEF Idle
    <3> HIDE DEF again
    <3>2. th'[t] \in {Idle, again} \/ Done(t)
      BY <1>4, <2>2 DEF OfferAdopt, Become, TypeOK, again
    <3> QED BY <2>2, <3>1, <3>2, IdleStep, OutsideStep DEF Holding, Importing
  <2>3. CASE /\ Become(t, [th[t] EXCEPT !.pc = "put", !.nr = nr])
             /\ Acquire(t, c) /\ Present(mem, c) /\ mem[c].tok # th[t].tok
    <3>1. th'[t] = [th[t] EXCEPT !.pc = "put", !.nr = nr]
      BY <2>3 DEF Become, TypeOK
    <3>2. th'[t].pc = "put" /\ th'[t].c = c /\ th'[t].nr = nr
      BY <1>1, <3>1 DEF Thread
    <3>3. mem[c] \in Record
      BY <1>1, <2>3, TokenTypes
    <3>4. Change(mem[c], nr, th'[t].op)
      BY <1>1, <2>3, <3>3, ReplaceChanges
    <3>5. Free(c) /\ UNCHANGED mem
      BY <1>4 DEF OfferAdopt, storeVars
    <3> HIDE DEF nr
    <3> QED BY <1>1, <2>3, <3>2, <3>4, <3>5, CommitTaken
  <2> QED BY <1>4, <2>1, <2>2, <2>3 DEF OfferAdopt
<1>5. ASSUME NEW k \in held, Offer(t, k) PROVE MutexStep(t) /\ PendingStep(t)
  <2>1. th'[t].pc = "verify"
    BY <1>5 DEF Offer, Become, TypeOK, Idle
  <2> QED BY <1>5, <2>1, OutsideStep DEF Offer, volatile, Holding, Importing
<1> QED BY <1>2, <1>3, <1>4, <1>5

LEMMA AdminMutex ==
    ASSUME TypeOK, NEW t \in Threads,
           \/ AdminPutVerify(t) \/ AdminPutUnique(t) \/ AdminPutInstall(t) \/ AdminRefreshLocked(t)
           \/ \E c \in Creds : AdminRefresh(t, c) \/ Delete(t, c) \/ \E k \in held : AdminPut(t, c, k)
    PROVE  MutexStep(t) /\ (WorksOnStored(t) => PendingStep(t))
<1>1. th[t] \in Thread /\ th[t].c \in Creds
  BY DEF TypeOK, Thread
<1>2. WorksOnStored(t) /\ th[t].pc \in Importing => th[t].op = "import"
  BY DEF WorksOnStored
<1>3. CASE AdminPutVerify(t) \/ AdminPutUnique(t)
  <2>1. ASSUME NEW pc \in {"unique", "install"}, Goto(t, pc)
        PROVE  MutexStep(t) /\ (WorksOnStored(t) => PendingStep(t))
    <3>1. th'[t] = [th[t] EXCEPT !.pc = pc]
      BY <2>1 DEF Goto, Become, TypeOK
    <3>2. th'[t].pc = pc /\ th'[t].op = th[t].op
      BY <1>1, <3>1 DEF Thread
    <3>3. th[t].pc \in Importing /\ UNCHANGED lock
      BY <1>3 DEF AdminPutVerify, AdminPutUnique, At, Importing, volatile
    <3> QED BY <1>2, <3>2, <3>3 DEF MutexStep, PendingStep, Holding, Importing
  <2> QED BY <1>3, <2>1, IdleStep DEF AdminPutVerify, AdminPutUnique, volatile
<1>4. CASE AdminPutInstall(t)
  <2> DEFINE c == th[t].c
             nr == IF Present(mem, c) THEN Replace(mem[c], th[t].tok) ELSE Fresh(th[t].tok)
  <2>1. th'[t] = [th[t] EXCEPT !.pc = "put", !.nr = nr]
    BY <1>4 DEF AdminPutInstall, Become, TypeOK
  <2>2. th'[t].pc = "put" /\ th'[t].c = c /\ th'[t].op = th[t].op
    BY <1>1, <2>1 DEF Thread
  <2>3. Free(c) /\ Acquire(t, c) /\ UNCHANGED mem
    BY <1>4 DEF AdminPutInstall, storeVars
  <2>4. WorksOnStored(t) => th[t].op = "import"
    BY <1>2, <1>4 DEF AdminPutInstall, At, Importing
  <2> HIDE DEF nr
  <2>5. MutexStep(t)
    BY <1>1, <2>2, <2>3 DEF MutexStep, Acquire
  <2> QED BY <1>1, <2>2, <2>3, <2>4, <2>5, CommitTaken DEF Change
<1>5. CASE AdminRefreshLocked(t)
  <2>1. CASE Become(t, [th[t] EXCEPT !.pc = "refresh", !.rec = mem[th[t].c]])
             /\ Present(mem, th[t].c) /\ Acquire(t, th[t].c)
    <3>1. th'[t] = [th[t] EXCEPT !.pc = "refresh", !.rec = mem[th[t].c]]
      BY <2>1 DEF Become, TypeOK
    <3>2. th'[t].pc = "refresh" /\ th'[t].c = th[t].c /\ th'[t].rec = mem[th[t].c]
      BY <1>1, <3>1 DEF Thread
    <3> QED BY <1>1, <1>5, <2>1, <3>2, RefreshTaken DEF AdminRefreshLocked, storeVars
  <2>2. CASE Done(t) /\ UNCHANGED lock
    BY <2>2, IdleStep
  <2> QED BY <1>5, <2>1, <2>2 DEF AdminRefreshLocked
<1>6. ASSUME NEW c \in Creds, AdminRefresh(t, c) PROVE MutexStep(t) /\ PendingStep(t)
  <2>1. th'[t] = [Idle EXCEPT !.pc = "adminlock", !.op = "adminrefresh", !.c = c]
    BY <1>6 DEF AdminRefresh, Become, TypeOK
  <2>2. th'[t].pc = "adminlock"
    BY <2>1 DEF Idle
  <2> QED BY <1>6, <2>2, OutsideStep DEF AdminRefresh, volatile, Holding, Importing
<1>7. ASSUME NEW c \in Creds, NEW k \in held, AdminPut(t, c, k) PROVE MutexStep(t) /\ PendingStep(t)
  <2>1. th'[t] = [Idle EXCEPT !.pc = "verifyimport", !.op = "import", !.c = c, !.tok = k]
    BY <1>7 DEF AdminPut, Become, TypeOK
  <2>2. th'[t].pc = "verifyimport" /\ th'[t].op = "import"
    BY <2>1 DEF Idle
  <2> QED BY <1>7, <2>2, OutsideStep DEF AdminPut, volatile, Holding
<1>8. ASSUME NEW c \in Creds, Delete(t, c) PROVE MutexStep(t) /\ PendingStep(t)
  <2>1. th'[t].pc = "idle" /\ UNCHANGED lock
    BY <1>8 DEF Delete, Starts, At, volatile
  <2> QED BY <2>1, OutsideStep DEF Holding, Importing
<1> QED BY <1>3, <1>4, <1>5, <1>6, <1>7, <1>8

\* A step of one thread, and what it leaves alone.
LEMMA ThreadMoves ==
    ASSUME TypeOK, TokensIssued, NEW t \in Threads, Continue(t) \/ Begin(t)
    PROVE  MutexStep(t) /\ (WorksOnStored(t) => PendingStep(t)) /\ OtherThreads(t)
<1>1. CASE PutSaved(t) \/ PutUnsaved(t) \/ Bump(t)
  BY <1>1, CommitMutex, CommitWorld
<1>2. CASE RefreshOK(t) \/ RefreshDead(t) \/ RefreshTransient(t)
  BY <1>2, RefreshMutex, RefreshWorld
<1>3. CASE \/ EnsureFreshLocked(t) \/ ProbeCached(t) \/ ProbeCred(t) \/ Respond(t)
           \/ \E c \in Creds, op \in {"get", "probeget"} : Get(t, op, c)
  BY <1>3, ServeMutex, ServeWorld
<1>4. CASE \/ DeadProbe(t) \/ PollProfile(t) \/ PollConfirm(t)
           \/ TransitionHealth(t) \/ PollIfAged(t) \/ Reclaim(t)
           \/ \E c \in Creds : RefreshDue(t, c) \/ PollOne(t, c)
  BY <1>4, PollMutex, PollWorld
<1>5. CASE \/ OfferVerify(t) \/ OfferRoute(t) \/ OfferAdopt(t)
           \/ \E k \in held : Offer(t, k)
  BY <1>5, OfferMutex, OfferWorld
<1>6. CASE \/ AdminPutVerify(t) \/ AdminPutUnique(t) \/ AdminPutInstall(t) \/ AdminRefreshLocked(t)
           \/ \E c \in Creds : AdminRefresh(t, c) \/ Delete(t, c) \/ \E k \in held : AdminPut(t, c, k)
  BY <1>6, AdminMutex, AdminWorld
<1> QED BY <1>1, <1>2, <1>3, <1>4, <1>5, <1>6 DEF Continue, Begin

\* Threads move only while the process runs.
LEMMA ProcessRuns ==
    ASSUME NEW t \in Threads, Continue(t) \/ Begin(t)
    PROVE  up /\ up'
<1>1. up
  BY DEF Continue, Begin, At, Starts, PutSaved, PutUnsaved, Bump, RefreshOK, RefreshDead, RefreshTransient,
         EnsureFreshLocked, ProbeCached, ProbeCred, Respond, DeadProbe, PollProfile, PollConfirm,
         TransitionHealth, PollIfAged, Reclaim, OfferVerify, OfferRoute, OfferAdopt, AdminPutVerify,
         AdminPutUnique, AdminPutInstall, AdminRefreshLocked, Get, RefreshDue, PollOne, AdminRefresh,
         Delete, AdminPut, Offer
<1>2. UNCHANGED up
  BY DEF Continue, Begin, PutSaved, PutUnsaved, Bump, RefreshOK, RefreshDead, RefreshTransient,
         EnsureFreshLocked, ProbeCached, ProbeCred, Respond, DeadProbe, PollProfile, PollConfirm,
         TransitionHealth, PollIfAged, Reclaim, OfferVerify, OfferRoute, OfferAdopt, AdminPutVerify,
         AdminPutUnique, AdminPutInstall, AdminRefreshLocked, Get, RefreshDue, PollOne, AdminRefresh,
         Delete, AdminPut, Offer
<1> QED BY <1>1, <1>2

-----------------------------------------------------------------------------
(* Mutual exclusion.                                                       *)

\* Who refreshes or commits holds the mutex of its credential; a process that
\* is down runs no thread.
Exclusive ==
    /\ \A t \in Threads : th[t].pc \in Holding => lock[th[t].c] = t
    /\ ~up => \A t \in Threads : th[t].pc = "idle"

\* What the environment leaves alone: a crash ends the threads, a start finds
\* none.
LEMMA EnvironmentMoves ==
    ASSUME TypeOK, Environment
    PROVE  \/ UNCHANGED <<th, lock, up, mem>>
           \/ \A t \in Threads : th'[t].pc = "idle"
           \/ ~up /\ UNCHANGED <<th, lock>>
<1>1. CASE Crash
  BY <1>1 DEF Crash, Idle
<1>2. CASE Restart
  BY <1>2 DEF Restart, volatile
<1>3. CASE ~Crash /\ ~Restart
  BY <1>3 DEF Environment, ProbeExpires, BackoffEnds, GrowsOld, Tick, Upstream, storeVars, volatile
<1> QED BY <1>1, <1>2, <1>3

LEMMA ExclusiveStart == Init => Exclusive
  BY DEF Init, Exclusive, Holding, Idle

LEMMA ExclusiveStep ==
    ASSUME TypeOK, TokensIssued, Exclusive, [Next]_vars
    PROVE  Exclusive'
<1>1. CASE UNCHANGED vars
  BY <1>1 DEF Exclusive, vars
<1>2. CASE Environment
  BY <1>2, EnvironmentMoves DEF Exclusive, Holding
<1>3. ASSUME NEW t \in Threads, Continue(t) \/ Begin(t) PROVE Exclusive'
  <2>1. MutexStep(t) /\ OtherThreads(t) /\ up'
    BY <1>3, ThreadMoves, ProcessRuns
  <2>2. ASSUME NEW u \in Threads, th'[u].pc \in Holding PROVE lock'[th'[u].c] = u
    <3>1. lock \in [Creds -> Threads \cup {NoThread}] /\ th[u].c \in Creds /\ th[t].c \in Creds
      BY DEF TypeOK, Thread
    <3>2. th[u].pc \in Holding => lock[th[u].c] = u
      BY DEF Exclusive
    <3>3. th[t].pc \in Holding => lock[th[t].c] = t
      BY DEF Exclusive
    <3>4. CASE u = t
      BY <2>1, <2>2, <3>1, <3>2, <3>4 DEF MutexStep
    <3>5. CASE u # t
      <4>1. th'[u] = th[u] /\ lock[th[u].c] = u
        BY <2>1, <2>2, <3>2, <3>5 DEF OtherThreads
      <4>2. lock'[th[u].c] = lock[th[u].c]
        BY <2>1, <3>1, <3>3, <3>5, <4>1, BrokerAssumption DEF MutexStep, Free
      <4> QED BY <4>1, <4>2
    <3> QED BY <3>4, <3>5
  <2> QED BY <2>1, <2>2 DEF Exclusive
<1> QED BY <1>1, <1>2, <1>3 DEF Next

\* No two threads refresh or commit the same credential at a time, whatever
\* they do and whoever deletes, imports or crashes meanwhile.
THEOREM MutualExclusion ==
    Spec => [](\A t, u \in Threads : th[t].pc \in Holding /\ th[u].pc \in Holding /\ th[t].c = th[u].c => t = u)
<1>1. TypeOK /\ TokensIssued /\ Exclusive /\ [Next]_vars => Exclusive'
  BY ExclusiveStep
<1>2. Exclusive =>
        \A t, u \in Threads : th[t].pc \in Holding /\ th[u].pc \in Holding /\ th[t].c = th[u].c => t = u
  BY DEF Exclusive
<1> QED BY <1>1, <1>2, ExclusiveStart, TypeCorrect, TokensAreIssued, PTL DEF Spec

-----------------------------------------------------------------------------
(* The holder of a mutex works on the stored record, if it is still there. *)

\* The store changes by the commits of the holders of the mutex and by
\* deletions only.
LEMMA StoreMoves ==
    ASSUME NEW t \in Threads, Continue(t) \/ Begin(t)
    PROVE  \/ UNCHANGED mem
           \/ th[t].pc = "put" /\ mem' = [mem EXCEPT ![th[t].c] = Stored(t)]
           \/ \E c \in Creds : Delete(t, c)
<1>1. CASE PutSaved(t) \/ PutUnsaved(t)
  BY <1>1 DEF PutSaved, PutUnsaved, At
<1>2. CASE \E c \in Creds : Delete(t, c)
  BY <1>2
<1>3. CASE ~(PutSaved(t) \/ PutUnsaved(t)) /\ ~\E c \in Creds : Delete(t, c)
  BY <1>3 DEF Continue, Begin, Bump, RefreshOK, RefreshDead, RefreshTransient,
         EnsureFreshLocked, ProbeCached, ProbeCred, Respond, DeadProbe, PollProfile, PollConfirm,
         TransitionHealth, PollIfAged, Reclaim, OfferVerify, OfferRoute, OfferAdopt, AdminPutVerify,
         AdminPutUnique, AdminPutInstall, AdminRefreshLocked, Get, RefreshDue, PollOne, AdminRefresh,
         AdminPut, Offer, storeVars
<1> QED BY <1>1, <1>2, <1>3

CurrentWork == \A t \in Threads : WorksOnStored(t)

LEMMA CurrentStart == Init => CurrentWork
  BY DEF Init, CurrentWork, WorksOnStored, Importing, Idle

LEMMA CurrentStep ==
    ASSUME TypeOK, TokensIssued, Exclusive, CurrentWork, [Next]_vars
    PROVE  CurrentWork'
<1>1. CASE UNCHANGED vars
  BY <1>1 DEF CurrentWork, WorksOnStored, Present, vars
<1>2. CASE Environment
  <2>1. CASE UNCHANGED <<th, lock, up, mem>>
    BY <2>1 DEF CurrentWork, WorksOnStored, Present
  <2>2. CASE \A t \in Threads : th'[t].pc = "idle"
    BY <2>2 DEF CurrentWork, WorksOnStored, Importing
  <2>3. CASE ~up /\ UNCHANGED <<th, lock>>
    <3>1. \A t \in Threads : th'[t].pc = "idle"
      BY <2>3 DEF Exclusive
    <3> QED BY <3>1, <2>2
  <2> QED BY <1>2, <2>1, <2>2, <2>3, EnvironmentMoves
<1>3. ASSUME NEW t \in Threads, Continue(t) \/ Begin(t) PROVE CurrentWork'
  <2>1. PendingStep(t) /\ OtherThreads(t)
    BY <1>3, ThreadMoves DEF CurrentWork
  <2>2. ASSUME NEW u \in Threads PROVE WorksOnStored(u)'
    <3>1. CASE u = t
      BY <2>1, <3>1 DEF PendingStep, WorksOnStored, Present
    <3>2. CASE u # t
      <4>1. th'[u] = th[u] /\ WorksOnStored(u)
        BY <2>1, <3>2 DEF OtherThreads, CurrentWork
      <4>2. CASE UNCHANGED mem
        BY <4>1, <4>2 DEF WorksOnStored, Present
      <4>3. CASE th[t].pc = "put" /\ mem' = [mem EXCEPT ![th[t].c] = Stored(t)]
        <5>1. th[u].pc \in {"refresh", "put"} => th[u].c # th[t].c
          BY <3>2, <4>3 DEF Exclusive, Holding
        <5>2. th[u].c # th[t].c => mem'[th[u].c] = mem[th[u].c]
          <6>1. mem \in [Creds -> Record \cup {NoRecord}] /\ th[u].c \in Creds
            BY DEF TypeOK, Thread
          <6> QED BY <4>3, <6>1
        <5> QED BY <4>1, <5>1, <5>2 DEF WorksOnStored, Present
      <4>4. ASSUME NEW c \in Creds, Delete(t, c) PROVE WorksOnStored(u)'
        <5>1. mem \in [Creds -> Record \cup {NoRecord}] /\ th[u].c \in Creds
          BY DEF TypeOK, Thread
        <5>2. mem'[th[u].c] = mem[th[u].c] \/ mem'[th[u].c] = NoRecord
          BY <4>4, <5>1 DEF Delete
        <5> QED BY <4>1, <5>2 DEF WorksOnStored, Present
      <4> QED BY <1>3, <4>2, <4>3, <4>4, StoreMoves
    <3> QED BY <3>1, <3>2
  <2> QED BY <2>2 DEF CurrentWork
<1> QED BY <1>1, <1>2, <1>3 DEF Next

-----------------------------------------------------------------------------
(* Without deletions it is still there.                                    *)

\* No thread may delete a credential.
NoDeletion == \A t \in Threads : "delete" \notin Ops[t]

LEMMA OnlyCommits ==
    ASSUME NoDeletion, NEW t \in Threads, Continue(t) \/ Begin(t)
    PROVE  \/ UNCHANGED mem
           \/ th[t].pc = "put" /\ mem' = [mem EXCEPT ![th[t].c] = Stored(t)]
<1>1. ~\E c \in Creds : Delete(t, c)
  BY DEF Delete, Starts, NoDeletion
<1> QED BY <1>1, StoreMoves

\* What a thread refreshes is stored.
Refreshing(t) == th[t].pc = "refresh" => Present(mem, th[t].c)

StillStored == \A t \in Threads : Refreshing(t)

LEMMA StillStart == Init => StillStored
  BY DEF Init, StillStored, Refreshing, Idle

LEMMA StillStoredStep ==
    ASSUME NoDeletion, TypeOK, TokensIssued, Exclusive, CurrentWork, StillStored, [Next]_vars
    PROVE  StillStored'
<1>1. CASE UNCHANGED <<th, mem>>
  BY <1>1 DEF StillStored, Refreshing, Present
<1>2. CASE \A t \in Threads : th'[t].pc = "idle"
  BY <1>2 DEF StillStored, Refreshing
<1>3. CASE Environment
  BY <1>1, <1>2, <1>3, EnvironmentMoves DEF Exclusive
<1>4. ASSUME NEW t \in Threads, Continue(t) \/ Begin(t), NEW u \in Threads, th'[u].pc = "refresh"
      PROVE  mem'[th'[u].c] # NoRecord
  <2>1. PendingStep(t) /\ OtherThreads(t)
    BY <1>4, ThreadMoves DEF CurrentWork
  <2>2. CASE u = t
    BY <1>4, <2>1, <2>2 DEF PendingStep
  <2>3. CASE u # t
    <3>1. th'[u] = th[u] /\ mem[th[u].c] # NoRecord
      BY <1>4, <2>1, <2>3 DEF OtherThreads, StillStored, Refreshing, Present
    <3>2. CASE UNCHANGED mem
      BY <3>1, <3>2
    <3>3. CASE th[t].pc = "put" /\ mem' = [mem EXCEPT ![th[t].c] = Stored(t)]
      <4>1. th[u].c # th[t].c
        BY <1>4, <2>3, <3>1, <3>3 DEF Exclusive, Holding
      <4>2. mem \in [Creds -> Record \cup {NoRecord}] /\ th[u].c \in Creds
        BY DEF TypeOK, Thread
      <4> QED BY <3>1, <3>3, <4>1, <4>2
    <3> QED BY <1>4, <3>2, <3>3, OnlyCommits
  <2> QED BY <2>2, <2>3
<1>5. (\E t \in Threads : Continue(t) \/ Begin(t)) => StillStored'
  BY <1>4 DEF StillStored, Refreshing, Present
<1>6. CASE UNCHANGED vars
  BY <1>1, <1>6 DEF vars
<1> QED BY <1>3, <1>5, <1>6 DEF Next

\* Whoever is about to refresh or commit holds the mutex and works on the
\* record that is stored: nobody replays a refresh token that was spent in the
\* meantime, and no commit overwrites a record its thread has not read.
THEOREM PendingChanges ==
    ASSUME NoDeletion
    PROVE  Spec => []PendingChangeCurrent
<1>1. TypeOK /\ TokensIssued /\ Exclusive /\ [Next]_vars => Exclusive'
  BY ExclusiveStep
<1>2. TypeOK /\ TokensIssued /\ Exclusive /\ CurrentWork /\ [Next]_vars => CurrentWork'
  BY CurrentStep
<1>3. TypeOK /\ TokensIssued /\ Exclusive /\ CurrentWork /\ StillStored /\ [Next]_vars => StillStored'
  BY StillStoredStep
<1>4. Exclusive /\ CurrentWork /\ StillStored => PendingChangeCurrent
  BY DEF Exclusive, CurrentWork, WorksOnStored, StillStored, Refreshing, Change, Holding, PendingChangeCurrent
<1> QED BY <1>1, <1>2, <1>3, <1>4, ExclusiveStart, CurrentStart, StillStart, TypeCorrect, TokensAreIssued,
           PTL DEF Spec

-----------------------------------------------------------------------------
(* Generations grow.                                                       *)

SavesWork == "save" \notin FaultKinds

LEMMA SavedStart == Init => mem = disk
  BY DEF Init

\* A save that cannot fail leaves memory and file alike.
LEMMA SavedStep ==
    ASSUME SavesWork, mem = disk, [Next]_vars
    PROVE  mem' = disk'
<1>1. CASE Crash \/ Restart
  BY <1>1 DEF Crash, Restart, storeVars
<1>2. CASE Environment /\ ~Crash /\ ~Restart
  BY <1>2 DEF Environment, ProbeExpires, BackoffEnds, GrowsOld, Tick, Upstream, storeVars
<1>3. ASSUME NEW t \in Threads, Continue(t) \/ Begin(t) PROVE mem' = disk'
  <2>1. CASE PutSaved(t) \/ PutUnsaved(t)
    BY <2>1 DEF PutSaved, PutUnsaved, WriteThrough, Fault, SavesWork
  <2>2. CASE \E c \in Creds : Delete(t, c)
    BY <2>2 DEF Delete, WriteThrough, Fault, SavesWork
  <2>3. CASE ~(PutSaved(t) \/ PutUnsaved(t)) /\ ~\E c \in Creds : Delete(t, c)
    BY <1>3, <2>3 DEF Continue, Begin, Bump, RefreshOK, RefreshDead, RefreshTransient,
         EnsureFreshLocked, ProbeCached, ProbeCred, Respond, DeadProbe, PollProfile, PollConfirm,
         TransitionHealth, PollIfAged, Reclaim, OfferVerify, OfferRoute, OfferAdopt, AdminPutVerify,
         AdminPutUnique, AdminPutInstall, AdminRefreshLocked, Get, RefreshDue, PollOne, AdminRefresh,
         AdminPut, Offer, storeVars
  <2> QED BY <2>1, <2>2, <2>3
<1>4. CASE UNCHANGED vars
  BY <1>4 DEF vars
<1> QED BY <1>1, <1>2, <1>3, <1>4 DEF Next

\* A commit over a stored record takes a greater generation, whatever the
\* clock says.
LEMMA CommitGrows ==
    ASSUME TypeOK, NEW t \in Threads, Present(mem, th[t].c)
    PROVE  Stored(t).gen > mem[th[t].c].gen
<1>1. th[t].nr \in Record /\ mem[th[t].c] \in Record
  BY TokenTypes
<1>2. mem[th[t].c].gen \in Nat /\ now \in Nat
  BY <1>1 DEF Record, TypeOK
<1>3. NextGen(mem[th[t].c].gen) > mem[th[t].c].gen
  BY <1>2 DEF NextGen
<1>4. Stored(t).gen = NextGen(mem[th[t].c].gen)
  BY <1>1 DEF Stored, Record
<1> QED BY <1>3, <1>4

\* While saves work, every change of a record gives it a greater generation,
\* over crashes, restarts and any steps of the wall clock.
THEOREM GenerationsGrow ==
    ASSUME SavesWork
    PROVE  Spec => GenGrows
<1>1. mem = disk /\ [Next]_vars => (mem = disk)'
  BY SavedStep
<1>2. TypeOK /\ mem = disk /\ [Next]_vars =>
        [\A c \in Creds : Present(mem, c) /\ Present(mem', c) /\ mem[c] # mem'[c]
            => mem'[c].gen > mem[c].gen]_vars
  <2> SUFFICES ASSUME TypeOK, mem = disk, [Next]_vars, NEW c \in Creds,
                      mem[c] # NoRecord, mem'[c] # NoRecord, mem[c] # mem'[c]
               PROVE  mem'[c].gen > mem[c].gen
    BY DEF Present
  <2>1. PICK t \in Threads : th[t].c = c /\ mem'[c] = Stored(t)
    BY StepShape DEF StoreStep
  <2> QED BY <2>1, CommitGrows DEF Present
<1> QED BY <1>1, <1>2, SavedStart, TypeCorrect, PTL DEF Spec, GenGrows
=============================================================================
