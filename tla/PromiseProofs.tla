---------------------------- MODULE PromiseProofs ----------------------------
(***************************************************************************)
(* What the broker promises its clients: it implements CredSpec, every     *)
(* account has one credential, an acknowledged token is kept, a retired    *)
(* one does not return and no rotation is lost.                            *)
(*                                                                         *)
(* The argument for CredSpec: a thread that has read a record without the  *)
(* mutex goes on knowing the stored record as long as the generation is    *)
(* the same, since every change takes a greater one; so what a thread      *)
(* holds for a commit is a legal change of the stored record (Lawful),     *)
(* until it commits.  For the promises: where a thread comes from and what *)
(* it carries is described once (Moved); from it follows what each kind of *)
(* commit does to the record it replaces (Worked), and from that and what  *)
(* is known of the tokens the promises follow.                             *)
(***************************************************************************)
EXTENDS BrokerProofs

-----------------------------------------------------------------------------
(* CredSpec speaks of records by the operators of Records.                 *)

LEMMA SameWithout == ASSUME NEW ring, NEW k PROVE Lifecycles!Without(ring, k) = Without(ring, k)
  BY DEF Lifecycles!Without, Without

LEMMA SameRetire == ASSUME NEW ring, NEW k PROVE Lifecycles!RetireHash(ring, k) = RetireHash(ring, k)
  BY SameWithout DEF Lifecycles!RetireHash, RetireHash

LEMMA SameReplace == ASSUME NEW r, NEW k PROVE Lifecycles!Replace(r, k) = Replace(r, k)
  BY SameRetire DEF Lifecycles!Replace, Replace, Lifecycles!Owner, Owner

LEMMA SameHelpers ==
    /\ Lifecycles!Token = Token /\ Lifecycles!Record = Record /\ Lifecycles!Health = Health
    /\ \A l, i : Lifecycles!Tok(l, i) = Tok(l, i)
    /\ \A k : Lifecycles!Owner(k) = Owner(k) /\ Lifecycles!Fresh(k) = Fresh(k)
    /\ \A k, r : Lifecycles!InRing(k, r) <=> InRing(k, r)
    /\ \A s, c : Lifecycles!Present(s, c) <=> Present(s, c)
    /\ \A s : Lifecycles!UniqueAccounts(s) <=> UniqueAccounts(s)
  BY DEF Lifecycles!Token, Token, Lifecycles!Record, Record, Lifecycles!Health, Health, Lifecycles!Ring, Ring,
         Lifecycles!Tok, Tok, Lifecycles!Owner, Owner, Lifecycles!Fresh, Fresh, Lifecycles!InRing, InRing,
         Lifecycles!Present, Present, Lifecycles!UniqueAccounts, UniqueAccounts

-----------------------------------------------------------------------------
(* What a thread may hold, about the record old that the store has.        *)

MayImport == \E t \in Threads : "import" \in Ops[t]

\* Record nr is a legal successor of old.
LegalChange(old, nr) ==
    \/ /\ old # NoRecord
       /\ \E i \in old.tok.seq + 1 .. MaxSeq : nr = Replace(old, Tok(old.tok.lin, i))
    \/ /\ old # NoRecord
       /\ \E k \in Token : /\ Owner(k) = old.acct /\ k # old.tok /\ ~InRing(k, old)
                           /\ nr = Replace(old, k)
    \/ /\ old # NoRecord
       /\ \E h \in Health : <<old.health, h>> \in Lifecycles!LegalHealth /\ nr = [old EXCEPT !.health = h]
    \/ /\ MayImport
       /\ \E k \in Token : nr = IF old # NoRecord THEN Replace(old, k) ELSE Fresh(k)

\* Record r was stored, and is while the generation is the same.
Known(r, old) == old # NoRecord /\ r.gen <= old.gen /\ (r.gen = old.gen => r = old)

Polling == {"profile", "confirm"}

LawfulRecord(x, old) ==
    /\ x.pc \in Polling => Known(x.rec, old) /\ x.rec.health # "dead"
    /\ x.pc = "confirm" => x.rec.health = "ok"
    /\ x.pc = "transition" => \/ x.to = "ok"
                              \/ x.to = "suspect" /\ Known(x.rec, old) /\ x.rec.health = "ok"
    /\ x.pc = "adopt" => Known(x.rec, old) /\ x.rec.acct = Owner(x.tok) /\ ~InRing(x.tok, x.rec)
    /\ x.pc = "put" => LegalChange(old, x.nr)
    /\ x.pc \in Importing => MayImport

Lawful == \A t \in Threads : LawfulRecord(th[t], mem[th[t].c])

\* Most steps leave the thread where it holds nothing of the kind.
Plain == PCs \ (Polling \cup Importing \cup {"transition", "adopt", "put"})

LEMMA PlainLawful == ASSUME NEW x, x.pc \in Plain, NEW old PROVE LawfulRecord(x, old)
  BY DEF Plain, LawfulRecord, Polling

LEMMA IdlePlain == ASSUME TypeOK, NEW t \in Threads, Done(t) PROVE th'[t].pc \in Plain
<1>1. th'[t] = Idle /\ Idle.pc = "idle"
  BY DEF Done, Become, TypeOK, Idle
<1> QED BY <1>1 DEF Plain, PCs, Polling, Importing

LEMMA FinishPlain ==
    ASSUME TypeOK, NEW t \in Threads, NEW r, Finish(t, r)
    PROVE  th'[t].pc \in Plain
<1> DEFINE next(pc, x) == [Idle EXCEPT !.pc = pc, !.op = th[t].op, !.c = th[t].c, !.rec = x,
                                       !.flag = th[t].flag]
<1>1. \/ th'[t] = Idle
      \/ th'[t] = next("respond", r) \/ th'[t] = next("probe", r)
      \/ th'[t] = next("respond", [r EXCEPT !.health = "ok"]) \/ th'[t] = next("ifaged", Blank)
  BY DEF Finish, Become, TypeOK
<1>2. \A pc, x : next(pc, x).pc = pc
  BY DEF Idle
<1>3. Idle.pc = "idle"
  BY DEF Idle
<1> HIDE DEF next
<1> QED BY <1>1, <1>2, <1>3 DEF Plain, PCs, Polling, Importing

LEMMA GotoPlain ==
    ASSUME TypeOK, NEW t \in Threads, NEW x, NEW pc, x = [th[t] EXCEPT !.pc = pc], pc \in Plain
    PROVE  x.pc \in Plain
<1>1. th[t] \in Thread
  BY DEF TypeOK
<1> QED BY <1>1 DEF Thread

\* A record read now is known.
LEMMA KnownNow == ASSUME NEW r \in Record PROVE Known(r, r)
<1>1. r.gen \in Nat /\ r # NoRecord
  BY RecordsAssumption DEF Record
<1> QED BY <1>1 DEF Known

-----------------------------------------------------------------------------
(* The steps of a thread.                                                  *)

LEMMA CommitLawful ==
    ASSUME TypeOK, NEW t \in Threads, PutSaved(t) \/ PutUnsaved(t) \/ Bump(t)
    PROVE  th'[t].pc \in Plain
<1>1. CASE PutSaved(t)
  <2>1. th'[t] = [th[t] EXCEPT !.pc = "bump", !.nr = Stored(t)]
    BY <1>1 DEF PutSaved, Become, TypeOK
  <2>2. th[t] \in Thread
    BY DEF TypeOK
  <2>3. th'[t].pc = "bump"
    BY <2>1, <2>2 DEF Thread
  <2> QED BY <2>3 DEF Plain, PCs, Polling, Importing
<1>2. CASE PutUnsaved(t) \/ Bump(t)
  BY <1>2, FinishPlain DEF PutUnsaved, Bump
<1> QED BY <1>1, <1>2

LEMMA RefreshLawful ==
    ASSUME TypeOK, TokensIssued, NEW t \in Threads, WorksOnStored(t), Refreshing(t),
           RefreshOK(t) \/ RefreshDead(t) \/ RefreshTransient(t)
    PROVE  LawfulRecord(th'[t], mem[th'[t].c])
<1>1. /\ th[t] \in Thread /\ th[t].rec \in Record /\ th[t].rec.tok.lin \in Lineages
      /\ th[t].rec.tok \in Token
  BY DEF TypeOK, Thread, Record, Token
<1>2. th[t].pc = "refresh"
  BY DEF RefreshOK, RefreshDead, RefreshTransient, At
<1>3. mem[th[t].c] # NoRecord /\ th[t].rec = mem[th[t].c]
  BY <1>2 DEF WorksOnStored, Refreshing, Present
<1>4. ASSUME NEW nr, th'[t] = [th[t] EXCEPT !.pc = "put", !.nr = nr], LegalChange(th[t].rec, nr)
      PROVE  LawfulRecord(th'[t], mem[th'[t].c])
  <2>1. th'[t].pc = "put" /\ th'[t].c = th[t].c /\ th'[t].nr = nr
    BY <1>1, <1>4 DEF Thread
  <2> QED BY <1>3, <1>4, <2>1 DEF LawfulRecord, Polling, Importing
<1>5. CASE RefreshOK(t)
  <2> DEFINE l == th[t].rec.tok.lin
             k == Tok(l, latest'[l])
  <2>1. th'[t] = [th[t] EXCEPT !.pc = "put", !.nr = Replace(th[t].rec, k)]
    BY <1>5 DEF RefreshOK, Become, TypeOK
  <2>2. latest[l] < MaxSeq /\ latest'[l] = latest[l] + 1
    BY <1>1, <1>5 DEF RefreshOK, RefreshAnswer, Mint, TypeOK, OAuthTypeOK
  <2>3. latest[l] \in 1..MaxSeq
    BY <1>1 DEF TypeOK, OAuthTypeOK
  <2>4. th[t].rec.tok.seq <= latest[l] /\ th[t].rec.tok.seq \in 1..MaxSeq
    BY <1>1 DEF TokensIssued, Issued, Token
  <2>5. latest'[l] \in th[t].rec.tok.seq + 1 .. MaxSeq
    BY <2>2, <2>3, <2>4, TokensAssumption
  <2>6. LegalChange(th[t].rec, Replace(th[t].rec, k))
    BY <1>3, <2>5 DEF LegalChange
  <2> QED BY <1>4, <2>1, <2>6
<1>6. CASE RefreshDead(t)
  <2>1. th'[t] = [th[t] EXCEPT !.pc = "put", !.nr = [th[t].rec EXCEPT !.health = "dead"]]
    BY <1>6 DEF RefreshDead, Become, TypeOK
  <2>2. <<th[t].rec.health, "dead">> \in Lifecycles!LegalHealth
    <3>1. th[t].rec.health \in {"ok", "suspect", "dead"}
      BY <1>1 DEF Record, Health
    <3> QED BY <3>1 DEF Lifecycles!LegalHealth
  <2>3. LegalChange(th[t].rec, [th[t].rec EXCEPT !.health = "dead"])
    BY <1>3, <2>2 DEF LegalChange, Health
  <2> QED BY <1>4, <2>1, <2>3
<1>7. CASE RefreshTransient(t)
  BY <1>7, FinishPlain, PlainLawful DEF RefreshTransient
<1> QED BY <1>5, <1>6, <1>7

LEMMA ServeLawful ==
    ASSUME TypeOK, NEW t \in Threads,
           \/ EnsureFreshLocked(t) \/ ProbeCached(t) \/ ProbeCred(t) \/ Respond(t)
           \/ \E c \in Creds, op \in {"get", "probeget"} : Get(t, op, c)
    PROVE  LawfulRecord(th'[t], mem[th'[t].c])
<1>1. th[t] \in Thread
  BY DEF TypeOK
<1>2. CASE EnsureFreshLocked(t)
  <2>1. CASE th' = [th EXCEPT ![t] = [th[t] EXCEPT !.pc = "refresh", !.rec = Reread(t)]]
    <3>1. th'[t] = [th[t] EXCEPT !.pc = "refresh", !.rec = Reread(t)]
      BY <2>1 DEF TypeOK
    <3>2. th'[t].pc = "refresh"
      BY <1>1, <3>1 DEF Thread
    <3> QED BY <3>2, PlainLawful DEF Plain, PCs, Polling, Importing
  <2>2. CASE Finish(t, Reread(t)) \/ Done(t)
    BY <2>2, FinishPlain, IdlePlain, PlainLawful
  <2> QED BY <1>2, <2>1, <2>2 DEF EnsureFreshLocked, Become
<1>3. ASSUME NEW live, Probed(t, live) PROVE LawfulRecord(th'[t], mem[th'[t].c])
  <2>1. CASE th'[t] = [th[t] EXCEPT !.pc = "transition", !.op = "heal", !.to = "ok", !.flag = TRUE]
    <3>1. th'[t].pc = "transition" /\ th'[t].to = "ok"
      BY <1>1, <2>1 DEF Thread
    <3> QED BY <3>1 DEF LawfulRecord, Polling, Importing
  <2>2. CASE th'[t] = [th[t] EXCEPT !.pc = "respond", !.flag = live]
    <3>1. th'[t].pc = "respond"
      BY <1>1, <2>2 DEF Thread
    <3> QED BY <3>1, PlainLawful DEF Plain, PCs, Polling, Importing
  <2> QED BY <1>3, <2>1, <2>2 DEF Probed, Become, TypeOK
<1>4. CASE ProbeCached(t) \/ ProbeCred(t)
  BY <1>3, <1>4 DEF ProbeCached, ProbeCred
<1>5. CASE Respond(t)
  BY <1>5, IdlePlain, PlainLawful DEF Respond
<1>6. ASSUME NEW c \in Creds, NEW op \in {"get", "probeget"}, Get(t, op, c)
      PROVE  LawfulRecord(th'[t], mem[th'[t].c])
  <2>1. th'[t] = [Idle EXCEPT !.op = op, !.c = c, !.rec = mem[c],
                    !.pc = IF Due(mem[c]) THEN "lock" ELSE IF op = "get" THEN "respond" ELSE "probe"]
    BY <1>6 DEF Get, Become, TypeOK
  <2>2. th'[t].pc \in {"lock", "respond", "probe"}
    BY <2>1 DEF Idle
  <2> QED BY <2>2, PlainLawful DEF Plain, PCs, Polling, Importing
<1> QED BY <1>2, <1>4, <1>5, <1>6

LEMMA PollLawful ==
    ASSUME TypeOK, NEW t \in Threads, LawfulRecord(th[t], mem[th[t].c]),
           \/ DeadProbe(t) \/ PollProfile(t) \/ PollConfirm(t)
           \/ TransitionHealth(t) \/ PollIfAged(t) \/ Reclaim(t)
           \/ \E c \in Creds : RefreshDue(t, c) \/ PollOne(t, c)
    PROVE  LawfulRecord(th'[t], mem[th'[t].c])
<1>1. th[t] \in Thread /\ th[t].c \in Creds /\ th[t].rec.health \in {"ok", "suspect", "dead"}
  BY DEF TypeOK, Thread, Record, Health
<1>2. ASSUME NEW h, ToHealth(t, h)
      PROVE  th'[t].pc = "transition" /\ th'[t].to = h /\ th'[t].rec = th[t].rec /\ th'[t].c = th[t].c
  <2>1. th'[t] = [th[t] EXCEPT !.pc = "transition", !.to = h]
    BY <1>2 DEF ToHealth, Become, TypeOK
  <2> QED BY <1>1, <2>1 DEF Thread
<1>3. ASSUME NEW pc, Goto(t, pc)
      PROVE  th'[t].pc = pc /\ th'[t].rec = th[t].rec /\ th'[t].c = th[t].c
  <2>1. th'[t] = [th[t] EXCEPT !.pc = pc]
    BY <1>3 DEF Goto, Become, TypeOK
  <2> QED BY <1>1, <2>1 DEF Thread
<1>4. ASSUME ToHealth(t, "ok") PROVE LawfulRecord(th'[t], mem[th'[t].c])
  BY <1>2, <1>4 DEF LawfulRecord, Polling, Importing
<1>5. ASSUME Goto(t, "ifaged") PROVE LawfulRecord(th'[t], mem[th'[t].c])
  BY <1>3, <1>5, PlainLawful DEF Plain, PCs, Polling, Importing
<1>6. CASE DeadProbe(t)
  BY <1>4, <1>6, IdlePlain, PlainLawful DEF DeadProbe
<1>7. CASE PollProfile(t)
  <2>1. Known(th[t].rec, mem[th[t].c]) /\ th[t].rec.health # "dead"
    BY <1>7 DEF PollProfile, At, LawfulRecord, Polling
  <2>2. CASE Goto(t, "confirm") /\ th[t].rec.health # "suspect"
    BY <1>1, <1>3, <2>1, <2>2 DEF LawfulRecord, Polling, Importing
  <2> QED BY <1>4, <1>5, <1>7, <2>2 DEF PollProfile
<1>8. CASE PollConfirm(t)
  <2>1. Known(th[t].rec, mem[th[t].c]) /\ th[t].rec.health = "ok"
    BY <1>8 DEF PollConfirm, At, LawfulRecord, Polling
  <2>2. CASE ToHealth(t, "suspect")
    BY <1>2, <2>1, <2>2 DEF LawfulRecord, Polling, Importing
  <2> QED BY <1>5, <1>8, <2>2 DEF PollConfirm
<1>9. CASE TransitionHealth(t)
  <2> DEFINE c == th[t].c
             nr == [mem[c] EXCEPT !.health = th[t].to]
  <2>1. CASE EvidenceCurrent(t)
    <3>1. th'[t] = [th[t] EXCEPT !.pc = "put", !.nr = nr]
      BY <1>9, <2>1 DEF TransitionHealth, Become, TypeOK
    <3>2. th'[t].pc = "put" /\ th'[t].c = c /\ th'[t].nr = nr
      BY <1>1, <3>1 DEF Thread
    <3>3. /\ mem[c] # NoRecord /\ mem[c].health \in {"ok", "suspect", "dead"}
          /\ mem[c].health # th[t].to /\ mem[c].gen = th[t].rec.gen
      BY <1>1, <2>1, TokenTypes DEF EvidenceCurrent, Present, Record, Health
    <3>4. th[t].to = "ok" \/ (th[t].to = "suspect" /\ mem[c].health = "ok")
      BY <1>9, <3>3 DEF TransitionHealth, At, LawfulRecord, Known
    <3>5. <<mem[c].health, th[t].to>> \in Lifecycles!LegalHealth /\ th[t].to \in Health
      BY <3>3, <3>4 DEF Lifecycles!LegalHealth, Health
    <3>6. LegalChange(mem[c], nr)
      BY <3>3, <3>5 DEF LegalChange
    <3> QED BY <3>2, <3>6 DEF LawfulRecord, Polling, Importing
  <2>2. CASE ~EvidenceCurrent(t)
    BY <1>9, <2>2, FinishPlain, PlainLawful DEF TransitionHealth
  <2> QED BY <2>1, <2>2
<1>10. CASE PollIfAged(t)
  <2>1. CASE Become(t, [Idle EXCEPT !.pc = "reclaim", !.op = "reclaim", !.c = th[t].c])
    <3>1. th'[t].pc = "reclaim"
      BY <2>1 DEF Become, TypeOK, Idle
    <3> QED BY <3>1, PlainLawful DEF Plain, PCs, Polling, Importing
  <2> QED BY <1>10, <2>1, IdlePlain, PlainLawful DEF PollIfAged
<1>11. CASE Reclaim(t)
  <2>1. CASE Become(t, [th[t] EXCEPT !.pc = "refresh", !.rec = mem[th[t].c]])
    <3>1. th'[t] = [th[t] EXCEPT !.pc = "refresh", !.rec = mem[th[t].c]]
      BY <2>1 DEF Become, TypeOK
    <3>2. th'[t].pc = "refresh"
      BY <1>1, <3>1 DEF Thread
    <3> QED BY <3>2, PlainLawful DEF Plain, PCs, Polling, Importing
  <2> QED BY <1>11, <2>1, IdlePlain, PlainLawful DEF Reclaim
<1>12. ASSUME NEW c \in Creds, RefreshDue(t, c) PROVE LawfulRecord(th'[t], mem[th'[t].c])
  <2>1. th'[t].pc = "refresh"
    BY <1>12 DEF RefreshDue, Become, TypeOK, Idle
  <2> QED BY <2>1, PlainLawful DEF Plain, PCs, Polling, Importing
<1>13. ASSUME NEW c \in Creds, PollOne(t, c) PROVE LawfulRecord(th'[t], mem[th'[t].c])
  <2> DEFINE pc == IF mem[c].health = "dead" THEN "deadprobe" ELSE "profile"
             op == IF mem[c].health = "dead" THEN "deadpoll" ELSE "poll"
  <2>1. th'[t] = [Idle EXCEPT !.c = c, !.rec = mem[c], !.flag = Unexpired(mem[c].tok), !.pc = pc, !.op = op]
    BY <1>13 DEF PollOne, Become, TypeOK
  <2>2. th'[t].pc = pc /\ th'[t].c = c /\ th'[t].rec = mem[c]
    BY <2>1 DEF Idle
  <2>3. Known(mem[c], mem[c])
    BY <1>13, TokenTypes, KnownNow DEF PollOne
  <2>4. CASE mem[c].health = "dead"
    BY <2>2, <2>4, PlainLawful DEF Plain, PCs, Polling, Importing
  <2>5. CASE mem[c].health # "dead"
    BY <2>2, <2>3, <2>5 DEF LawfulRecord, Polling, Importing
  <2> QED BY <2>4, <2>5
<1> QED BY <1>6, <1>7, <1>8, <1>9, <1>10, <1>11, <1>12, <1>13

LEMMA OfferLawful ==
    ASSUME TypeOK, NEW t \in Threads, LawfulRecord(th[t], mem[th[t].c]),
           \/ OfferVerify(t) \/ OfferRoute(t) \/ OfferAdopt(t)
           \/ \E k \in held : Offer(t, k)
    PROVE  LawfulRecord(th'[t], mem[th'[t].c])
<1>1. th[t] \in Thread /\ th[t].c \in Creds /\ th[t].tok \in Token
  BY DEF TypeOK, Thread
<1>2. CASE OfferVerify(t)
  <2>1. CASE Goto(t, "route")
    <3>1. th'[t] = [th[t] EXCEPT !.pc = "route"]
      BY <2>1 DEF Goto, Become, TypeOK
    <3>2. th'[t].pc = "route"
      BY <1>1, <3>1 DEF Thread
    <3> QED BY <3>2, PlainLawful DEF Plain, PCs, Polling, Importing
  <2> QED BY <1>2, <2>1, IdlePlain, PlainLawful DEF OfferVerify
<1>3. CASE OfferRoute(t)
  <2>1. ASSUME NEW c, Managing(mem, Owner(th[t].tok)) = {c}, ~InRing(th[t].tok, mem[c]),
               Become(t, [th[t] EXCEPT !.pc = "adopt", !.c = c, !.rec = mem[c]])
        PROVE  LawfulRecord(th'[t], mem[th'[t].c])
    <3>1. th'[t] = [th[t] EXCEPT !.pc = "adopt", !.c = c, !.rec = mem[c]]
      BY <2>1 DEF Become, TypeOK
    <3>2. th'[t].pc = "adopt" /\ th'[t].c = c /\ th'[t].rec = mem[c] /\ th'[t].tok = th[t].tok
      BY <1>1, <3>1 DEF Thread
    <3>3. c \in Creds /\ Present(mem, c) /\ mem[c].acct = Owner(th[t].tok)
      BY <2>1 DEF Managing, TypeOK
    <3>4. Known(mem[c], mem[c])
      BY <3>3, TokenTypes, KnownNow
    <3> QED BY <2>1, <3>2, <3>3, <3>4 DEF LawfulRecord, Polling, Importing
  <2> QED BY <1>3, <2>1, IdlePlain, PlainLawful DEF OfferRoute
<1>4. CASE OfferAdopt(t)
  <2> DEFINE c == th[t].c
             nr == Replace(mem[c], th[t].tok)
             again == [Idle EXCEPT !.pc = "verify", !.op = "offer", !.tok = th[t].tok, !.ver = storeVer,
                                   !.retry = TRUE]
  <2>1. Idle.pc \in Plain /\ again.pc \in Plain
    BY DEF Idle, Plain, PCs, Polling, Importing
  <2>2. CASE /\ Become(t, [th[t] EXCEPT !.pc = "put", !.nr = nr])
             /\ Present(mem, c) /\ StoreUnchanged(t) /\ mem[c].tok # th[t].tok
    <3>1. th'[t] = [th[t] EXCEPT !.pc = "put", !.nr = nr]
      BY <2>2 DEF Become, TypeOK
    <3>2. th'[t].pc = "put" /\ th'[t].c = c /\ th'[t].nr = nr
      BY <1>1, <3>1 DEF Thread
    <3>3. /\ Known(th[t].rec, mem[c]) /\ th[t].rec.acct = Owner(th[t].tok)
          /\ ~InRing(th[t].tok, th[t].rec)
      BY <1>4 DEF OfferAdopt, At, LawfulRecord
    <3>4. th[t].rec = mem[c]
      BY <2>2, <3>3 DEF Known, StoreUnchanged
    <3>5. LegalChange(mem[c], nr)
      BY <1>1, <2>2, <3>3, <3>4 DEF LegalChange, Known
    <3> QED BY <3>2, <3>5 DEF LawfulRecord, Polling, Importing
  <2>3. CASE th'[t] \in {Idle, again} \/ Done(t)
    <3> HIDE DEF again
    <3> QED BY <2>1, <2>3, IdlePlain, PlainLawful
  <2> HIDE DEF nr
  <2> QED BY <1>4, <2>2, <2>3 DEF OfferAdopt, Become, TypeOK, nr
<1>5. ASSUME NEW k \in held, Offer(t, k) PROVE LawfulRecord(th'[t], mem[th'[t].c])
  <2>1. th'[t].pc = "verify"
    BY <1>5 DEF Offer, Become, TypeOK, Idle
  <2> QED BY <2>1, PlainLawful DEF Plain, PCs, Polling, Importing
<1> QED BY <1>2, <1>3, <1>4, <1>5

LEMMA AdminLawful ==
    ASSUME NoDeletion, TypeOK, NEW t \in Threads, LawfulRecord(th[t], mem[th[t].c]),
           \/ AdminPutVerify(t) \/ AdminPutUnique(t) \/ AdminPutInstall(t) \/ AdminRefreshLocked(t)
           \/ \E c \in Creds : AdminRefresh(t, c) \/ Delete(t, c) \/ \E k \in held : AdminPut(t, c, k)
    PROVE  LawfulRecord(th'[t], mem[th'[t].c])
<1>1. th[t] \in Thread /\ th[t].c \in Creds /\ th[t].tok \in Token
  BY DEF TypeOK, Thread
<1>2. th[t].pc \in Importing => MayImport
  BY DEF LawfulRecord
<1>3. ASSUME NEW pc \in {"unique", "install"}, Goto(t, pc), th[t].pc \in Importing
      PROVE  LawfulRecord(th'[t], mem[th'[t].c])
  <2>1. th'[t] = [th[t] EXCEPT !.pc = pc]
    BY <1>3 DEF Goto, Become, TypeOK
  <2>2. th'[t].pc = pc
    BY <1>1, <2>1 DEF Thread
  <2> QED BY <1>2, <1>3, <2>2 DEF LawfulRecord, Polling, Importing
<1>4. CASE AdminPutVerify(t) \/ AdminPutUnique(t)
  <2>1. th[t].pc \in Importing
    BY <1>4 DEF AdminPutVerify, AdminPutUnique, At, Importing
  <2> QED BY <1>3, <1>4, <2>1, IdlePlain, PlainLawful DEF AdminPutVerify, AdminPutUnique
<1>5. CASE AdminPutInstall(t)
  <2> DEFINE c == th[t].c
             nr == IF Present(mem, c) THEN Replace(mem[c], th[t].tok) ELSE Fresh(th[t].tok)
  <2>1. th'[t] = [th[t] EXCEPT !.pc = "put", !.nr = nr]
    BY <1>5 DEF AdminPutInstall, Become, TypeOK
  <2>2. th'[t].pc = "put" /\ th'[t].c = c /\ th'[t].nr = nr
    BY <1>1, <2>1 DEF Thread
  <2>3. MayImport
    BY <1>2, <1>5 DEF AdminPutInstall, At, Importing
  <2>4. LegalChange(mem[c], nr)
    BY <1>1, <2>3 DEF LegalChange, Present
  <2> HIDE DEF nr
  <2> QED BY <2>2, <2>4 DEF LawfulRecord, Polling, Importing
<1>6. CASE AdminRefreshLocked(t)
  <2>1. CASE Become(t, [th[t] EXCEPT !.pc = "refresh", !.rec = mem[th[t].c]])
    <3>1. th'[t] = [th[t] EXCEPT !.pc = "refresh", !.rec = mem[th[t].c]]
      BY <2>1 DEF Become, TypeOK
    <3>2. th'[t].pc = "refresh"
      BY <1>1, <3>1 DEF Thread
    <3> QED BY <3>2, PlainLawful DEF Plain, PCs, Polling, Importing
  <2> QED BY <1>6, <2>1, IdlePlain, PlainLawful DEF AdminRefreshLocked
<1>7. ASSUME NEW c \in Creds, AdminRefresh(t, c) PROVE LawfulRecord(th'[t], mem[th'[t].c])
  <2>1. th'[t].pc = "adminlock"
    BY <1>7 DEF AdminRefresh, Become, TypeOK, Idle
  <2> QED BY <2>1, PlainLawful DEF Plain, PCs, Polling, Importing
<1>8. ASSUME NEW c \in Creds, NEW k \in held, AdminPut(t, c, k) PROVE LawfulRecord(th'[t], mem[th'[t].c])
  <2>1. th'[t].pc = "verifyimport"
    BY <1>8 DEF AdminPut, Become, TypeOK, Idle
  <2>2. MayImport
    BY <1>8 DEF AdminPut, Starts, MayImport
  <2> QED BY <2>1, <2>2 DEF LawfulRecord, Polling, Importing
<1>9. ~\E c \in Creds : Delete(t, c)
  BY DEF Delete, Starts, NoDeletion
<1> QED BY <1>4, <1>5, <1>6, <1>7, <1>8, <1>9

LEMMA ThreadKeepsLaw ==
    ASSUME NoDeletion, TypeOK, TokensIssued, NEW t \in Threads, WorksOnStored(t), Refreshing(t),
           LawfulRecord(th[t], mem[th[t].c]), Continue(t) \/ Begin(t)
    PROVE  th'[t].pc \in Plain \/ LawfulRecord(th'[t], mem[th'[t].c])
<1>1. CASE PutSaved(t) \/ PutUnsaved(t) \/ Bump(t)
  BY <1>1, CommitLawful
<1>2. CASE RefreshOK(t) \/ RefreshDead(t) \/ RefreshTransient(t)
  BY <1>2, RefreshLawful
<1>3. CASE \/ EnsureFreshLocked(t) \/ ProbeCached(t) \/ ProbeCred(t) \/ Respond(t)
           \/ \E c \in Creds, op \in {"get", "probeget"} : Get(t, op, c)
  BY <1>3, ServeLawful
<1>4. CASE \/ DeadProbe(t) \/ PollProfile(t) \/ PollConfirm(t)
           \/ TransitionHealth(t) \/ PollIfAged(t) \/ Reclaim(t)
           \/ \E c \in Creds : RefreshDue(t, c) \/ PollOne(t, c)
  BY <1>4, PollLawful
<1>5. CASE \/ OfferVerify(t) \/ OfferRoute(t) \/ OfferAdopt(t)
           \/ \E k \in held : Offer(t, k)
  BY <1>5, OfferLawful
<1>6. CASE \/ AdminPutVerify(t) \/ AdminPutUnique(t) \/ AdminPutInstall(t) \/ AdminRefreshLocked(t)
           \/ \E c \in Creds : AdminRefresh(t, c) \/ Delete(t, c) \/ \E k \in held : AdminPut(t, c, k)
  BY <1>6, AdminLawful
<1> QED BY <1>1, <1>2, <1>3, <1>4, <1>5, <1>6 DEF Continue, Begin

\* A step that commits leaves its thread with nothing; any other leaves the
\* store alone.
LEMMA ThreadLawful ==
    ASSUME NoDeletion, TypeOK, TokensIssued, NEW t \in Threads, WorksOnStored(t), Refreshing(t),
           LawfulRecord(th[t], mem[th[t].c]), Continue(t) \/ Begin(t)
    PROVE  th'[t].pc \in Plain \/ (UNCHANGED mem /\ LawfulRecord(th'[t], mem[th'[t].c]))
<1>0. CASE ~(PutSaved(t) \/ PutUnsaved(t))
  <2>1. ~\E c \in Creds : Delete(t, c)
    BY DEF Delete, Starts, NoDeletion
  <2>2. UNCHANGED mem
    BY <1>0, <2>1
       DEF Continue, Begin, Bump, RefreshOK, RefreshDead, RefreshTransient,
           EnsureFreshLocked, ProbeCached, ProbeCred, Respond, DeadProbe, PollProfile, PollConfirm,
           TransitionHealth, PollIfAged, Reclaim, OfferVerify, OfferRoute, OfferAdopt, AdminPutVerify,
           AdminPutUnique, AdminPutInstall, AdminRefreshLocked, Get, RefreshDue, PollOne, AdminRefresh,
           AdminPut, Offer, storeVars
  <2> QED BY <1>0, <2>2, ThreadKeepsLaw
<1>1. CASE PutSaved(t) \/ PutUnsaved(t)
  BY <1>1, CommitLawful
<1> QED BY <1>0, <1>1

-----------------------------------------------------------------------------
(* Lawful is invariant.                                                    *)

LEMMA LawfulStart == Init => Lawful
<1>1. Idle.pc \in Plain
  BY DEF Idle, Plain, PCs, Polling, Importing
<1> QED BY <1>1, PlainLawful DEF Init, Lawful

\* What another thread knows of a record survives a commit: the generation
\* has grown.  Nobody else is about to commit the same credential.
LEMMA OthersLawful ==
    ASSUME TypeOK, Exclusive, NEW t \in Threads, NEW u \in Threads, u # t, th'[u] = th[u],
           th[t].pc = "put", mem' = [mem EXCEPT ![th[t].c] = Stored(t)],
           LawfulRecord(th[u], mem[th[u].c])
    PROVE  LawfulRecord(th'[u], mem'[th'[u].c])
<1>1. /\ th[t].c \in Creds /\ th[u].c \in Creds /\ th[u].rec \in Record
      /\ mem \in [Creds -> Record \cup {NoRecord}]
  BY DEF TypeOK, Thread
<1>2. CASE th[u].c # th[t].c
  <2>1. mem'[th[u].c] = mem[th[u].c]
    BY <1>1, <1>2
  <2> QED BY <2>1
<1>3. CASE th[u].c = th[t].c
  <2> DEFINE old == mem[th[u].c]
             new == Stored(t)
  <2>1. mem'[th[u].c] = new
    BY <1>1, <1>3
  <2>2. th[u].pc # "put"
    BY <1>3 DEF Exclusive, Holding
  <2>3. ASSUME Known(th[u].rec, old) PROVE Known(th[u].rec, new)
    <3>1. old \in Record /\ new \in Record /\ new # NoRecord
      BY <1>1, <2>3, StoredType, RecordsAssumption DEF Known
    <3>2. new.gen > old.gen
      BY <1>3, <2>3, CommitGrows DEF Known, Present
    <3>3. old.gen \in Nat /\ new.gen \in Nat /\ th[u].rec.gen \in Nat
      BY <1>1, <3>1 DEF Record
    <3> HIDE DEF old, new
    <3>4. th[u].rec.gen <= old.gen
      BY <2>3 DEF Known
    <3>5. th[u].rec.gen < new.gen
      BY <3>2, <3>3, <3>4
    <3> QED BY <3>1, <3>3, <3>5 DEF Known
  <2> HIDE DEF new
  <2> QED BY <2>1, <2>2, <2>3 DEF LawfulRecord
<1> QED BY <1>2, <1>3

LEMMA LawfulStep ==
    ASSUME NoDeletion, TypeOK, TokensIssued, Exclusive, CurrentWork, StillStored, Lawful, [Next]_vars
    PROVE  Lawful'
<1>0. "idle" \in Plain
  BY DEF Plain, PCs, Polling, Importing
<1>1. CASE UNCHANGED vars
  BY <1>1 DEF Lawful, vars
<1>2. CASE Environment
  <2>1. CASE UNCHANGED <<th, lock, up, mem>>
    BY <2>1 DEF Lawful
  <2>2. CASE \A t \in Threads : th'[t].pc = "idle"
    BY <1>0, <2>2, PlainLawful DEF Lawful
  <2>3. CASE ~up /\ UNCHANGED <<th, lock>>
    <3>1. \A t \in Threads : th'[t].pc = "idle"
      BY <2>3 DEF Exclusive
    <3> QED BY <3>1, <2>2
  <2> QED BY <1>2, <2>1, <2>2, <2>3, EnvironmentMoves
<1>3. ASSUME NEW t \in Threads, Continue(t) \/ Begin(t), NEW u \in Threads
      PROVE  LawfulRecord(th'[u], mem'[th'[u].c])
  <2>1. OtherThreads(t)
    BY <1>3, ThreadMoves DEF CurrentWork
  <2>2. CASE u = t
    BY <1>3, <2>2, ThreadLawful, PlainLawful DEF Lawful, CurrentWork, StillStored
  <2>3. CASE u # t
    <3>1. th'[u] = th[u] /\ LawfulRecord(th[u], mem[th[u].c])
      BY <2>1, <2>3 DEF OtherThreads, Lawful
    <3>2. CASE UNCHANGED mem
      BY <3>1, <3>2
    <3>3. CASE th[t].pc = "put" /\ mem' = [mem EXCEPT ![th[t].c] = Stored(t)]
      BY <2>3, <3>1, <3>3, OthersLawful
    <3> QED BY <1>3, <3>2, <3>3, OnlyCommits
  <2> QED BY <2>2, <2>3
<1> QED BY <1>1, <1>2, <1>3 DEF Next, Lawful

\* Whatever happens to the store, a thread holds its mutex and works on the
\* record it has read under it.
LEMMA MutexHolds == Spec => [](TypeOK /\ TokensIssued /\ Exclusive /\ CurrentWork)
<1>1. TypeOK /\ TokensIssued /\ Exclusive /\ [Next]_vars => Exclusive'
  BY ExclusiveStep
<1>2. TypeOK /\ TokensIssued /\ Exclusive /\ CurrentWork /\ [Next]_vars => CurrentWork'
  BY CurrentStep
<1> QED BY <1>1, <1>2, ExclusiveStart, CurrentStart, TypeCorrect, TokensAreIssued, PTL DEF Spec

LEMMA LawfulHolds ==
    ASSUME NoDeletion
    PROVE  Spec => [](StillStored /\ Lawful)
<1>1. TypeOK /\ TokensIssued /\ Exclusive /\ CurrentWork /\ StillStored /\ [Next]_vars => StillStored'
  BY StillStoredStep
<1>2. TypeOK /\ TokensIssued /\ Exclusive /\ CurrentWork /\ StillStored /\ Lawful /\ [Next]_vars => Lawful'
  BY LawfulStep
<1> QED BY <1>1, <1>2, StillStart, LawfulStart, MutexHolds, PTL DEF Spec

-----------------------------------------------------------------------------
(* A commit is a step of CredSpec.                                         *)

LEMMA CommitRefines ==
    ASSUME TypeOK, NEW t \in Threads, mem' = [mem EXCEPT ![th[t].c] = Stored(t)],
           LegalChange(mem[th[t].c], th[t].nr)
    PROVE  Lifecycles!Next
<1> DEFINE c == th[t].c
           old == mem[c]
           nr == th[t].nr
           g == Stored(t).gen
<1>1. /\ c \in Creds /\ mem \in [Creds -> Record \cup {NoRecord}]
      /\ old \in Record \cup {NoRecord} /\ nr \in Record
  BY DEF TypeOK, Thread
<1>2. Stored(t) \in Record /\ Stored(t) # NoRecord /\ g \in Nat
  <2>1. Stored(t) \in Record
    BY StoredType
  <2> QED BY <2>1, RecordsAssumption DEF Record
<1>3. Stored(t) = [nr EXCEPT !.gen = g]
  BY <1>1 DEF Stored, Record
<1>4. old # NoRecord => g > old.gen
  BY CommitGrows DEF Present
<1>5. mem'[c] = Stored(t)
  BY <1>1
<1>6. Lifecycles!Becomes(c, nr)
  BY <1>1, <1>2, <1>3, <1>4, <1>5, SameHelpers DEF Lifecycles!Becomes, Present
<1>7. ASSUME old # NoRecord, NEW i \in old.tok.seq + 1 .. MaxSeq, nr = Replace(old, Tok(old.tok.lin, i))
      PROVE  Lifecycles!Rotate(c)
  BY <1>6, <1>7, SameHelpers, SameReplace DEF Lifecycles!Rotate, Present
<1>8. ASSUME old # NoRecord, NEW k \in Token, Owner(k) = old.acct, k # old.tok, ~InRing(k, old),
             nr = Replace(old, k)
      PROVE  Lifecycles!Adopt(c)
  BY <1>6, <1>8, SameHelpers, SameReplace DEF Lifecycles!Adopt, Present
<1>9. ASSUME old # NoRecord, NEW h \in Health, <<old.health, h>> \in Lifecycles!LegalHealth,
             nr = [old EXCEPT !.health = h]
      PROVE  Lifecycles!Mark(c, h)
  BY <1>6, <1>9, SameHelpers DEF Lifecycles!Mark, Present
<1>10. ASSUME MayImport, NEW k \in Token, nr = IF old # NoRecord THEN Replace(old, k) ELSE Fresh(k)
       PROVE  Lifecycles!Import(c)
  BY <1>6, <1>10, SameHelpers, SameReplace DEF Lifecycles!Import, Present, MayImport
<1> HIDE DEF old, nr, g
<1>11. \/ Lifecycles!Rotate(c) \/ Lifecycles!Adopt(c) \/ Lifecycles!Import(c)
       \/ \E h \in Health : Lifecycles!Mark(c, h)
  BY <1>7, <1>8, <1>9, <1>10 DEF LegalChange, old, nr
<1>12. mem'[c] # mem[c]
  <2>1. old \in Record => old.gen \in Nat /\ g # old.gen
    BY <1>1, <1>2, <1>4, RecordsAssumption DEF Record, old
  <2> QED BY <1>1, <1>2, <1>5, <2>1 DEF old, g
<1> QED BY <1>1, <1>11, <1>12, SameHelpers DEF Lifecycles!Next

\* While saves work and nobody deletes, the concurrent broker implements
\* CredSpec: for any number of threads, credentials and logins, over crashes,
\* restarts, lost answers and steps of the clock, the store changes by legal
\* and atomic changes only.
THEOREM Refinement ==
    ASSUME NoDeletion, SavesWork
    PROVE  Spec => ImplementsCredSpec
<1>1. mem = disk /\ [Next]_vars => (mem = disk)'
  BY SavedStep
<1>2. Init => Lifecycles!Init
  <2> SUFFICES ASSUME Init PROVE Lifecycles!Init
    OBVIOUS
  <2>1. mem \in [Creds -> Record \cup {NoRecord}]
    BY TypesStart DEF TypeOK
  <2>2. UniqueAccounts(mem)
    BY DEF Init
  <2> QED BY <2>1, <2>2, SameHelpers DEF Lifecycles!Init
<1>3. TypeOK /\ mem = disk /\ Lawful /\ [Next]_vars => [Lifecycles!Next]_mem
  <2> SUFFICES ASSUME TypeOK, mem = disk, Lawful, [Next]_vars
               PROVE  Lifecycles!Next \/ UNCHANGED mem
    OBVIOUS
  <2>1. CASE UNCHANGED vars
    BY <2>1 DEF vars
  <2>2. CASE Environment
    BY <2>2 DEF Environment, ProbeExpires, BackoffEnds, GrowsOld, Crash, Restart, Tick, Upstream, storeVars
  <2>3. ASSUME NEW t \in Threads, Continue(t) \/ Begin(t) PROVE Lifecycles!Next \/ UNCHANGED mem
    <3>1. CASE th[t].pc = "put" /\ mem' = [mem EXCEPT ![th[t].c] = Stored(t)]
      <4>1. LegalChange(mem[th[t].c], th[t].nr)
        BY <3>1 DEF Lawful, LawfulRecord
      <4> QED BY <3>1, <4>1, CommitRefines
    <3> QED BY <2>3, <3>1, OnlyCommits
  <2> QED BY <2>1, <2>2, <2>3 DEF Next
<1> QED BY <1>1, <1>2, <1>3, LawfulHolds, SavedStart, TypeCorrect, PTL
        DEF Spec, ImplementsCredSpec, Lifecycles!Spec

-----------------------------------------------------------------------------
(* A credential is suspected on evidence about the token it still has.     *)

\* At most one fluke: one refusal of a token that lives.
OneFluke == MaxFaults <= 1 \/ "fluke" \notin FaultKinds

SuspectsProven ==
    /\ \A c \in Creds : Present(mem, c) /\ mem[c].health = "suspect" => ~Live(mem[c].tok)
    /\ \A c \in Creds : Present(disk, c) /\ disk[c].health = "suspect" => ~Live(disk[c].tok)
    /\ \A t \in Threads :
        LET x == th[t] IN
        /\ x.nr.health = "suspect" => ~Live(x.nr.tok)
        /\ x.pc = "transition" /\ x.to = "suspect" => ~Live(x.rec.tok)
        /\ x.pc = "confirm" => ~Live(x.rec.tok) \/ (faults >= 1 /\ "fluke" \in FaultKinds)

LEMMA SuspectsStart == Init => SuspectsProven
<1> SUFFICES ASSUME Init PROVE SuspectsProven
  OBVIOUS
<1>1. \A l \in Lineages : Fresh(Tok(l, 1)).health = "ok"
  BY DEF Fresh
<1>2. Idle.pc = "idle" /\ Idle.nr.health = "ok"
  BY DEF Idle, Blank, Fresh
<1>3. \A t \in Threads : th[t] = Idle
  BY DEF Init
<1>4. \A c \in Creds : disk[c] = mem[c] /\ (Present(mem, c) => mem[c] \in {Fresh(Tok(l, 1)) : l \in Lineages})
  BY DEF Init, Present
<1> QED BY <1>1, <1>2, <1>3, <1>4 DEF SuspectsProven, Present

LEMMA SuspectsStep ==
    ASSUME OneFluke, TypeOK, TypeOK', TokensIssued, Lawful, SuspectsProven, [Next]_vars
    PROVE  SuspectsProven'
<1>1. UpstreamStep /\ StoreStep /\ \A t \in Threads : ThreadStep(t)
  BY StepShape
<1>2. \A k \in Token : Issued(k) /\ ~Live(k) => ~LiveNext(k)
  BY <1>1, UpstreamGrows
<1>3. \A c \in Creds : /\ mem'[c] # NoRecord /\ mem'[c].health = "suspect" => ~LiveNext(mem'[c].tok)
                       /\ disk'[c] # NoRecord /\ disk'[c].health = "suspect" => ~LiveNext(disk'[c].tok)
  BY <1>1, <1>2, StoreSource, TokenTypes DEF TokensIssued, SuspectsProven, Present
<1>4. ASSUME NEW t \in Threads
      PROVE  /\ th'[t].nr.health = "suspect" => ~LiveNext(th'[t].nr.tok)
             /\ th'[t].pc = "transition" /\ th'[t].to = "suspect" => ~LiveNext(th'[t].rec.tok)
             /\ th'[t].pc = "confirm" => ~LiveNext(th'[t].rec.tok) \/ (faults' >= 1 /\ "fluke" \in FaultKinds)
  <2>1. /\ th[t].rec.tok \in Token /\ th[t].nr.tok \in Token
        /\ Issued(th[t].rec.tok) /\ Issued(th[t].nr.tok)
    BY TokenTypes DEF TokensIssued
  <2>2. faults \in Nat /\ faults' \in Nat /\ faults <= faults' /\ MaxFaults \in Nat
    BY <1>1, OAuthAssumption DEF UpstreamStep, TypeOK, OAuthTypeOK
  <2>3. ASSUME th[t].pc = "transition", th[t].to = "suspect", EvidenceCurrent(t)
        PROVE  ~Live(mem[th[t].c].tok)
    <3>1. Known(th[t].rec, mem[th[t].c])
      BY <2>3 DEF Lawful, LawfulRecord
    <3>2. th[t].rec = mem[th[t].c]
      BY <2>3, <3>1 DEF Known, EvidenceCurrent
    <3> QED BY <2>3, <3>2 DEF SuspectsProven
  <2>4. ASSUME th'[t].nr.health = "suspect" PROVE ~LiveNext(th'[t].nr.tok)
    <3>1. CASE th'[t].nr.tok = th[t].nr.tok /\ th'[t].nr.health = th[t].nr.health
      BY <1>2, <2>1, <2>4, <3>1 DEF SuspectsProven
    <3>2. CASE /\ th[t].pc = "transition" /\ EvidenceCurrent(t)
               /\ th'[t].nr.health = th[t].to /\ th'[t].nr.tok = mem[th[t].c].tok
      <4>1. mem[th[t].c].tok \in Token /\ Issued(mem[th[t].c].tok)
        BY <3>2, TokenTypes DEF EvidenceCurrent, TokensIssued
      <4> QED BY <1>2, <2>3, <2>4, <3>2, <4>1
    <3> QED BY <1>1, <2>4, <3>1, <3>2 DEF ThreadStep, NrSource
  <2>5. ASSUME th'[t].pc = "transition", th'[t].to = "suspect" PROVE ~LiveNext(th'[t].rec.tok)
    <3>1. th'[t].rec = th[t].rec
      BY <1>1, <2>5 DEF ThreadStep, EvidenceSource
    <3>2. CASE th[t].pc = "transition" /\ th[t].to = "suspect"
      BY <1>2, <2>1, <3>1, <3>2 DEF SuspectsProven
    <3>3. CASE th[t].pc = "confirm" /\ Refused(t)
      <4>1. ~Live(th[t].rec.tok) \/ (faults >= 1 /\ "fluke" \in FaultKinds)
        BY <3>3 DEF SuspectsProven
      <4>2. ~Live(th[t].rec.tok) \/ (faults < MaxFaults /\ "fluke" \in FaultKinds)
        BY <3>3 DEF Refused
      <4>3. ~Live(th[t].rec.tok)
        BY <2>2, <4>1, <4>2 DEF OneFluke
      <4> QED BY <1>2, <2>1, <3>1, <4>3
    <3> QED BY <1>1, <2>5, <3>2, <3>3 DEF ThreadStep, EvidenceSource
  <2>6. ASSUME th'[t].pc = "confirm"
        PROVE  ~LiveNext(th'[t].rec.tok) \/ (faults' >= 1 /\ "fluke" \in FaultKinds)
    <3>1. th'[t].rec = th[t].rec
      BY <1>1, <2>6 DEF ThreadStep, EvidenceSource
    <3>2. ~Live(th[t].rec.tok) \/ (faults' >= 1 /\ "fluke" \in FaultKinds)
      <4>1. CASE th[t].pc = "confirm"
        BY <2>2, <4>1 DEF SuspectsProven
      <4>2. CASE Refused(t)
        BY <2>2, <4>2 DEF Refused
      <4> QED BY <1>1, <2>6, <4>1, <4>2 DEF ThreadStep, EvidenceSource
    <3> QED BY <1>2, <2>1, <3>1, <3>2
  <2> QED BY <2>4, <2>5, <2>6
<1> QED BY <1>3, <1>4 DEF SuspectsProven, Present, Live, LiveNext, Superseded, Unexpired, Issued, IssuedNext

\* With at most one fluke, a credential is suspect only when its access token
\* really is of no use: polls, self-heals, refreshes and offers may overtake
\* each other, crash and fail to save as they like, evidence about a token
\* that was replaced meanwhile is never held against the new one.
THEOREM SuspicionProven ==
    ASSUME NoDeletion, OneFluke
    PROVE  Spec => []SuspectMeansNotLive
<1>1. TypeOK /\ TypeOK' /\ TokensIssued /\ Lawful /\ SuspectsProven /\ [Next]_vars => SuspectsProven'
  BY SuspectsStep
<1>2. SuspectsProven => SuspectMeansNotLive
  BY DEF SuspectsProven, SuspectMeansNotLive
<1> QED BY <1>1, <1>2, SuspectsStart, LawfulHolds, TypeCorrect, TokensAreIssued, PTL DEF Spec

-----------------------------------------------------------------------------
(* Threads: where they come from, what they carry, what they commit.       *)

Offering == {"verify", "route", "adopt"}
Busy == Offering \cup Importing \cup {"put", "bump"}
Entrusted == {"offer", "import"}

\* A thread handles an offer: it read the version when it began, verified the
\* token, and was routed to the credential of the account, whose ring does not
\* have the token.
OfferMove(t) ==
    LET x == th[t]
        y == th'[t]
        same == y.op = x.op /\ y.tok = x.tok /\ y.ver = x.ver
    IN  /\ y.pc = "verify" => y.op = "offer" /\ y.ver = storeVer /\ ("offer" \in Ops[t] \/ x.pc = "adopt")
        /\ y.pc = "route" => x.pc = "verify" /\ same /\ Live(y.tok)
        /\ y.pc = "adopt" => /\ x.pc = "route" /\ same /\ UNCHANGED mem
                             /\ y.c \in Creds /\ Present(mem, y.c) /\ y.rec = mem[y.c]
                             /\ y.rec.acct = Owner(y.tok) /\ ~InRing(y.tok, y.rec)

\* A thread handles an import.
ImportMove(t) ==
    LET x == th[t]
        y == th'[t]
        same == y.op = x.op /\ y.tok = x.tok /\ y.c = x.c
    IN  /\ y.pc = "verifyimport" => y.op = "import" /\ "import" \in Ops[t]
        /\ y.pc = "unique" => x.pc = "verifyimport" /\ same
        /\ y.pc = "install" => x.pc = "unique" /\ same /\ AccountFree(t)

\* Where what is to be committed comes from.
PutMove(t) ==
    LET x == th[t]
        y == th'[t]
        old == mem[x.c]
        l == x.rec.tok.lin
    IN  y.pc = "put" =>
          /\ y.op = x.op /\ y.tok = x.tok /\ y.c = x.c /\ UNCHANGED mem
          /\ \/ x.pc = "refresh" /\ y.nr = Replace(x.rec, Tok(l, latest'[l]))
                /\ latest'[l] = latest[l] + 1 /\ latest'[l] <= MaxSeq
             \/ x.pc = "refresh" /\ y.nr = [x.rec EXCEPT !.health = "dead"]
             \/ x.pc = "transition" /\ Present(mem, x.c) /\ y.nr = [old EXCEPT !.health = x.to]
             \/ /\ x.pc = "adopt" /\ Free(x.c) /\ Present(mem, x.c) /\ StoreUnchanged(t)
                /\ old.tok # x.tok /\ y.nr = Replace(old, x.tok)
             \/ /\ x.pc = "install" /\ Free(x.c)
                /\ y.nr = IF Present(mem, x.c) THEN Replace(old, x.tok) ELSE Fresh(x.tok)

SaveMove(t) ==
    LET x == th[t]
        y == th'[t]
    IN  y.pc = "bump" =>
          /\ x.pc = "put" /\ y.op = x.op /\ y.tok = x.tok /\ y.c = x.c /\ y.nr = Stored(t)
          /\ mem' = [mem EXCEPT ![x.c] = Stored(t)]

\* Only an offer or an import says that it is one.
OpMove(t) ==
    LET x == th[t]
        y == th'[t]
    IN  y.pc \notin Busy => y.op \notin Entrusted \/ (y.op = x.op /\ x.pc \notin Busy)

Moved(t) == OfferMove(t) /\ ImportMove(t) /\ PutMove(t) /\ SaveMove(t) /\ OpMove(t)

LEMMA QuietMoved ==
    ASSUME NEW t \in Threads, th'[t].pc \notin Busy,
           th'[t].op \notin Entrusted \/ (th'[t].op = th[t].op /\ th[t].pc \notin Busy)
    PROVE  Moved(t)
  BY DEF Moved, OfferMove, ImportMove, PutMove, SaveMove, OpMove, Busy, Offering, Importing

LEMMA IdleMoved ==
    ASSUME TypeOK, NEW t \in Threads, Done(t)
    PROVE  Moved(t)
<1>1. th'[t] = Idle /\ Idle.pc = "idle" /\ Idle.op = "none"
  BY DEF Done, Become, TypeOK, Idle
<1> QED BY <1>1, QuietMoved DEF Busy, Offering, Importing, Entrusted

LEMMA FinishMoved ==
    ASSUME TypeOK, NEW t \in Threads, NEW r, Finish(t, r)
    PROVE  Moved(t)
<1> DEFINE next(pc, x) == [Idle EXCEPT !.pc = pc, !.op = th[t].op, !.c = th[t].c, !.rec = x,
                                       !.flag = th[t].flag]
<1>1. \/ th'[t] = Idle
      \/ /\ th[t].op \in {"get", "probeget", "heal", "poll"}
         /\ \E pc \in {"respond", "probe", "ifaged"}, x \in {r, [r EXCEPT !.health = "ok"], Blank} :
                th'[t] = next(pc, x)
  BY DEF Finish, Become, TypeOK
<1>2. \A pc, x : next(pc, x).pc = pc /\ next(pc, x).op = th[t].op
  BY DEF Idle
<1>3. Idle.pc = "idle" /\ Idle.op = "none"
  BY DEF Idle
<1> HIDE DEF next
<1> QED BY <1>1, <1>2, <1>3, QuietMoved DEF Busy, Offering, Importing, Entrusted

\* A thread that goes on with what it was doing.
LEMMA GotoMoved ==
    ASSUME TypeOK, NEW t \in Threads, NEW pc \in PCs \ Busy, th[t].pc \notin Busy,
           Goto(t, pc) \/ \E h : th'[t] = [th[t] EXCEPT !.pc = pc, !.to = h]
    PROVE  Moved(t)
<1>1. th'[t] = [th[t] EXCEPT !.pc = pc] \/ \E h : th'[t] = [th[t] EXCEPT !.pc = pc, !.to = h]
  BY DEF Goto, Become, TypeOK
<1>2. th[t] \in Thread
  BY DEF TypeOK
<1>3. th'[t].pc = pc /\ th'[t].op = th[t].op
  BY <1>1, <1>2 DEF Thread
<1> QED BY <1>3, QuietMoved

LEMMA CommitMoved ==
    ASSUME TypeOK, NEW t \in Threads, PutSaved(t) \/ PutUnsaved(t) \/ Bump(t)
    PROVE  Moved(t)
<1>1. CASE PutSaved(t)
  <2>1. th'[t] = [th[t] EXCEPT !.pc = "bump", !.nr = Stored(t)]
    BY <1>1 DEF PutSaved, Become, TypeOK
  <2>2. th[t] \in Thread
    BY DEF TypeOK
  <2>3. /\ th'[t].pc = "bump" /\ th'[t].op = th[t].op /\ th'[t].c = th[t].c
        /\ th'[t].tok = th[t].tok /\ th'[t].nr = Stored(t)
    BY <2>1, <2>2 DEF Thread
  <2> QED BY <1>1, <2>3
         DEF PutSaved, At, Moved, OfferMove, ImportMove, PutMove, SaveMove, OpMove, Busy, Offering, Importing
<1>2. CASE PutUnsaved(t) \/ Bump(t)
  BY <1>2, FinishMoved DEF PutUnsaved, Bump
<1> QED BY <1>1, <1>2

\* A thread that comes to commit nr.
LEMMA PutMoved ==
    ASSUME TypeOK, NEW t \in Threads, NEW nr, Become(t, [th[t] EXCEPT !.pc = "put", !.nr = nr]), UNCHANGED mem
    PROVE  /\ th'[t].pc = "put" /\ th'[t].nr = nr
           /\ PutMove(t) => Moved(t)
<1>1. th'[t] = [th[t] EXCEPT !.pc = "put", !.nr = nr]
  BY DEF Become, TypeOK
<1>2. th[t] \in Thread
  BY DEF TypeOK
<1>3. /\ th'[t].pc = "put" /\ th'[t].op = th[t].op /\ th'[t].c = th[t].c
      /\ th'[t].tok = th[t].tok /\ th'[t].nr = nr
  BY <1>1, <1>2 DEF Thread
<1> QED BY <1>3 DEF Moved, OfferMove, ImportMove, SaveMove, OpMove, Busy, Offering, Importing

LEMMA PutCarries ==
    ASSUME TypeOK, NEW t \in Threads, NEW nr, Become(t, [th[t] EXCEPT !.pc = "put", !.nr = nr])
    PROVE  th'[t].op = th[t].op /\ th'[t].c = th[t].c /\ th'[t].tok = th[t].tok
<1>1. th'[t] = [th[t] EXCEPT !.pc = "put", !.nr = nr]
  BY DEF Become, TypeOK
<1>2. th[t] \in Thread
  BY DEF TypeOK
<1> QED BY <1>1, <1>2 DEF Thread

LEMMA ReplaceFields ==
    ASSUME NEW r \in Record, NEW k \in Token
    PROVE  /\ Replace(r, k) \in Record /\ Replace(r, k).tok = k /\ Replace(r, k).acct = Owner(k)
           /\ Replace(r, k).health = "ok" /\ Replace(r, k).ring = RetireHash(r.ring, r.tok)
<1>1. Replace(r, k) \in Record
  BY ReplaceType
<1>2. /\ Replace(r, k).tok = k /\ Replace(r, k).acct = Owner(k)
      /\ Replace(r, k).health = "ok" /\ Replace(r, k).ring = RetireHash(r.ring, r.tok)
  BY DEF Replace, Record
<1> QED BY <1>1, <1>2

\* A mint gives the next pair of the lineage, within the bound.
LEMMA MintGives ==
    ASSUME NEW l \in Lineages, latest \in [Lineages -> 1..MaxSeq], Mint(l)
    PROVE  latest'[l] = latest[l] + 1 /\ latest'[l] <= MaxSeq
<1>1. latest[l] \in 1..MaxSeq /\ latest[l] < MaxSeq /\ MaxSeq \in Nat
  BY TokensAssumption DEF Mint
<1>2. latest'[l] = latest[l] + 1
  BY DEF Mint
<1> QED BY <1>1, <1>2

LEMMA MintedPair ==
    ASSUME NEW r \in Record, latest \in [Lineages -> 1..MaxSeq],
           NEW k, k = Replace(r, Tok(r.tok.lin, latest'[r.tok.lin])).tok,
           latest'[r.tok.lin] = latest[r.tok.lin] + 1, latest'[r.tok.lin] <= MaxSeq
    PROVE  k \in Token /\ k.lin = r.tok.lin /\ k.seq = latest'[r.tok.lin] /\ ~Issued(k)
<1> DEFINE l == r.tok.lin
<1>1. l \in Lineages
  BY DEF Record, Token
<1> HIDE DEF l
<1>2. latest[l] \in 1..MaxSeq /\ MaxSeq \in Nat
  BY <1>1, TokensAssumption
<1>3. latest'[l] \in 1..MaxSeq /\ latest'[l] > latest[l]
  BY <1>2 DEF l
<1>4. Tok(l, latest'[l]) \in Token
  BY <1>1, <1>3, TokType
<1>5. k = Tok(l, latest'[l])
  BY <1>4, ReplaceFields DEF l
<1>6. k.lin = l /\ k.seq = latest'[l]
  BY <1>5 DEF Tok
<1>7. ~Issued(k)
  <2>1. ~(latest'[l] <= latest[l])
    BY <1>2, <1>3
  <2> QED BY <1>6, <2>1 DEF Issued
<1> QED BY <1>4, <1>5, <1>6, <1>7 DEF l

LEMMA RefreshMoved ==
    ASSUME TypeOK, NEW t \in Threads, RefreshOK(t) \/ RefreshDead(t) \/ RefreshTransient(t)
    PROVE  Moved(t)
<1>1. CASE RefreshOK(t)
  <2> DEFINE l == th[t].rec.tok.lin
             nr == Replace(th[t].rec, Tok(l, latest'[l]))
  <2>1. Become(t, [th[t] EXCEPT !.pc = "put", !.nr = nr]) /\ UNCHANGED mem /\ th[t].pc = "refresh"
    BY <1>1 DEF RefreshOK, At, storeVars
  <2>2. l \in Lineages /\ latest \in [Lineages -> 1..MaxSeq]
    BY DEF TypeOK, OAuthTypeOK, Thread, Record, Token
  <2>3. Mint(l)
    BY <1>1 DEF RefreshOK, RefreshAnswer
  <2>4. latest'[l] = latest[l] + 1 /\ latest'[l] <= MaxSeq
    BY <2>2, <2>3, MintGives
  <2> HIDE DEF nr
  <2>5. PutMove(t)
    BY <2>1, <2>4, PutMoved, PutCarries DEF PutMove, nr
  <2> QED BY <2>1, <2>5, PutMoved
<1>2. CASE RefreshDead(t)
  <2> DEFINE nr == [th[t].rec EXCEPT !.health = "dead"]
  <2>1. Become(t, [th[t] EXCEPT !.pc = "put", !.nr = nr]) /\ UNCHANGED mem /\ th[t].pc = "refresh"
    BY <1>2 DEF RefreshDead, At, storeVars
  <2> HIDE DEF nr
  <2>2. PutMove(t)
    BY <2>1, PutMoved, PutCarries DEF PutMove, nr
  <2> QED BY <2>1, <2>2, PutMoved
<1>3. CASE RefreshTransient(t)
  BY <1>3, FinishMoved DEF RefreshTransient
<1> QED BY <1>1, <1>2, <1>3

LEMMA ServeMoved ==
    ASSUME TypeOK, NEW t \in Threads,
           \/ EnsureFreshLocked(t) \/ ProbeCached(t) \/ ProbeCred(t) \/ Respond(t)
           \/ \E c \in Creds, op \in {"get", "probeget"} : Get(t, op, c)
    PROVE  Moved(t)
<1>1. th[t] \in Thread
  BY DEF TypeOK
<1>2. CASE EnsureFreshLocked(t)
  <2>1. CASE th' = [th EXCEPT ![t] = [th[t] EXCEPT !.pc = "refresh", !.rec = Reread(t)]]
    <3>1. th'[t] = [th[t] EXCEPT !.pc = "refresh", !.rec = Reread(t)]
      BY <2>1 DEF TypeOK
    <3>2. th'[t].pc = "refresh" /\ th'[t].op = th[t].op /\ th[t].pc = "lock"
      BY <1>1, <1>2, <3>1 DEF Thread, EnsureFreshLocked, At
    <3> QED BY <3>2, QuietMoved DEF Busy, Offering, Importing
  <2>2. CASE Finish(t, Reread(t)) \/ Done(t)
    BY <2>2, FinishMoved, IdleMoved
  <2> QED BY <1>2, <2>1, <2>2 DEF EnsureFreshLocked, Become
<1>3. ASSUME NEW live, Probed(t, live), th[t].pc = "probe" PROVE Moved(t)
  <2>1. CASE th'[t] = [th[t] EXCEPT !.pc = "transition", !.op = "heal", !.to = "ok", !.flag = TRUE]
    <3>1. th'[t].pc = "transition" /\ th'[t].op = "heal"
      BY <1>1, <2>1 DEF Thread
    <3> QED BY <3>1, QuietMoved DEF Busy, Offering, Importing, Entrusted
  <2>2. CASE th'[t] = [th[t] EXCEPT !.pc = "respond", !.flag = live]
    <3>1. th'[t].pc = "respond" /\ th'[t].op = th[t].op
      BY <1>1, <2>2 DEF Thread
    <3> QED BY <1>3, <3>1, QuietMoved DEF Busy, Offering, Importing
  <2> QED BY <1>3, <2>1, <2>2 DEF Probed, Become, TypeOK
<1>4. CASE ProbeCached(t) \/ ProbeCred(t)
  BY <1>3, <1>4 DEF ProbeCached, ProbeCred, At
<1>5. CASE Respond(t)
  BY <1>5, IdleMoved DEF Respond
<1>6. ASSUME NEW c \in Creds, NEW op \in {"get", "probeget"}, Get(t, op, c) PROVE Moved(t)
  <2>1. th'[t] = [Idle EXCEPT !.op = op, !.c = c, !.rec = mem[c],
                    !.pc = IF Due(mem[c]) THEN "lock" ELSE IF op = "get" THEN "respond" ELSE "probe"]
    BY <1>6 DEF Get, Become, TypeOK
  <2>2. th'[t].pc \in {"lock", "respond", "probe"} /\ th'[t].op = op
    BY <2>1 DEF Idle
  <2> QED BY <2>2, QuietMoved DEF Busy, Offering, Importing, Entrusted
<1> QED BY <1>2, <1>4, <1>5, <1>6

LEMMA PollMoved ==
    ASSUME TypeOK, NEW t \in Threads,
           \/ DeadProbe(t) \/ PollProfile(t) \/ PollConfirm(t)
           \/ TransitionHealth(t) \/ PollIfAged(t) \/ Reclaim(t)
           \/ \E c \in Creds : RefreshDue(t, c) \/ PollOne(t, c)
    PROVE  Moved(t)
<1>1. th[t] \in Thread
  BY DEF TypeOK
<1>2. ASSUME NEW pc \in {"confirm", "ifaged"}, Goto(t, pc), th[t].pc \in {"profile", "confirm"} PROVE Moved(t)
  BY <1>2, GotoMoved DEF PCs, Busy, Offering, Importing
<1>3. ASSUME NEW h, ToHealth(t, h), th[t].pc \in {"deadprobe", "profile", "confirm"} PROVE Moved(t)
  <2>1. th'[t] = [th[t] EXCEPT !.pc = "transition", !.to = h]
    BY <1>3 DEF ToHealth, Become, TypeOK
  <2> QED BY <1>3, <2>1, GotoMoved DEF PCs, Busy, Offering, Importing
<1>4. CASE DeadProbe(t)
  BY <1>3, <1>4, IdleMoved DEF DeadProbe, At
<1>5. CASE PollProfile(t) \/ PollConfirm(t)
  BY <1>2, <1>3, <1>5 DEF PollProfile, PollConfirm, At
<1>6. CASE TransitionHealth(t)
  <2> DEFINE nr == [mem[th[t].c] EXCEPT !.health = th[t].to]
  <2>1. CASE EvidenceCurrent(t)
    <3>1. Become(t, [th[t] EXCEPT !.pc = "put", !.nr = nr]) /\ UNCHANGED mem /\ th[t].pc = "transition"
      BY <1>6, <2>1 DEF TransitionHealth, At, storeVars
    <3> HIDE DEF nr
    <3>2. PutMove(t)
      BY <2>1, <3>1, PutMoved, PutCarries DEF PutMove, nr, EvidenceCurrent
    <3> QED BY <3>1, <3>2, PutMoved
  <2>2. CASE ~EvidenceCurrent(t)
    BY <1>6, <2>2, FinishMoved DEF TransitionHealth
  <2> QED BY <2>1, <2>2
<1>7. CASE PollIfAged(t)
  <2>1. CASE Become(t, [Idle EXCEPT !.pc = "reclaim", !.op = "reclaim", !.c = th[t].c])
    <3>1. th'[t].pc = "reclaim" /\ th'[t].op = "reclaim"
      BY <2>1 DEF Become, TypeOK, Idle
    <3> QED BY <3>1, QuietMoved DEF Busy, Offering, Importing, Entrusted
  <2> QED BY <1>7, <2>1, IdleMoved DEF PollIfAged
<1>8. CASE Reclaim(t)
  <2>1. CASE Become(t, [th[t] EXCEPT !.pc = "refresh", !.rec = mem[th[t].c]])
    <3>1. th'[t] = [th[t] EXCEPT !.pc = "refresh", !.rec = mem[th[t].c]]
      BY <2>1 DEF Become, TypeOK
    <3>2. th'[t].pc = "refresh" /\ th'[t].op = th[t].op /\ th[t].pc = "reclaim"
      BY <1>1, <1>8, <3>1 DEF Thread, Reclaim, At
    <3> QED BY <3>2, QuietMoved DEF Busy, Offering, Importing
  <2> QED BY <1>8, <2>1, IdleMoved DEF Reclaim
<1>9. ASSUME NEW c \in Creds, RefreshDue(t, c) PROVE Moved(t)
  <2>1. th'[t].pc = "refresh" /\ th'[t].op = "loop"
    BY <1>9 DEF RefreshDue, Become, TypeOK, Idle
  <2> QED BY <2>1, QuietMoved DEF Busy, Offering, Importing, Entrusted
<1>10. ASSUME NEW c \in Creds, PollOne(t, c) PROVE Moved(t)
  <2>1. th'[t].pc \in {"deadprobe", "profile"} /\ th'[t].op \in {"deadpoll", "poll"}
    BY <1>10 DEF PollOne, Become, TypeOK, Idle
  <2> QED BY <2>1, QuietMoved DEF Busy, Offering, Importing, Entrusted
<1> QED BY <1>4, <1>5, <1>6, <1>7, <1>8, <1>9, <1>10

LEMMA OfferMoved ==
    ASSUME TypeOK, NEW t \in Threads,
           \/ OfferVerify(t) \/ OfferRoute(t) \/ OfferAdopt(t)
           \/ \E k \in held : Offer(t, k)
    PROVE  Moved(t)
<1>1. th[t] \in Thread
  BY DEF TypeOK
<1> USE DEF Moved, OfferMove, ImportMove, PutMove, SaveMove, OpMove, Busy, Offering, Importing
<1>2. CASE OfferVerify(t)
  <2>1. CASE Goto(t, "route") /\ Live(th[t].tok)
    <3>1. th'[t] = [th[t] EXCEPT !.pc = "route"]
      BY <2>1 DEF Goto, Become, TypeOK
    <3>2. /\ th'[t].pc = "route" /\ th'[t].op = th[t].op /\ th'[t].tok = th[t].tok
          /\ th'[t].ver = th[t].ver /\ th[t].pc = "verify"
      BY <1>1, <1>2, <3>1 DEF Thread, OfferVerify, At
    <3> QED BY <2>1, <3>2
  <2>2. CASE Done(t)
    BY <2>2, IdleMoved
  <2> QED BY <1>2, <2>1, <2>2 DEF OfferVerify, ProfileAnswer
<1>3. CASE OfferRoute(t)
  <2>1. ASSUME NEW c \in Managing(mem, Owner(th[t].tok)), ~InRing(th[t].tok, mem[c]),
               Become(t, [th[t] EXCEPT !.pc = "adopt", !.c = c, !.rec = mem[c]])
        PROVE  Moved(t)
    <3>1. th'[t] = [th[t] EXCEPT !.pc = "adopt", !.c = c, !.rec = mem[c]]
      BY <2>1 DEF Become, TypeOK
    <3>2. /\ th'[t].pc = "adopt" /\ th'[t].op = th[t].op /\ th'[t].tok = th[t].tok
          /\ th'[t].ver = th[t].ver /\ th[t].pc = "route" /\ th'[t].c = c /\ th'[t].rec = mem[c]
      BY <1>1, <1>3, <3>1 DEF Thread, OfferRoute, At
    <3>3. mem[c].acct = Owner(th[t].tok) /\ UNCHANGED mem /\ Present(mem, c) /\ c \in Creds
      BY <1>3, <2>1 DEF Managing, OfferRoute, storeVars, TypeOK
    <3> QED BY <2>1, <3>2, <3>3
  <2> QED BY <1>3, <2>1, IdleMoved DEF OfferRoute
<1>4. CASE OfferAdopt(t)
  <2> DEFINE c == th[t].c
             nr == Replace(mem[c], th[t].tok)
             again == [Idle EXCEPT !.pc = "verify", !.op = "offer", !.tok = th[t].tok, !.ver = storeVer,
                                   !.retry = TRUE]
  <2>1. th[t].pc = "adopt" /\ Free(c) /\ UNCHANGED mem
    BY <1>4 DEF OfferAdopt, At, storeVars
  <2>2. CASE th'[t] = again
    <3>1. again.pc = "verify" /\ again.op = "offer" /\ again.ver = storeVer
      BY DEF Idle
    <3> HIDE DEF again
    <3> QED BY <2>1, <2>2, <3>1
  <2>3. CASE /\ Become(t, [th[t] EXCEPT !.pc = "put", !.nr = nr])
             /\ Present(mem, c) /\ StoreUnchanged(t) /\ mem[c].tok # th[t].tok
    <3> HIDE DEF nr, Moved, OfferMove, ImportMove, PutMove, SaveMove, OpMove
    <3>1. PutMove(t)
      BY <2>1, <2>3, PutMoved, PutCarries DEF PutMove, nr
    <3> QED BY <2>1, <2>3, <3>1, PutMoved
  <2>4. CASE Done(t) \/ Become(t, Idle)
    BY <2>4, IdleMoved DEF Done
  <2> HIDE DEF nr
  <2>5. CASE Become(t, again)
    BY <2>2, <2>5 DEF Become, TypeOK
  <2> HIDE DEF again
  <2> QED BY <1>4, <2>3, <2>4, <2>5 DEF OfferAdopt, nr, again
<1>5. ASSUME NEW k \in held, Offer(t, k) PROVE Moved(t)
  <2>1. th'[t].pc = "verify" /\ th'[t].op = "offer" /\ th'[t].ver = storeVer /\ "offer" \in Ops[t]
    BY <1>5 DEF Offer, Starts, Become, TypeOK, Idle
  <2> QED BY <2>1
<1> QED BY <1>2, <1>3, <1>4, <1>5

LEMMA AdminMoved ==
    ASSUME TypeOK, NEW t \in Threads,
           \/ AdminPutVerify(t) \/ AdminPutUnique(t) \/ AdminPutInstall(t) \/ AdminRefreshLocked(t)
           \/ \E c \in Creds : AdminRefresh(t, c) \/ Delete(t, c) \/ \E k \in held : AdminPut(t, c, k)
    PROVE  Moved(t)
<1>1. th[t] \in Thread
  BY DEF TypeOK
<1>2. ASSUME NEW pc \in {"unique", "install"}, Goto(t, pc)
      PROVE  th'[t].pc = pc /\ th'[t].op = th[t].op /\ th'[t].tok = th[t].tok /\ th'[t].c = th[t].c
  <2>1. th'[t] = [th[t] EXCEPT !.pc = pc]
    BY <1>2 DEF Goto, Become, TypeOK
  <2> QED BY <1>1, <2>1 DEF Thread
<1>3. CASE AdminPutVerify(t)
  <2>1. CASE Goto(t, "unique")
    BY <1>2, <1>3, <2>1 DEF AdminPutVerify, At, Moved, OfferMove, ImportMove, PutMove, SaveMove, OpMove,
                            Busy, Offering, Importing
  <2> QED BY <1>3, <2>1, IdleMoved DEF AdminPutVerify
<1>4. CASE AdminPutUnique(t)
  <2>1. CASE Goto(t, "install") /\ AccountFree(t)
    BY <1>2, <1>4, <2>1 DEF AdminPutUnique, At, Moved, OfferMove, ImportMove, PutMove, SaveMove, OpMove,
                            Busy, Offering, Importing
  <2> QED BY <1>4, <2>1, IdleMoved DEF AdminPutUnique
<1>5. CASE AdminPutInstall(t)
  <2> DEFINE c == th[t].c
             nr == IF Present(mem, c) THEN Replace(mem[c], th[t].tok) ELSE Fresh(th[t].tok)
  <2>1. Become(t, [th[t] EXCEPT !.pc = "put", !.nr = nr]) /\ UNCHANGED mem /\ th[t].pc = "install" /\ Free(c)
    BY <1>5 DEF AdminPutInstall, At, storeVars
  <2> HIDE DEF nr
  <2>2. PutMove(t)
    BY <2>1, PutMoved, PutCarries DEF PutMove, nr
  <2> QED BY <2>1, <2>2, PutMoved
<1>6. CASE AdminRefreshLocked(t)
  <2>1. CASE Become(t, [th[t] EXCEPT !.pc = "refresh", !.rec = mem[th[t].c]])
    <3>1. th'[t] = [th[t] EXCEPT !.pc = "refresh", !.rec = mem[th[t].c]]
      BY <2>1 DEF Become, TypeOK
    <3>2. th'[t].pc = "refresh" /\ th'[t].op = th[t].op /\ th[t].pc = "adminlock"
      BY <1>1, <1>6, <3>1 DEF Thread, AdminRefreshLocked, At
    <3> QED BY <3>2, QuietMoved DEF Busy, Offering, Importing
  <2> QED BY <1>6, <2>1, IdleMoved DEF AdminRefreshLocked
<1>7. ASSUME NEW c \in Creds, AdminRefresh(t, c) PROVE Moved(t)
  <2>1. th'[t].pc = "adminlock" /\ th'[t].op = "adminrefresh"
    BY <1>7 DEF AdminRefresh, Become, TypeOK, Idle
  <2> QED BY <2>1, QuietMoved DEF Busy, Offering, Importing, Entrusted
<1>8. ASSUME NEW c \in Creds, Delete(t, c) PROVE Moved(t)
  <2>1. th'[t] = th[t] /\ th[t].pc = "idle"
    BY <1>8 DEF Delete, Starts, At
  <2> QED BY <2>1, QuietMoved DEF Busy, Offering, Importing
<1>9. ASSUME NEW c \in Creds, NEW k \in held, AdminPut(t, c, k) PROVE Moved(t)
  <2>1. th'[t].pc = "verifyimport" /\ th'[t].op = "import" /\ "import" \in Ops[t]
    BY <1>9 DEF AdminPut, Starts, Become, TypeOK, Idle
  <2> QED BY <2>1 DEF Moved, OfferMove, ImportMove, PutMove, SaveMove, OpMove, Busy, Offering, Importing
<1> QED BY <1>3, <1>4, <1>5, <1>6, <1>7, <1>8, <1>9

LEMMA AllMoved ==
    ASSUME TypeOK, NEW t \in Threads, Continue(t) \/ Begin(t)
    PROVE  Moved(t)
<1>1. CASE PutSaved(t) \/ PutUnsaved(t) \/ Bump(t)
  BY <1>1, CommitMoved
<1>2. CASE RefreshOK(t) \/ RefreshDead(t) \/ RefreshTransient(t)
  BY <1>2, RefreshMoved
<1>3. CASE \/ EnsureFreshLocked(t) \/ ProbeCached(t) \/ ProbeCred(t) \/ Respond(t)
           \/ \E c \in Creds, op \in {"get", "probeget"} : Get(t, op, c)
  BY <1>3, ServeMoved
<1>4. CASE \/ DeadProbe(t) \/ PollProfile(t) \/ PollConfirm(t)
           \/ TransitionHealth(t) \/ PollIfAged(t) \/ Reclaim(t)
           \/ \E c \in Creds : RefreshDue(t, c) \/ PollOne(t, c)
  BY <1>4, PollMoved
<1>5. CASE \/ OfferVerify(t) \/ OfferRoute(t) \/ OfferAdopt(t)
           \/ \E k \in held : Offer(t, k)
  BY <1>5, OfferMoved
<1>6. CASE \/ AdminPutVerify(t) \/ AdminPutUnique(t) \/ AdminPutInstall(t) \/ AdminRefreshLocked(t)
           \/ \E c \in Creds : AdminRefresh(t, c) \/ Delete(t, c) \/ \E k \in held : AdminPut(t, c, k)
  BY <1>6, AdminMoved
<1> QED BY <1>1, <1>2, <1>3, <1>4, <1>5, <1>6 DEF Continue, Begin

-----------------------------------------------------------------------------
(* What a thread commits.                                                  *)

\* A refresh or a change of health.
OwnChange(old, nr) ==
    \/ nr = [old EXCEPT !.health = nr.health]
    \/ \E i \in old.tok.seq + 1 .. MaxSeq : nr = Replace(old, Tok(old.tok.lin, i))

\* The adoption of an offered token: it is new to the record, of its account.
Adoption(x, old) ==
    /\ old.acct = Owner(x.tok) /\ x.tok # old.tok /\ ~InRing(x.tok, old)
    /\ x.nr = Replace(old, x.tok)

\* A record that was deleted meanwhile is stored again: then there is nothing
\* to compare the pending one with.
ToCommit(x, old) ==
    \/ x.op \notin Entrusted /\ (old # NoRecord => OwnChange(old, x.nr))
    \/ x.op = "offer" /\ x.nr.tok = x.tok /\ (old # NoRecord => Adoption(x, old))
    \/ /\ x.op = "import" /\ x.nr.tok = x.tok /\ x.nr.acct = Owner(x.tok)
       /\ old # NoRecord => x.nr = Replace(old, x.tok)

\* Thread x, which may run ops, does what it is for on the record old.
Works(x, old, ops) ==
    /\ x.op \in Entrusted => x.op \in ops
    /\ x.pc \in Offering => x.op = "offer"
    /\ x.pc \in Importing => x.op = "import"
    /\ x.pc \notin Busy => x.op \notin Entrusted
    /\ x.pc = "adopt" => x.rec.acct = Owner(x.tok) /\ ~InRing(x.tok, x.rec)
    /\ x.pc = "put" => ToCommit(x, old)
    /\ x.pc = "bump" /\ x.op = "offer" /\ old # NoRecord => old.tok = x.tok

Worked == \A t \in Threads : Works(th[t], mem[th[t].c], Ops[t])

\* An offer that finds the store unchanged was routed by what is stored.
Informed(t) ==
    LET c == th[t].c IN
    th[t].pc = "adopt" /\ Free(c) /\ Present(mem, c) /\ StoreUnchanged(t) => th[t].rec = mem[c]

AllInformed == \A t \in Threads : Informed(t)

LEMMA PutWorks ==
    ASSUME TypeOK, TokensIssued, NEW t \in Threads, Moved(t), th'[t].pc = "put",
           WorksOnStored(t), Informed(t), Works(th[t], mem[th[t].c], Ops[t])
    PROVE  ToCommit(th'[t], mem[th'[t].c])
<1> DEFINE x == th[t]
           y == th'[t]
           old == mem[x.c]
           l == x.rec.tok.lin
<1>1. x \in Thread /\ x.rec \in Record /\ x.rec.tok \in Token /\ l \in Lineages /\ Issued(x.rec.tok)
  BY TokenTypes DEF TypeOK, Token, TokensIssued
<1>2. y.op = x.op /\ y.tok = x.tok /\ y.c = x.c
  BY DEF Moved, PutMove
<1>3. ASSUME x.pc = "refresh", y.nr = Replace(x.rec, Tok(l, latest'[l])),
             latest'[l] = latest[l] + 1, latest'[l] <= MaxSeq
      PROVE  ToCommit(y, old)
  <2>1. (old # NoRecord => x.rec = old) /\ x.op \notin Entrusted
    BY <1>3 DEF WorksOnStored, Present, Works, Busy, Offering, Importing
  <2>2. latest'[l] \in x.rec.tok.seq + 1 .. MaxSeq
    <3>1. latest[l] \in Int /\ x.rec.tok.seq \in Int /\ MaxSeq \in Int /\ x.rec.tok.seq <= latest[l]
      BY <1>1, NumberTypes, TokensAssumption DEF Issued, Token
    <3> QED BY <1>3, <3>1
  <2>3. old # NoRecord => OwnChange(old, y.nr)
    BY <1>3, <2>1, <2>2 DEF OwnChange
  <2> QED BY <1>2, <2>1, <2>3 DEF ToCommit
<1>4. ASSUME x.pc = "refresh", y.nr = [x.rec EXCEPT !.health = "dead"] PROVE ToCommit(y, old)
  <2>1. (old # NoRecord => x.rec = old) /\ x.op \notin Entrusted
    BY <1>4 DEF WorksOnStored, Present, Works, Busy, Offering, Importing
  <2>2. y.nr.health = "dead"
    BY <1>1, <1>4 DEF Record
  <2>3. old # NoRecord => OwnChange(old, y.nr)
    BY <1>4, <2>1, <2>2 DEF OwnChange
  <2> QED BY <1>2, <2>1, <2>3 DEF ToCommit
<1>5. ASSUME x.pc = "transition", Present(mem, x.c), y.nr = [old EXCEPT !.health = x.to] PROVE ToCommit(y, old)
  <2>1. old # NoRecord /\ x.op \notin Entrusted /\ old \in Record
    BY <1>5, TokenTypes DEF Present, Works, Busy, Offering, Importing
  <2>2. y.nr.health = x.to
    BY <1>5, <2>1 DEF Record
  <2>3. OwnChange(old, y.nr)
    BY <1>5, <2>2 DEF OwnChange
  <2> QED BY <1>2, <2>1, <2>3 DEF ToCommit
<1>6. ASSUME x.pc = "adopt", Free(x.c), Present(mem, x.c), StoreUnchanged(t), old.tok # x.tok,
             y.nr = Replace(old, x.tok)
      PROVE  ToCommit(y, old)
  <2>1. x.op = "offer" /\ x.rec.acct = Owner(x.tok) /\ ~InRing(x.tok, x.rec)
    BY <1>6 DEF Works, Offering
  <2>2. x.rec = old
    BY <1>6 DEF Informed
  <2>3. Adoption(y, old)
    BY <1>2, <1>6, <2>1, <2>2 DEF Adoption
  <2>4. y.nr.tok = y.tok
    BY <1>1, <1>2, <1>6, <2>2, ReplaceFields DEF Thread
  <2> QED BY <1>2, <2>1, <2>3, <2>4 DEF ToCommit
<1>7. ASSUME x.pc = "install", y.nr = IF Present(mem, x.c) THEN Replace(old, x.tok) ELSE Fresh(x.tok)
      PROVE  ToCommit(y, old)
  <2>1. x.op = "import" /\ x.tok \in Token
    BY <1>1, <1>7 DEF Works, Importing, Thread
  <2>2. CASE old # NoRecord
    <3>1. old \in Record
      BY <2>2, TokenTypes DEF Present
    <3> QED BY <1>2, <1>7, <2>1, <2>2, <3>1, ReplaceFields DEF ToCommit, Present
  <2>3. CASE old = NoRecord
    BY <1>2, <1>7, <2>1, <2>3 DEF ToCommit, Present, Fresh
  <2> QED BY <2>2, <2>3
<1> HIDE DEF x, y, old, l
<1>8. ToCommit(y, old)
  BY <1>3, <1>4, <1>5, <1>6, <1>7 DEF Moved, PutMove, x, y, old, l
<1> QED BY <1>2, <1>8 DEF x, y, old

LEMMA ThreadWorks ==
    ASSUME TypeOK, TokensIssued, NEW t \in Threads, Continue(t) \/ Begin(t),
           WorksOnStored(t), Informed(t), Works(th[t], mem[th[t].c], Ops[t])
    PROVE  Works(th'[t], mem'[th'[t].c], Ops[t])
<1> DEFINE x == th[t]
           y == th'[t]
<1>1. Moved(t)
  BY AllMoved
<1>2. y.pc \in Offering => y.op = "offer" /\ (y.op \in Ops[t])
  BY <1>1 DEF Moved, OfferMove, Works, Offering, Entrusted
<1>3. y.pc \in Importing => y.op = "import" /\ y.op \in Ops[t]
  BY <1>1 DEF Moved, ImportMove, Works, Importing, Entrusted
<1>4. y.pc \notin Busy => y.op \notin Entrusted
  BY <1>1 DEF Moved, OpMove, Works
<1>5. y.pc \in {"put", "bump"} => y.op = x.op
  BY <1>1 DEF Moved, PutMove, SaveMove
<1>6. y.op \in Entrusted => y.op \in Ops[t]
  BY <1>2, <1>3, <1>4, <1>5 DEF Busy, Works
<1>7. y.pc = "put" => ToCommit(y, mem'[y.c])
  BY <1>1, PutWorks DEF Moved, PutMove
<1>8. ASSUME y.pc = "bump", y.op = "offer" PROVE mem'[y.c].tok = y.tok
  <2>1. /\ x.pc = "put" /\ y.op = x.op /\ y.tok = x.tok /\ y.c = x.c
        /\ mem' = [mem EXCEPT ![x.c] = Stored(t)]
    BY <1>1, <1>8 DEF Moved, SaveMove
  <2>2. mem'[y.c] = Stored(t)
    BY <2>1 DEF TypeOK, Thread
  <2>3. Stored(t).tok = x.nr.tok
    BY StoredTok
  <2>4. x.nr.tok = x.tok
    BY <1>8, <2>1 DEF Works, ToCommit, Entrusted
  <2> QED BY <2>1, <2>2, <2>3, <2>4
<1>9. y.pc = "adopt" => y.rec.acct = Owner(y.tok) /\ ~InRing(y.tok, y.rec)
  BY <1>1 DEF Moved, OfferMove
<1> HIDE DEF x, y
<1> QED BY <1>2, <1>3, <1>4, <1>6, <1>7, <1>8, <1>9 DEF Works, y

LEMMA WorkedStart == Init => Worked
<1>1. Idle.pc = "idle" /\ Idle.op = "none"
  BY DEF Idle
<1> QED BY <1>1 DEF Init, Worked, Works, Busy, Offering, Importing, Entrusted

\* What another thread commits is not what this one holds the mutex of; only
\* a deletion takes it away.
LEMMA OthersCommit ==
    ASSUME TypeOK, Exclusive, NEW t \in Threads, NEW u \in Threads, u # t, th[u].pc \in Holding,
           Continue(t) \/ Begin(t)
    PROVE  /\ mem'[th[u].c] = mem[th[u].c] \/ mem'[th[u].c] = NoRecord
           /\ NoDeletion => mem'[th[u].c] = mem[th[u].c]
<1>1. th[t].pc = "put" => th[u].c # th[t].c
  BY DEF Exclusive, Holding
<1>2. mem \in [Creds -> Record \cup {NoRecord}] /\ th[u].c \in Creds
  BY DEF TypeOK, Thread
<1>3. CASE UNCHANGED mem
  BY <1>3
<1>4. CASE th[t].pc = "put" /\ mem' = [mem EXCEPT ![th[t].c] = Stored(t)]
  BY <1>1, <1>2, <1>4
<1>5. ASSUME NEW c \in Creds, Delete(t, c)
      PROVE  (mem'[th[u].c] = mem[th[u].c] \/ mem'[th[u].c] = NoRecord) /\ ~NoDeletion
  BY <1>2, <1>5 DEF Delete, Starts, NoDeletion
<1> QED BY <1>3, <1>4, <1>5, StoreMoves

\* A thread that has nothing to do for anybody.
LEMMA IdleWorks == ASSUME NEW x, x.pc \notin Busy, x.op \notin Entrusted, NEW old, NEW ops PROVE Works(x, old, ops)
  BY DEF Works, Busy, Offering

\* A crash leaves idle threads; so does a process that does not run.
LEMMA EnvironmentThreads ==
    ASSUME TypeOK, Environment
    PROVE  UNCHANGED th \/ \A t \in Threads : th'[t] = Idle
  BY DEF Environment, ProbeExpires, BackoffEnds, GrowsOld, Crash, Restart, Tick, Upstream

LEMMA WorkedStep ==
    ASSUME TypeOK, TokensIssued, Exclusive, CurrentWork, AllInformed, Worked, [Next]_vars
    PROVE  Worked'
<1>1. CASE UNCHANGED vars
  BY <1>1 DEF Worked, vars
<1>2. CASE Environment
  <2>1. CASE UNCHANGED <<th, mem>>
    BY <2>1 DEF Worked
  <2>2. CASE \A t \in Threads : th'[t] = Idle
    <3>1. Idle.pc = "idle" /\ Idle.op = "none"
      BY DEF Idle
    <3> QED BY <2>2, <3>1, IdleWorks DEF Worked, Busy, Offering, Importing, Entrusted
  <2>3. CASE ~up /\ UNCHANGED th
    <3>1. \A t \in Threads : th'[t].pc \notin Busy /\ th'[t].op \notin Entrusted
      BY <2>3 DEF Exclusive, Worked, Works, Busy, Offering, Importing
    <3> QED BY <3>1, IdleWorks DEF Worked
  <2>4. ASSUME UNCHANGED th, ~UNCHANGED mem PROVE ~up
    BY <1>2, <2>4 DEF Environment, ProbeExpires, BackoffEnds, GrowsOld, Crash, Restart, Tick, Upstream, storeVars
  <2> QED BY <1>2, <2>1, <2>2, <2>3, <2>4, EnvironmentThreads
<1>3. ASSUME NEW t \in Threads, Continue(t) \/ Begin(t), NEW u \in Threads
      PROVE  Works(th'[u], mem'[th'[u].c], Ops[u])
  <2>1. CASE u = t
    BY <1>3, <2>1, ThreadWorks DEF Worked, CurrentWork, AllInformed
  <2>2. CASE u # t
    <3>1. th'[u] = th[u] /\ Works(th[u], mem[th[u].c], Ops[u])
      BY <1>3, <2>2, ThreadMoves DEF OtherThreads, Worked
    <3>2. th[u].pc \in Holding => mem'[th[u].c] = mem[th[u].c] \/ mem'[th[u].c] = NoRecord
      BY <1>3, <2>2, OthersCommit
    <3> HIDE DEF Worked
    <3> QED BY <3>1, <3>2 DEF Works, ToCommit, Holding
  <2> QED BY <2>1, <2>2
<1> QED BY <1>1, <1>2, <1>3 DEF Next, Worked

-----------------------------------------------------------------------------
(* What a step of a thread does to the counters and the history.           *)

\* A pair is minted for the broker by a refresh, which goes on to commit it
\* unless the answer is lost.
MintStep(t) ==
    LET l == th[t].rec.tok.lin IN
    \/ UNCHANGED minted
    \/ /\ th[t].pc = "refresh" /\ CanRefresh(th[t].rec.tok)
       /\ latest'[l] = latest[l] + 1 /\ minted' = [minted EXCEPT ![l] = latest'[l]]
       /\ \/ "lost" \in FaultKinds /\ UNCHANGED mem
          \/ /\ th'[t].pc = "put" /\ th'[t].c = th[t].c /\ UNCHANGED mem
             /\ th'[t].nr = Replace(th[t].rec, Tok(l, latest'[l]))

\* A client is told that the broker holds its token after a commit, or when
\* the token is the current one; a deletion ends what it was told.
AckStep(t) ==
    LET x == th[t] IN
    \/ UNCHANGED acked
    \/ /\ acked' = acked \cup {<<x.c, x.tok>>} /\ UNCHANGED mem /\ Present(mem, x.c)
       /\ \/ x.pc = "bump" /\ x.op = "offer"
          \/ x.pc = "adopt" /\ Free(x.c) /\ mem[x.c].tok = x.tok
    \/ \E c \in Creds : Delete(t, c)

\* A commit stores what its thread holds and is counted afterwards.
CountStep(t) ==
    /\ storeVer' = storeVer \/ (th[t].pc = "bump" /\ storeVer' = storeVer + 1)
    /\ th[t].pc = "bump" => storeVer' = storeVer + 1
    /\ th[t].pc = "put" => /\ mem' = [mem EXCEPT ![th[t].c] = Stored(t)]
                           /\ th'[t].pc = "bump" \/ "save" \in FaultKinds

LEMMA StillStep ==
    ASSUME NEW t \in Threads, th[t].pc \notin {"put", "bump"}, UNCHANGED <<minted, acked, storeVer>>
    PROVE  MintStep(t) /\ AckStep(t) /\ CountStep(t)
  BY DEF MintStep, AckStep, CountStep

LEMMA DeleteStep ==
    ASSUME NEW t \in Threads, NEW c \in Creds, Delete(t, c)
    PROVE  MintStep(t) /\ AckStep(t) /\ CountStep(t)
<1>1. th[t].pc = "idle" /\ UNCHANGED <<minted, storeVer>>
  BY DEF Delete, At, Starts, volatile
<1> QED BY <1>1 DEF MintStep, AckStep, CountStep

LEMMA CommitHistory ==
    ASSUME TypeOK, NEW t \in Threads, PutSaved(t) \/ PutUnsaved(t) \/ Bump(t)
    PROVE  MintStep(t) /\ AckStep(t) /\ CountStep(t)
<1>1. CASE PutSaved(t)
  <2>1. th'[t] = [th[t] EXCEPT !.pc = "bump", !.nr = Stored(t)]
    BY <1>1 DEF PutSaved, Become, TypeOK
  <2>2. th'[t].pc = "bump"
    BY <2>1 DEF TypeOK, Thread
  <2> QED BY <1>1, <2>2 DEF PutSaved, At, MintStep, AckStep, CountStep, volatile, history
<1>2. CASE PutUnsaved(t)
  BY <1>2 DEF PutUnsaved, At, Fault, MintStep, AckStep, CountStep, history
<1>3. CASE Bump(t)
  BY <1>3 DEF Bump, At, MintStep, AckStep, CountStep, storeVars
<1> QED BY <1>1, <1>2, <1>3

LEMMA RefreshHistory ==
    ASSUME TypeOK, NEW t \in Threads, RefreshOK(t) \/ RefreshDead(t) \/ RefreshTransient(t)
    PROVE  MintStep(t) /\ AckStep(t) /\ CountStep(t)
<1> DEFINE l == th[t].rec.tok.lin
<1>1. l \in Lineages /\ latest[l] \in 1..MaxSeq /\ th[t] \in Thread /\ DOMAIN latest = Lineages
  BY DEF TypeOK, OAuthTypeOK, Thread, Record, Token
<1>2. th[t].pc = "refresh" /\ UNCHANGED <<mem, acked, storeVer>>
  BY DEF RefreshOK, RefreshDead, RefreshTransient, At, storeVars, volatile, history
<1>3. AckStep(t) /\ CountStep(t)
  BY <1>2 DEF AckStep, CountStep
<1>4. CASE RefreshOK(t)
  <2> DEFINE nr == Replace(th[t].rec, Tok(l, latest'[l]))
  <2>1. CanRefresh(th[t].rec.tok) /\ latest'[l] = latest[l] + 1
    BY <1>1, <1>4 DEF RefreshOK, RefreshAnswer, Mint
  <2>2. minted' = [minted EXCEPT ![l] = latest'[l]]
    BY <1>4 DEF RefreshOK, Tok
  <2>3. Become(t, [th[t] EXCEPT !.pc = "put", !.nr = nr])
    BY <1>4 DEF RefreshOK
  <2> HIDE DEF nr
  <2>4. th'[t].pc = "put" /\ th'[t].c = th[t].c /\ th'[t].nr = nr
    BY <1>2, <2>3, PutMoved, PutCarries
  <2> QED BY <1>2, <1>3, <2>1, <2>2, <2>4 DEF MintStep, nr
<1>5. CASE RefreshDead(t)
  BY <1>3, <1>5 DEF RefreshDead, MintStep, history
<1>6. CASE RefreshTransient(t)
  <2>1. CASE latest'[l] = latest[l]
    BY <1>3, <1>6, <2>1 DEF RefreshTransient, MintStep
  <2>2. CASE latest'[l] # latest[l]
    <3>1. CanRefresh(th[t].rec.tok) /\ latest'[l] = latest[l] + 1 /\ "lost" \in FaultKinds
      BY <1>1, <1>6, <2>2 DEF RefreshTransient, RefreshAnswer, Mint, Fault
    <3>2. minted' = [minted EXCEPT ![l] = latest'[l]]
      BY <1>6, <2>2 DEF RefreshTransient
    <3> QED BY <1>2, <1>3, <3>1, <3>2 DEF MintStep
  <2> QED BY <2>1, <2>2
<1> QED BY <1>4, <1>5, <1>6

LEMMA ServeHistory ==
    ASSUME TypeOK, NEW t \in Threads,
           \/ EnsureFreshLocked(t) \/ ProbeCached(t) \/ ProbeCred(t) \/ Respond(t)
           \/ \E c \in Creds, op \in {"get", "probeget"} : Get(t, op, c)
           \/ DeadProbe(t) \/ PollProfile(t) \/ PollConfirm(t)
           \/ TransitionHealth(t) \/ PollIfAged(t) \/ Reclaim(t)
           \/ \E c \in Creds : RefreshDue(t, c) \/ PollOne(t, c)
    PROVE  MintStep(t) /\ AckStep(t) /\ CountStep(t)
<1>1. th[t].pc \notin {"put", "bump"} /\ UNCHANGED <<minted, acked, storeVer>>
  BY DEF EnsureFreshLocked, ProbeCached, ProbeCred, Respond, Get, DeadProbe, PollProfile, PollConfirm,
         TransitionHealth, PollIfAged, Reclaim, RefreshDue, PollOne, At, Starts, volatile, history
<1> QED BY <1>1, StillStep

LEMMA OfferHistory ==
    ASSUME TypeOK, NEW t \in Threads,
           \/ OfferVerify(t) \/ OfferRoute(t) \/ OfferAdopt(t)
           \/ \E k \in held : Offer(t, k)
    PROVE  MintStep(t) /\ AckStep(t) /\ CountStep(t)
<1>1. CASE OfferAdopt(t)
  <2>1. th[t].pc = "adopt" /\ UNCHANGED <<minted, storeVer, mem>> /\ Free(th[t].c)
    BY <1>1 DEF OfferAdopt, At, storeVars
  <2>2. AckStep(t)
    BY <1>1, <2>1 DEF OfferAdopt, AckStep
  <2> QED BY <2>1, <2>2 DEF MintStep, CountStep
<1>2. CASE OfferVerify(t) \/ OfferRoute(t) \/ \E k \in held : Offer(t, k)
  <2>1. th[t].pc \notin {"put", "bump"} /\ UNCHANGED <<minted, acked, storeVer>>
    BY <1>2 DEF OfferVerify, OfferRoute, Offer, At, Starts, volatile, history
  <2> QED BY <2>1, StillStep
<1> QED BY <1>1, <1>2

LEMMA AdminHistory ==
    ASSUME TypeOK, NEW t \in Threads,
           \/ AdminPutVerify(t) \/ AdminPutUnique(t) \/ AdminPutInstall(t) \/ AdminRefreshLocked(t)
           \/ \E c \in Creds : AdminRefresh(t, c) \/ Delete(t, c) \/ \E k \in held : AdminPut(t, c, k)
    PROVE  MintStep(t) /\ AckStep(t) /\ CountStep(t)
<1>1. CASE ~\E c \in Creds : Delete(t, c)
  <2>1. th[t].pc \notin {"put", "bump"} /\ UNCHANGED <<minted, acked, storeVer>>
    BY <1>1 DEF AdminPutVerify, AdminPutUnique, AdminPutInstall, AdminRefreshLocked, AdminRefresh, AdminPut,
                At, Starts, volatile, history
  <2> QED BY <2>1, StillStep
<1> QED BY <1>1, DeleteStep

LEMMA History ==
    ASSUME TypeOK, NEW t \in Threads, Continue(t) \/ Begin(t)
    PROVE  MintStep(t) /\ AckStep(t) /\ CountStep(t)
<1>1. CASE PutSaved(t) \/ PutUnsaved(t) \/ Bump(t)
  BY <1>1, CommitHistory
<1>2. CASE RefreshOK(t) \/ RefreshDead(t) \/ RefreshTransient(t)
  BY <1>2, RefreshHistory
<1>3. CASE \/ EnsureFreshLocked(t) \/ ProbeCached(t) \/ ProbeCred(t) \/ Respond(t)
           \/ \E c \in Creds, op \in {"get", "probeget"} : Get(t, op, c)
           \/ DeadProbe(t) \/ PollProfile(t) \/ PollConfirm(t)
           \/ TransitionHealth(t) \/ PollIfAged(t) \/ Reclaim(t)
           \/ \E c \in Creds : RefreshDue(t, c) \/ PollOne(t, c)
  BY <1>3, ServeHistory
<1>4. CASE \/ OfferVerify(t) \/ OfferRoute(t) \/ OfferAdopt(t)
           \/ \E k \in held : Offer(t, k)
  BY <1>4, OfferHistory
<1>5. CASE \/ AdminPutVerify(t) \/ AdminPutUnique(t) \/ AdminPutInstall(t) \/ AdminRefreshLocked(t)
           \/ \E c \in Creds : AdminRefresh(t, c) \/ Delete(t, c) \/ \E k \in held : AdminPut(t, c, k)
  BY <1>5, AdminHistory
<1> QED BY <1>1, <1>2, <1>3, <1>4, <1>5 DEF Continue, Begin

LEMMA EnvironmentHistory ==
    ASSUME Environment
    PROVE  /\ UNCHANGED <<minted, acked>>
           /\ \/ UNCHANGED storeVer
              \/ \A t \in Threads : th'[t] = Idle
           /\ mem' = mem \/ mem' = disk
  BY DEF Environment, ProbeExpires, BackoffEnds, GrowsOld, Crash, Restart, Tick, Upstream, storeVars,
         volatile, history

-----------------------------------------------------------------------------
(* What an offer knows of the store.                                       *)

NoOffers == \A t \in Threads : "offer" \notin Ops[t]

\* No offer has read a version that is still to come.
VersionsPast == \A t \in Threads : th[t].pc \in Offering => th[t].ver <= storeVer

\* The record an offer was routed by is stored, or was deleted, or the commit
\* that replaced it has been counted or is about to be.
Tracks(t) ==
    LET x == th[t] IN
    x.pc = "adopt" => \/ x.rec = mem[x.c] \/ ~Present(mem, x.c) \/ storeVer > x.ver
                      \/ \E w \in Threads : th[w].pc = "bump" /\ th[w].c = x.c

Tracked == VersionsPast /\ \A t \in Threads : Tracks(t)

LEMMA RotationTypes ==
    ASSUME TypeOK
    PROVE  /\ MaxSeq \in Nat /\ storeVer \in Nat
           /\ \A l \in Lineages : minted[l] \in Nat /\ latest[l] \in Nat
           /\ \A t \in Threads : th[t].ver \in Nat
           /\ \A k \in Token : k.lin \in Lineages /\ k.seq \in Nat
  BY TokensAssumption DEF TypeOK, OAuthTypeOK, Thread, Token

LEMMA EnvironmentKeeps ==
    ASSUME TypeOK, Exclusive, Environment
    PROVE  UNCHANGED <<mem, th, minted, storeVer>> \/ \A t \in Threads : th'[t].pc = "idle"
<1>1. Idle.pc = "idle"
  BY DEF Idle
<1>2. CASE Crash
  BY <1>1, <1>2 DEF Crash, TypeOK
<1>3. CASE Restart
  BY <1>3 DEF Restart, Exclusive
<1>4. CASE ~Crash /\ ~Restart
  BY <1>4 DEF Environment, ProbeExpires, BackoffEnds, GrowsOld, Tick, Upstream, storeVars, volatile, history
<1> QED BY <1>2, <1>3, <1>4

LEMMA VersionsStep ==
    ASSUME TypeOK, TokensIssued, VersionsPast, NEW t \in Threads, Continue(t) \/ Begin(t)
    PROVE  VersionsPast'
<1>1. storeVer \in Nat
  BY RotationTypes
<1>2. storeVer' \in Nat /\ storeVer' >= storeVer
  BY <1>1, History DEF CountStep
<1>3. ASSUME NEW u \in Threads, th'[u].pc \in Offering PROVE th'[u].ver <= storeVer'
  <2>1. th[u].ver \in Nat
    BY <1>1, RotationTypes
  <2>2. CASE u # t
    <3>1. th'[u] = th[u]
      BY <1>1, <2>2, ThreadMoves DEF OtherThreads
    <3> QED BY <1>1, <1>2, <1>3, <2>1, <3>1 DEF VersionsPast
  <2>3. CASE u = t
    <3>1. th'[u].ver = storeVer \/ (th'[u].ver = th[u].ver /\ th[u].pc \in Offering)
      BY <1>1, <1>3, <2>3, AllMoved DEF Moved, OfferMove, Offering
    <3> QED BY <1>1, <1>2, <2>1, <3>1 DEF VersionsPast
  <2> QED BY <2>2, <2>3
<1> QED BY <1>3 DEF VersionsPast

LEMMA TrackedStart == Init => Tracked
  BY DEF Init, Tracked, VersionsPast, Tracks, Offering, Idle

LEMMA TracksStep ==
    ASSUME SavesWork, TypeOK, TokensIssued, Tracked, NEW t \in Threads, Continue(t) \/ Begin(t),
           NEW u \in Threads, th'[u].pc = "adopt"
    PROVE  \/ th'[u].rec = mem'[th'[u].c] \/ mem'[th'[u].c] = NoRecord \/ storeVer' > th'[u].ver
           \/ \E w \in Threads : th'[w].pc = "bump" /\ th'[w].c = th'[u].c
<1> DEFINE c == th[u].c
           v == th[u].ver
<1>1. CASE u = t
  <2>1. OfferMove(t)
    BY AllMoved DEF Moved
  <2> QED BY <1>1, <2>1 DEF OfferMove
<1>2. CASE u # t
  <2>1. th'[u] = th[u] /\ c \in Creds /\ mem \in [Creds -> Record \cup {NoRecord}]
    BY <1>2, ThreadMoves DEF OtherThreads, TypeOK, Thread
  <2>2. storeVer \in Nat /\ v \in Nat /\ v <= storeVer
    BY <2>1, RotationTypes DEF Tracked, VersionsPast, Offering
  <2>3. CountStep(t)
    BY History
  <2>4. ASSUME th[t].pc = "put", th[t].c = c PROVE th'[t].pc = "bump" /\ th'[t].c = c
    <3>1. th'[t].pc = "bump"
      BY <2>3, <2>4 DEF CountStep, SavesWork
    <3>2. th'[t].c = th[t].c
      BY <3>1, AllMoved DEF Moved, SaveMove
    <3> QED BY <2>4, <3>1, <3>2
  <2>5. CASE storeVer > v
    <3>1. storeVer' > v
      BY <2>2, <2>3, <2>5 DEF CountStep
    <3> QED BY <2>1, <3>1
  <2>6. ASSUME NEW w \in Threads, th[w].pc = "bump", th[w].c = c
        PROVE  storeVer' > v \/ (th'[w].pc = "bump" /\ th'[w].c = c)
    <3>1. CASE w = t
      BY <2>2, <2>3, <2>6, <3>1 DEF CountStep
    <3>2. CASE w # t
      BY <2>6, <3>2, ThreadMoves DEF OtherThreads
    <3> QED BY <3>1, <3>2
  <2>7. CASE th[u].rec = mem[c] \/ mem[c] = NoRecord
    <3>1. CASE mem'[c] = mem[c] \/ mem'[c] = NoRecord
      BY <2>1, <2>7, <3>1
    <3>2. CASE th[t].pc = "put" /\ th[t].c = c
      BY <2>1, <2>4, <3>2
    <3>3. ASSUME th[t].pc = "put", mem' = [mem EXCEPT ![th[t].c] = Stored(t)], th[t].c # c PROVE mem'[c] = mem[c]
      BY <2>1, <3>3
    <3>4. ASSUME NEW d \in Creds, Delete(t, d) PROVE mem'[c] = mem[c] \/ mem'[c] = NoRecord
      BY <2>1, <3>4 DEF Delete
    <3> QED BY <3>1, <3>2, <3>3, <3>4, StoreMoves
  <2> QED BY <2>1, <2>5, <2>6, <2>7 DEF Tracked, Tracks, Present
<1> QED BY <1>1, <1>2

LEMMA TrackedStep ==
    ASSUME SavesWork, TypeOK, TokensIssued, Exclusive, Tracked, [Next]_vars
    PROVE  Tracked'
<1>1. CASE UNCHANGED <<mem, th, storeVer>>
  BY <1>1 DEF Tracked, VersionsPast, Tracks, Present
<1>2. CASE \A t \in Threads : th'[t].pc = "idle"
  BY <1>2 DEF Tracked, VersionsPast, Tracks, Offering
<1>3. CASE Environment
  BY <1>1, <1>2, <1>3, EnvironmentKeeps
<1>4. ASSUME NEW t \in Threads, Continue(t) \/ Begin(t) PROVE Tracked'
  <2>1. VersionsPast'
    BY <1>4, VersionsStep DEF Tracked
  <2>2. \A u \in Threads : Tracks(u)'
    BY <1>4, TracksStep DEF Tracks, Present
  <2> QED BY <2>1, <2>2 DEF Tracked
<1>5. CASE UNCHANGED vars
  BY <1>1, <1>5 DEF vars, volatile
<1> QED BY <1>3, <1>4, <1>5 DEF Next

LEMMA TrackedInformed == ASSUME TypeOK, Exclusive, Tracked PROVE AllInformed
<1> SUFFICES ASSUME NEW t \in Threads, th[t].pc = "adopt", Free(th[t].c), Present(mem, th[t].c),
                    StoreUnchanged(t)
             PROVE  th[t].rec = mem[th[t].c]
  BY DEF AllInformed, Informed
<1>1. ~(storeVer > th[t].ver)
  <2>1. storeVer = th[t].ver /\ storeVer \in Nat
    BY RotationTypes DEF StoreUnchanged
  <2> QED BY <2>1
<1>2. \A w \in Threads : ~(th[w].pc = "bump" /\ th[w].c = th[t].c)
  BY BrokerAssumption DEF Exclusive, Holding, Free
<1> QED BY <1>1, <1>2 DEF Tracked, Tracks

LEMMA LawfulInformed == ASSUME Lawful PROVE AllInformed
  BY DEF Lawful, LawfulRecord, Known, AllInformed, Informed, StoreUnchanged

LEMMA NoneInformed == ASSUME NoOffers, Worked PROVE AllInformed
  BY DEF NoOffers, Worked, Works, Offering, Entrusted, AllInformed, Informed

\* What is known of the threads in every state.
Basics == TypeOK /\ TokensIssued /\ Exclusive /\ CurrentWork /\ AllInformed /\ Worked

\* An offer is informed when nobody deletes, because generations grow, and
\* when saves work, because each commit is counted.
LEMMA BasicsHold ==
    ASSUME NoDeletion \/ SavesWork \/ NoOffers
    PROVE  Spec => []Basics
<1>1. TypeOK /\ TokensIssued /\ Exclusive /\ CurrentWork /\ AllInformed /\ Worked /\ [Next]_vars => Worked'
  BY WorkedStep
<1>2. ASSUME NoDeletion PROVE Spec => []AllInformed
  <2>1. Lawful => AllInformed
    BY LawfulInformed
  <2> QED BY <1>2, <2>1, LawfulHolds, PTL
<1>3. ASSUME SavesWork PROVE Spec => []AllInformed
  <2>1. TypeOK /\ TokensIssued /\ Exclusive /\ Tracked /\ [Next]_vars => Tracked'
    BY <1>3, TrackedStep
  <2>2. TypeOK /\ Exclusive /\ Tracked => AllInformed
    BY TrackedInformed
  <2> QED BY <2>1, <2>2, TrackedStart, MutexHolds, PTL DEF Spec
<1>4. CASE NoDeletion \/ SavesWork
  <2>1. Spec => []AllInformed
    BY <1>2, <1>3, <1>4
  <2> QED BY <1>1, <2>1, WorkedStart, MutexHolds, PTL DEF Spec, Basics
<1>5. CASE NoOffers
  <2>1. Worked => AllInformed
    BY <1>5, NoneInformed
  <2> QED BY <1>1, <2>1, WorkedStart, MutexHolds, PTL DEF Spec, Basics
<1> QED BY <1>4, <1>5

-----------------------------------------------------------------------------
(* Every credential keeps its account while nobody imports.                *)

NoImports == \A t \in Threads : "import" \notin Ops[t]

\* Credential c is of one account, and r is a record of it.
AtHome(home, c, r) == c \in DOMAIN home /\ r.acct = home[c] /\ Owner(r.tok) = home[c]

\* What thread x works on, or is to store again, is of its credential's account.
Resident(home, x) ==
    /\ x.pc \notin Importing
    /\ x.pc = "refresh" => AtHome(home, x.c, x.rec)
    /\ x.pc \in {"put", "bump"} => AtHome(home, x.c, x.nr)
    /\ x.pc = "adopt" => x.c \in DOMAIN home /\ Owner(x.tok) = home[x.c]

Homes(home) ==
    /\ \A c, d \in DOMAIN home : home[c] = home[d] => c = d
    /\ \A c \in Creds : Present(mem, c) => AtHome(home, c, mem[c])
    /\ \A c \in Creds : Present(disk, c) => AtHome(home, c, disk[c])
    /\ \A t \in Threads : Resident(home, th[t])

\* One and the same account per credential for all that is stored or pending.
Homed == \E kept \in SUBSET Creds : \E home \in [kept -> Accounts] : Homes(home)

\* The file is written as a whole.
LEMMA WholeSaves == ASSUME [Next]_vars PROVE disk' = disk \/ disk' = mem'
<1>1. CASE UNCHANGED vars
  BY <1>1 DEF vars
<1>2. CASE Environment
  BY <1>2 DEF Environment, ProbeExpires, BackoffEnds, GrowsOld, Crash, Restart, Tick, Upstream, storeVars
<1>3. ASSUME NEW t \in Threads, Continue(t) \/ Begin(t) PROVE disk' = disk \/ disk' = mem'
  BY <1>3 DEF Continue, Begin, PutSaved, PutUnsaved, Bump, RefreshOK, RefreshDead, RefreshTransient,
         EnsureFreshLocked, ProbeCached, ProbeCred, Respond, DeadProbe, PollProfile, PollConfirm,
         TransitionHealth, PollIfAged, Reclaim, OfferVerify, OfferRoute, OfferAdopt, AdminPutVerify,
         AdminPutUnique, AdminPutInstall, AdminRefreshLocked, Get, RefreshDue, PollOne, AdminRefresh,
         AdminPut, Offer, Delete, WriteThrough, storeVars
<1> QED BY <1>1, <1>2, <1>3 DEF Next

LEMMA StoredFields ==
    ASSUME TypeOK, NEW t \in Threads
    PROVE  /\ Stored(t) \in Record /\ Stored(t) # NoRecord
           /\ Stored(t).tok = th[t].nr.tok /\ Stored(t).acct = th[t].nr.acct /\ Stored(t).ring = th[t].nr.ring
<1>1. Stored(t) \in Record /\ Stored(t) # NoRecord
  BY StoredType, RecordsAssumption
<1>2. Stored(t).tok = th[t].nr.tok /\ Stored(t).acct = th[t].nr.acct /\ Stored(t).ring = th[t].nr.ring
  BY TokenTypes DEF Stored, Record
<1> QED BY <1>1, <1>2

LEMMA HomedStart == Init => Homed
<1> SUFFICES ASSUME Init PROVE Homed
  OBVIOUS
<1> DEFINE kept == {c \in Creds : Present(mem, c)}
           home == [c \in kept |-> mem[c].acct]
<1>1. \A c \in Creds : Present(mem, c) => \E l \in Lineages : mem[c] = Fresh(Tok(l, 1))
  BY DEF Init, Present
<1>2. \A c \in kept : mem[c].acct = Owner(mem[c].tok) /\ mem[c].acct \in Accounts
  <2>1. \A l \in Lineages : /\ Fresh(Tok(l, 1)).acct = Owner(Fresh(Tok(l, 1)).tok)
                           /\ Fresh(Tok(l, 1)).acct \in Accounts
    BY TokensAssumption DEF Fresh, Owner, Tok
  <2> QED BY <1>1, <2>1
<1>3. home \in [kept -> Accounts] /\ kept \in SUBSET Creds
  BY <1>2
<1>4. \A c, d \in kept : home[c] = home[d] => c = d
  <2>1. UniqueAccounts(mem) /\ DOMAIN mem = Creds
    BY DEF Init
  <2> QED BY <2>1 DEF UniqueAccounts
<1>5. \A c \in Creds : Present(mem, c) => AtHome(home, c, mem[c])
  BY <1>2 DEF AtHome
<1>6. \A t \in Threads : Resident(home, th[t])
  BY DEF Init, Idle, Resident, Importing
<1>7. Homes(home)
  <2>1. disk = mem
    BY DEF Init
  <2> QED BY <1>3, <1>4, <1>5, <1>6, <2>1 DEF Homes
<1> HIDE DEF kept, home
<1> QED BY <1>3, <1>7 DEF Homed

LEMMA AdoptHome ==
    ASSUME NEW home, Homes(home), TypeOK, NEW t \in Threads, OfferMove(t), th'[t].pc = "adopt"
    PROVE  th'[t].c \in DOMAIN home /\ Owner(th'[t].tok) = home[th'[t].c]
<1>1. /\ Present(mem, th'[t].c) /\ th'[t].c \in Creds
      /\ mem[th'[t].c].acct = Owner(th'[t].tok)
  BY DEF OfferMove
<1> QED BY <1>1 DEF Homes, AtHome

\* What a thread comes to store is of the account of what it found.
LEMMA PutHome ==
    ASSUME NEW home, Homes(home), TypeOK, NEW t \in Threads, PutMove(t), th'[t].pc = "put"
    PROVE  AtHome(home, th'[t].c, th'[t].nr)
<1> DEFINE x == th[t]
           y == th'[t]
           old == mem[x.c]
           l == x.rec.tok.lin
<1>1. /\ Resident(home, x) /\ x.c \in Creds /\ x.rec \in Record /\ x.tok \in Token /\ y.c = x.c
      /\ (Present(mem, x.c) => AtHome(home, x.c, old) /\ old \in Record)
  BY TokenTypes DEF Homes, PutMove
<1>2. ASSUME x.pc = "refresh", y.nr = Replace(x.rec, Tok(l, latest'[l])),
             latest'[l] = latest[l] + 1, latest'[l] <= MaxSeq
      PROVE  AtHome(home, x.c, y.nr)
  <2>1. latest \in [Lineages -> 1..MaxSeq] /\ l \in Lineages
    BY <1>1 DEF TypeOK, OAuthTypeOK, Record, Token
  <2>2. Tok(l, latest'[l]) \in Token
    <3>1. latest'[l] \in 1..MaxSeq
      <4>1. latest[l] \in 1..MaxSeq /\ MaxSeq \in Nat
        BY <2>1, TokensAssumption
      <4> QED BY ONLY <1>2, <4>1
    <3> QED BY <2>1, <3>1, TokType
  <2>3. y.nr.tok = Tok(l, latest'[l]) /\ y.nr.acct = Owner(Tok(l, latest'[l]))
    BY <1>1, <1>2, <2>2, ReplaceFields
  <2>4. AtHome(home, x.c, x.rec)
    BY <1>1, <1>2 DEF Resident
  <2> QED BY <2>3, <2>4 DEF AtHome, Owner, Tok
<1>3. ASSUME x.pc = "refresh", y.nr = [x.rec EXCEPT !.health = "dead"] PROVE AtHome(home, x.c, y.nr)
  BY <1>1, <1>3 DEF Resident, AtHome, Record
<1>4. ASSUME x.pc = "transition", Present(mem, x.c), y.nr = [old EXCEPT !.health = x.to]
      PROVE  AtHome(home, x.c, y.nr)
  BY <1>1, <1>4 DEF AtHome, Record
<1>5. ASSUME x.pc = "adopt", Present(mem, x.c), y.nr = Replace(old, x.tok) PROVE AtHome(home, x.c, y.nr)
  BY <1>1, <1>5, ReplaceFields DEF Resident, AtHome
<1>6. x.pc # "install"
  BY <1>1 DEF Resident, Importing
<1> HIDE DEF x, y, old, l
<1>7. AtHome(home, x.c, y.nr)
  BY <1>2, <1>3, <1>4, <1>5, <1>6 DEF PutMove, x, y, old, l
<1> QED BY <1>1, <1>7 DEF x, y

LEMMA ThreadHome ==
    ASSUME NoImports, TypeOK, TypeOK', TokensIssued, CurrentWork, NEW home, Homes(home),
           NEW t \in Threads, Continue(t) \/ Begin(t)
    PROVE  Resident(home, th'[t])
<1> DEFINE x == th[t]
           y == th'[t]
<1>1. Moved(t) /\ PendingStep(t) /\ Resident(home, x)
  BY AllMoved, ThreadMoves DEF CurrentWork, Homes
<1>2. y.pc \notin Importing
  BY <1>1 DEF Moved, ImportMove, NoImports, Resident, Importing
<1>3. y.pc = "refresh" => AtHome(home, y.c, y.rec)
  <2>1. ASSUME y.pc = "refresh" PROVE y.c \in Creds /\ Present(mem, y.c) /\ y.rec = mem[y.c]
    <3>1. mem[y.c] # NoRecord /\ y.rec = mem[y.c]
      BY <1>1, <2>1 DEF PendingStep
    <3>2. y.c \in Creds
      BY DEF TypeOK, Thread
    <3> QED BY <3>1, <3>2 DEF Present
  <2> QED BY <2>1 DEF Homes
<1>4. y.pc = "put" => AtHome(home, y.c, y.nr)
  BY <1>1, PutHome DEF Moved
<1>5. y.pc = "bump" => AtHome(home, y.c, y.nr)
  <2> SUFFICES ASSUME y.pc = "bump" PROVE AtHome(home, y.c, y.nr)
    OBVIOUS
  <2>1. y.nr = Stored(t) /\ y.c = x.c /\ x.pc = "put"
    BY <1>1 DEF Moved, SaveMove
  <2> QED BY <1>1, <2>1, StoredFields DEF Resident, AtHome
<1>6. y.pc = "adopt" => y.c \in DOMAIN home /\ Owner(y.tok) = home[y.c]
  BY <1>1, AdoptHome DEF Moved
<1> HIDE DEF x, y
<1> QED BY <1>2, <1>3, <1>4, <1>5, <1>6 DEF Resident, y

LEMMA HomesStep ==
    ASSUME NoImports, TypeOK, TypeOK', TokensIssued, Exclusive, CurrentWork, NEW home, Homes(home), [Next]_vars
    PROVE  Homes(home)'
<1> DEFINE Kept(s) == \A c \in Creds : s[c] # NoRecord => AtHome(home, c, s[c])
<1>1. Kept(mem) /\ Kept(disk) /\ (\A c, d \in DOMAIN home : home[c] = home[d] => c = d)
  BY DEF Homes, Present
<1>2. Kept(mem') /\ \A t \in Threads : Resident(home, th'[t])
  <2>1. CASE Environment
    <3>1. mem' = mem \/ mem' = disk
      BY <2>1, EnvironmentHistory
    <3>2. ASSUME NEW t \in Threads PROVE Resident(home, th'[t])
      <4>1. CASE UNCHANGED th
        BY <4>1 DEF Homes
      <4>2. CASE th'[t] = Idle
        BY <4>2 DEF Idle, Resident, Importing
      <4> QED BY <2>1, <4>1, <4>2, EnvironmentThreads
    <3> QED BY <1>1, <3>1, <3>2
  <2>2. ASSUME NEW t \in Threads, Continue(t) \/ Begin(t)
        PROVE  Kept(mem') /\ \A u \in Threads : Resident(home, th'[u])
    <3>1. ASSUME NEW u \in Threads PROVE Resident(home, th'[u])
      <4>1. CASE u = t
        BY <2>2, <4>1, ThreadHome
      <4>2. CASE u # t
        <5>1. th'[u] = th[u]
          BY <2>2, <4>2, ThreadMoves DEF OtherThreads
        <5> QED BY <5>1 DEF Homes
      <4> QED BY <4>1, <4>2
    <3>2. CASE th[t].pc = "put" /\ mem' = [mem EXCEPT ![th[t].c] = Stored(t)]
      <4>1. AtHome(home, th[t].c, Stored(t))
        BY <3>2, StoredFields DEF Homes, Resident, AtHome
      <4>2. \A c \in Creds : mem'[c] = mem[c] \/ (c = th[t].c /\ mem'[c] = Stored(t))
        BY <3>2 DEF TypeOK
      <4>3. Kept(mem')
        BY <1>1, <4>1, <4>2
      <4> QED BY <3>1, <4>3
    <3>3. ASSUME NEW d \in Creds, Delete(t, d) PROVE Kept(mem')
      <4>1. \A c \in Creds : mem'[c] = mem[c] \/ mem'[c] = NoRecord
        BY <3>3 DEF Delete, TypeOK
      <4> QED BY <1>1, <4>1
    <3> QED BY <1>1, <2>2, <3>1, <3>2, <3>3, StoreMoves
  <2>3. CASE UNCHANGED vars
    BY <1>1, <2>3 DEF vars, Homes
  <2> QED BY <2>1, <2>2, <2>3 DEF Next
<1>3. Kept(disk')
  BY <1>1, <1>2, WholeSaves
<1> HIDE DEF Kept
<1>4. Homes(home)'
  BY <1>1, <1>2, <1>3 DEF Kept, Homes, Present
<1> QED BY <1>4

LEMMA HomedHolds ==
    ASSUME NoImports
    PROVE  Spec => []Homed
<1>1. TypeOK /\ TypeOK' /\ TokensIssued /\ Exclusive /\ CurrentWork /\ Homed /\ [Next]_vars => Homed'
  <2> SUFFICES ASSUME TypeOK, TypeOK', TokensIssued, Exclusive, CurrentWork, [Next]_vars,
                      NEW kept \in SUBSET Creds, NEW home \in [kept -> Accounts], Homes(home)
               PROVE  Homed'
    BY DEF Homed
  <2>1. Homes(home)'
    BY HomesStep
  <2> QED BY <2>1 DEF Homed
<1> QED BY <1>1, HomedStart, MutexHolds, PTL DEF Spec

\* Credentials of one account are one.
LEMMA HomedApart == ASSUME TypeOK, Homed PROVE UniqueAccounts(mem) /\ UniqueAccounts(disk)
<1>1. DOMAIN mem = Creds /\ DOMAIN disk = Creds
  BY DEF TypeOK
<1> QED BY <1>1 DEF Homed, Homes, AtHome, UniqueAccounts

-----------------------------------------------------------------------------
(* One credential per account.                                             *)

\* At most one activity imports at a time.
OneAdmin == \A t, u \in Threads : "import" \in Ops[t] /\ "import" \in Ops[u] => t = u

OwnAccount(s) == \A c \in Creds : Present(s, c) => s[c].acct = Owner(s[c].tok)

\* An import in flight has found its account free, and it still is.
ImportsFree ==
    \A t \in Threads : th[t].pc = "install" \/ (th[t].pc = "put" /\ th[t].op = "import")
        => Managing(mem, Owner(th[t].tok)) \subseteq {th[t].c}

\* A record that is to be replaced is stored.
PutsStored == \A t \in Threads : th[t].pc = "put" /\ th[t].op # "import" => Present(mem, th[t].c)

Accounted ==
    /\ PutsStored
    /\ UniqueAccounts(mem) /\ UniqueAccounts(disk)
    /\ OwnAccount(mem) /\ OwnAccount(disk)
    /\ ImportsFree

LEMMA OwnChangeFields ==
    ASSUME NEW old \in Record, NEW nr, OwnChange(old, nr)
    PROVE  /\ old.acct = Owner(old.tok) => nr.acct = old.acct /\ nr.acct = Owner(nr.tok)
           /\ nr.tok.lin = old.tok.lin
           /\ \/ nr.tok = old.tok /\ nr.ring = old.ring
              \/ nr = Replace(old, nr.tok)
<1>1. CASE nr = [old EXCEPT !.health = nr.health]
  <2>1. nr.acct = old.acct /\ nr.tok = old.tok /\ nr.ring = old.ring
    BY <1>1 DEF Record
  <2> QED BY <2>1
<1>2. ASSUME NEW i \in old.tok.seq + 1 .. MaxSeq, nr = Replace(old, Tok(old.tok.lin, i))
      PROVE  /\ nr = Replace(old, nr.tok) /\ nr.tok.lin = old.tok.lin
             /\ old.acct = Owner(old.tok) => nr.acct = old.acct /\ nr.acct = Owner(nr.tok)
  <2>1. old.tok \in Token /\ Tok(old.tok.lin, i) \in Token
    <3>1. old.tok \in Token /\ old.tok.seq \in 1..MaxSeq
      BY DEF Record, Token
    <3>2. i \in 1..MaxSeq
      BY <3>1, TokensAssumption
    <3> QED BY <3>1, <3>2, TokType DEF Token
  <2>2. nr.tok = Tok(old.tok.lin, i) /\ nr.acct = Owner(Tok(old.tok.lin, i))
    BY <1>2, <2>1, ReplaceFields
  <2> QED BY <1>2, <2>2 DEF Owner, Tok
<1> QED BY <1>1, <1>2 DEF OwnChange

\* The account of what is committed.
LEMMA CommitAccount ==
    ASSUME TypeOK, NEW t \in Threads, th[t].pc = "put", Worked, OwnAccount(mem), PutsStored
    PROVE  /\ Stored(t).acct = Owner(Stored(t).tok)
           /\ th[t].op = "import" => Stored(t).acct = Owner(th[t].tok)
           /\ th[t].op # "import" => Present(mem, th[t].c) /\ Stored(t).acct = mem[th[t].c].acct
<1> DEFINE x == th[t]
           old == mem[x.c]
<1>1. /\ x.c \in Creds /\ x.tok \in Token /\ x.nr \in Record /\ (old # NoRecord => old \in Record)
      /\ (old # NoRecord => old.acct = Owner(old.tok))
  BY TokenTypes DEF OwnAccount, Present
<1>2. ToCommit(x, old)
  BY DEF Worked, Works
<1>3. Stored(t).tok = x.nr.tok /\ Stored(t).acct = x.nr.acct
  BY StoredFields
<1>4. CASE x.op \notin Entrusted /\ old # NoRecord /\ OwnChange(old, x.nr)
  BY <1>1, <1>3, <1>4, OwnChangeFields DEF Present, Entrusted
<1>5. CASE x.op = "offer" /\ old # NoRecord /\ Adoption(x, old)
  BY <1>1, <1>3, <1>5, ReplaceFields DEF Adoption, Present
<1>6. CASE x.op = "import" /\ x.nr.tok = x.tok /\ x.nr.acct = Owner(x.tok)
  BY <1>3, <1>6
<1>7. x.op # "import" => old # NoRecord
  BY DEF PutsStored, Present
<1>8. CASE x.op # "import"
  BY <1>2, <1>4, <1>5, <1>7, <1>8 DEF ToCommit
<1>9. CASE x.op = "import"
  <2>1. x.op \in Entrusted /\ x.op # "offer"
    BY <1>9 DEF Entrusted
  <2>2. x.nr.tok = x.tok /\ x.nr.acct = Owner(x.tok)
    BY <1>2, <2>1 DEF ToCommit
  <2> QED BY <1>6, <1>9, <2>2
<1> QED BY <1>8, <1>9

LEMMA AccountedStart == Init => Accounted
<1> SUFFICES ASSUME Init PROVE Accounted
  OBVIOUS
<1>1. OwnAccount(mem) /\ disk = mem /\ UniqueAccounts(mem)
  BY DEF Init, OwnAccount, Present, Fresh
<1>2. \A t \in Threads : th[t].pc = "idle"
  BY DEF Init, Idle
<1> QED BY <1>1, <1>2 DEF Accounted, PutsStored, ImportsFree, OwnAccount, Present

LEMMA PutsStoredStep ==
    ASSUME NoDeletion, Basics, StillStored, PutsStored, NEW t \in Threads, Continue(t) \/ Begin(t)
    PROVE  PutsStored'
<1> SUFFICES ASSUME NEW u \in Threads, th'[u].pc = "put", th'[u].op # "import"
             PROVE  mem'[th'[u].c] # NoRecord
  BY DEF PutsStored, Present
<1>1. CASE u = t
  <2>1. Moved(t) /\ Works(th[t], mem[th[t].c], Ops[t])
    BY AllMoved DEF Basics, Worked
  <2>2. UNCHANGED mem /\ th'[t].c = th[t].c /\ th'[t].op = th[t].op
    BY <1>1, <2>1 DEF Moved, PutMove
  <2>3. th[t].pc # "install"
    BY <1>1, <2>1, <2>2 DEF Works, Importing
  <2>4. th[t].pc = "refresh" => Present(mem, th[t].c)
    BY DEF StillStored, Refreshing
  <2>5. Present(mem, th[t].c)
    BY <1>1, <2>1, <2>3, <2>4 DEF Moved, PutMove
  <2> QED BY <1>1, <2>2, <2>5 DEF Present
<1>2. CASE u # t
  <2>1. th'[u] = th[u]
    BY <1>2, ThreadMoves DEF OtherThreads, Basics
  <2>2. mem'[th[u].c] = mem[th[u].c]
    BY <1>2, <2>1, OthersCommit DEF Holding, Basics
  <2> QED BY <2>1, <2>2 DEF PutsStored, Present
<1> QED BY <1>1, <1>2

\* A commit keeps the accounts of the store apart and what is known of them.
LEMMA CommitAccounts ==
    ASSUME OneAdmin, TypeOK, Exclusive, Worked, Accounted, NEW t \in Threads, th[t].pc = "put",
           mem' = [mem EXCEPT ![th[t].c] = Stored(t)]
    PROVE  /\ UniqueAccounts(mem') /\ OwnAccount(mem')
           /\ \A a \in Accounts : th[t].op # "import" => Managing(mem', a) = Managing(mem, a)
<1> DEFINE c == th[t].c
           s == Stored(t)
<1>1. c \in Creds /\ mem \in [Creds -> Record \cup {NoRecord}]
  BY DEF TypeOK, Thread
<1>2. s # NoRecord /\ s.acct = Owner(s.tok)
  BY StoredFields, CommitAccount DEF Accounted
<1>3. DOMAIN mem = Creds /\ DOMAIN mem' = Creds /\ mem'[c] = s /\ \A d \in Creds \ {c} : mem'[d] = mem[d]
  BY <1>1
<1> HIDE DEF s
<1>4. OwnAccount(mem')
  BY <1>2, <1>3 DEF OwnAccount, Present, Accounted
<1>5. ASSUME th[t].op # "import" PROVE mem[c] # NoRecord /\ s.acct = mem[c].acct
  BY <1>5, CommitAccount DEF Accounted, Present, s
<1>6. ASSUME th[t].op = "import", NEW d \in Creds \ {c}, mem[d] # NoRecord PROVE mem[d].acct # s.acct
  <2>1. s.acct = Owner(th[t].tok)
    BY <1>6, CommitAccount DEF Accounted, s
  <2>2. d \notin Managing(mem, Owner(th[t].tok))
    BY <1>6 DEF Accounted, ImportsFree
  <2> QED BY <1>3, <1>6, <2>1, <2>2 DEF Managing, Present
<1>7. ASSUME NEW d \in Creds \ {c}, mem[d] # NoRecord PROVE mem[d].acct # s.acct
  BY <1>1, <1>3, <1>5, <1>6, <1>7 DEF Accounted, UniqueAccounts, Present
<1>8. UniqueAccounts(mem')
  BY <1>1, <1>3, <1>7 DEF UniqueAccounts, Present, Accounted
<1>9. ASSUME th[t].op # "import", NEW a PROVE Managing(mem', a) = Managing(mem, a)
  BY <1>1, <1>2, <1>3, <1>5, <1>9 DEF Managing, Present
<1> QED BY <1>4, <1>8, <1>9

LEMMA AccountedStep ==
    ASSUME OneAdmin, NoDeletion, Basics, StillStored, Accounted, [Next]_vars
    PROVE  Accounted'
<1>0. TypeOK /\ TokensIssued /\ Exclusive /\ Worked
  BY DEF Basics
<1>1. CASE UNCHANGED vars
  BY <1>1 DEF Accounted, PutsStored, ImportsFree, OwnAccount, Present, UniqueAccounts, Managing, vars
<1>2. CASE Environment
  <2>1. disk' = disk /\ (mem' = mem \/ mem' = disk)
    BY <1>2 DEF Environment, ProbeExpires, BackoffEnds, GrowsOld, Crash, Restart, Tick, Upstream, storeVars
  <2>2. UniqueAccounts(mem') /\ UniqueAccounts(disk') /\ OwnAccount(mem') /\ OwnAccount(disk')
    BY <2>1 DEF Accounted
  <2>3. ImportsFree' /\ PutsStored'
    <3>1. CASE UNCHANGED <<mem, th, minted, storeVer>>
      BY <3>1 DEF Accounted, ImportsFree, PutsStored, Managing, Present
    <3>2. CASE \A t \in Threads : th'[t].pc = "idle"
      BY <3>2 DEF ImportsFree, PutsStored
    <3> QED BY <1>0, <1>2, <3>1, <3>2, EnvironmentKeeps
  <2> QED BY <2>2, <2>3 DEF Accounted, UniqueAccounts, OwnAccount, Present
<1>3. ASSUME NEW t \in Threads, Continue(t) \/ Begin(t) PROVE Accounted'
  <2>1. UniqueAccounts(mem') /\ OwnAccount(mem')
    <3>1. CASE UNCHANGED mem
      BY <3>1 DEF Accounted
    <3> QED BY <1>0, <1>3, <3>1, OnlyCommits, CommitAccounts
  <2>2. UniqueAccounts(disk') /\ OwnAccount(disk')
    BY <2>1, WholeSaves DEF Accounted
  <2>3. ASSUME NEW u \in Threads, th'[u].pc = "install" \/ (th'[u].pc = "put" /\ th'[u].op = "import")
        PROVE  Managing(mem', Owner(th'[u].tok)) \subseteq {th'[u].c}
    <3>1. CASE u = t
      <4>1. Moved(t)
        BY <1>0, <1>3, AllMoved
      <4>2. CASE th'[t].pc = "install"
        <5>1. th[t].pc = "unique" /\ th'[t].tok = th[t].tok /\ th'[t].c = th[t].c /\ AccountFree(t)
          BY <4>1, <4>2 DEF Moved, ImportMove
        <5>2. UNCHANGED mem
          BY <1>3, <5>1, OnlyCommits
        <5> QED BY <3>1, <5>1, <5>2 DEF AccountFree
      <4>3. CASE th'[t].pc = "put" /\ th'[t].op = "import"
        <5>1. /\ UNCHANGED mem /\ th'[t].tok = th[t].tok /\ th'[t].c = th[t].c /\ th[t].op = "import"
              /\ th[t].pc \in {"refresh", "transition", "adopt", "install"}
          BY <4>1, <4>3 DEF Moved, PutMove
        <5>2. th[t].pc = "install"
          BY <1>0, <5>1 DEF Worked, Works, Busy, Offering, Importing, Entrusted
        <5> QED BY <3>1, <5>1, <5>2 DEF Accounted, ImportsFree
      <4> QED BY <2>3, <3>1, <4>2, <4>3
    <3>2. CASE u # t
      <4>1. th'[u] = th[u]
        BY <1>0, <1>3, <3>2, ThreadMoves DEF OtherThreads
      <4>2. Managing(mem, Owner(th[u].tok)) \subseteq {th[u].c} /\ Owner(th[u].tok) \in Accounts
        BY <1>0, <2>3, <4>1, TokenTypes, TokensAssumption DEF Accounted, ImportsFree, Owner, Token
      <4>3. CASE UNCHANGED mem
        BY <4>1, <4>2, <4>3
      <4>4. CASE th[t].pc = "put" /\ mem' = [mem EXCEPT ![th[t].c] = Stored(t)]
        <5>1. th[u].op = "import" /\ "import" \in Ops[u]
          BY <1>0, <2>3, <4>1 DEF Worked, Works, Importing, Entrusted
        <5>2. th[t].op # "import"
          BY <1>0, <3>2, <5>1 DEF OneAdmin, Worked, Works, Entrusted
        <5> QED BY <1>0, <4>1, <4>2, <4>4, <5>2, CommitAccounts
      <4> QED BY <1>3, <4>3, <4>4, OnlyCommits
    <3> QED BY <3>1, <3>2
  <2>4. ImportsFree'
    BY <2>3 DEF ImportsFree, Managing, Present
  <2>5. PutsStored'
    BY <1>3, PutsStoredStep DEF Accounted
  <2> QED BY <2>1, <2>2, <2>4, <2>5 DEF Accounted, UniqueAccounts, OwnAccount, Present
<1> QED BY <1>1, <1>2, <1>3 DEF Next

LEMMA AccountsHold ==
    ASSUME NoDeletion, OneAdmin
    PROVE  Spec => []Accounted
<1>1. Basics /\ StillStored /\ Accounted /\ [Next]_vars => Accounted'
  BY AccountedStep
<1> QED BY <1>1, AccountedStart, LawfulHolds, BasicsHold, PTL DEF Spec

\* While nobody deletes and imports come one after the other, or nobody
\* imports, no two credentials manage one account, in memory or on disk:
\* refreshes and adoptions that overtake an import keep the accounts apart,
\* and so do crashes, failing saves and commits that store a deleted record
\* again.  The broker can always start again.
THEOREM AccountsApart ==
    ASSUME (NoDeletion /\ OneAdmin) \/ NoImports
    PROVE  Spec => []OneCredPerAccount
<1>1. CASE NoDeletion /\ OneAdmin
  <2>1. Accounted => OneCredPerAccount
    BY DEF Accounted, OneCredPerAccount
  <2> QED BY <1>1, <2>1, AccountsHold, PTL
<1>2. CASE NoImports
  <2>1. TypeOK /\ Homed => OneCredPerAccount
    BY HomedApart DEF OneCredPerAccount
  <2> QED BY <1>2, <2>1, HomedHolds, TypeCorrect, PTL
<1> QED BY <1>1, <1>2

\* An adopted token goes where its account is managed at the very moment it is
\* committed, although it was routed before its thread took the mutex.
THEOREM AdoptionsRouted ==
    ASSUME NoDeletion, OneAdmin
    PROVE  Spec => AdoptionRouted
<1>1. Basics /\ Accounted /\ [Next]_vars =>
        [\A t \in Threads : th[t].pc = "put" /\ th[t].op = "offer" /\ th'[t].pc # "put" /\ up'
            => Managing(mem, Owner(th[t].tok)) = {th[t].c}]_vars
  <2> SUFFICES ASSUME Basics, Accounted, NEW t \in Threads, th[t].pc = "put", th[t].op = "offer"
               PROVE  Managing(mem, Owner(th[t].tok)) = {th[t].c}
    OBVIOUS
  <2>1. mem[th[t].c] # NoRecord /\ mem[th[t].c].acct = Owner(th[t].tok)
    BY DEF Basics, Accounted, PutsStored, Present, Worked, Works, ToCommit, Adoption, Entrusted
  <2>2. DOMAIN mem = Creds /\ th[t].c \in Creds
    BY DEF Basics, TypeOK, Thread
  <2> QED BY <2>1, <2>2 DEF Accounted, UniqueAccounts, Managing, Present
<1> QED BY <1>1, BasicsHold, AccountsHold, PTL DEF Spec, AdoptionRouted

-----------------------------------------------------------------------------
(* An acknowledged token is kept.                                          *)

Full(r) == Len(r.ring) >= RingSize

\* Record r has token k, has retired it, or has run out of room to know.
Holds(r, k) == r.tok = k \/ InRing(k, r) \/ Full(r)

LEMMA RetiredHolds ==
    ASSUME NEW r \in Record, NEW nr \in Record, nr.ring = RetireHash(r.ring, r.tok),
           NEW k \in Token, Holds(r, k)
    PROVE  Holds(nr, k)
<1> DEFINE out == RetireHash(r.ring, r.tok)
<1>1. r.ring \in Ring /\ r.tok \in Token /\ RingSize \in Nat /\ Len(r.ring) \in Nat
  BY RecordsAssumption DEF Record, Ring
<1>2. /\ Len(out) \in 1..RingSize /\ Len(r.ring) <= Len(out) /\ out[Len(out)] = r.tok
      /\ Len(r.ring) < RingSize => \A i \in 1..Len(r.ring) : \E j \in 1..Len(out) : out[j] = r.ring[i]
  BY <1>1, RetireHashProperties
<1> HIDE DEF out
<1>3. nr.ring = out
  BY DEF out
<1>4. CASE Full(r)
  BY <1>1, <1>2, <1>3, <1>4 DEF Full, Holds
<1>5. CASE r.tok = k
  BY <1>1, <1>2, <1>3, <1>5 DEF Holds, InRing
<1>6. CASE InRing(k, r) /\ ~Full(r)
  <2>1. Len(r.ring) < RingSize
    BY <1>1, <1>6 DEF Full
  <2> QED BY <1>2, <1>3, <1>6, <2>1 DEF Holds, InRing
<1> QED BY <1>4, <1>5, <1>6 DEF Holds

LEMMA CommitHolds ==
    ASSUME TypeOK, NEW t \in Threads, th[t].pc = "put", Worked, Present(mem, th[t].c),
           NEW k \in Token, Holds(mem[th[t].c], k)
    PROVE  Holds(Stored(t), k)
<1> DEFINE x == th[t]
           old == mem[x.c]
           s == Stored(t)
<1>1. x.tok \in Token /\ x.nr \in Record /\ x.nr.tok \in Token /\ old \in Record /\ old # NoRecord
  BY TokenTypes DEF Present
<1>2. ToCommit(x, old)
  BY DEF Worked, Works
<1>3. s \in Record /\ s.tok = x.nr.tok /\ s.ring = x.nr.ring
  BY StoredFields
<1>4. (x.nr.tok = old.tok /\ x.nr.ring = old.ring) \/ \E j \in Token : x.nr = Replace(old, j)
  BY <1>1, <1>2, OwnChangeFields DEF ToCommit, Adoption
<1> HIDE DEF x, old, s
<1>5. (s.tok = old.tok /\ s.ring = old.ring) \/ s.ring = RetireHash(old.ring, old.tok)
  BY <1>1, <1>3, <1>4, ReplaceFields
<1>6. Holds(old, k)
  BY DEF x, old
<1>7. Holds(s, k)
  BY <1>1, <1>3, <1>5, <1>6, RetiredHolds DEF Holds, InRing, Full
<1> QED BY <1>7 DEF s

AckedKept ==
    \A e \in acked : Issued(e[2]) /\ Present(mem, e[1]) /\ Holds(mem[e[1]], e[2])

LEMMA AckedStart == Init => AckedKept
  BY DEF Init, AckedKept

LEMMA AckedStep ==
    ASSUME mem = disk, Basics, TypeOK', AckedKept, [Next]_vars
    PROVE  AckedKept'
<1>1. TypeOK /\ TokensIssued /\ Worked /\ acked \in SUBSET (Creds \X Token)
  BY DEF Basics, TypeOK
<1>2. \A k \in Token : Issued(k) => Issued(k)'
  BY <1>1, StepShape, UpstreamGrows DEF Issued, IssuedNext
<1>3. CASE UNCHANGED <<mem, acked>>
  <2>1. \A e \in acked : e[2] \in Token
    BY <1>1
  <2> QED BY <1>2, <1>3, <2>1 DEF AckedKept, Present
<1>4. CASE Environment
  BY <1>3, <1>4, EnvironmentHistory
<1>5. ASSUME NEW t \in Threads, Continue(t) \/ Begin(t), ~UNCHANGED <<mem, acked>> PROVE AckedKept'
  <2>1. AckStep(t)
    BY <1>1, <1>5, History
  <2>2. CASE acked' = acked /\ th[t].pc = "put" /\ mem' = [mem EXCEPT ![th[t].c] = Stored(t)]
    <3>1. ASSUME NEW e \in acked PROVE Issued(e[2])' /\ mem'[e[1]] # NoRecord /\ Holds(mem'[e[1]], e[2])
      <4>1. e[1] \in Creds /\ e[2] \in Token /\ mem \in [Creds -> Record \cup {NoRecord}]
        BY <1>1 DEF TypeOK
      <4>2. Issued(e[2])'
        BY <1>2, <4>1 DEF AckedKept
      <4>3. CASE e[1] = th[t].c
        <5>1. mem'[e[1]] = Stored(t)
          BY <2>2, <4>1, <4>3
        <5>2. Holds(Stored(t), e[2]) /\ Stored(t) # NoRecord
          BY <1>1, <2>2, <4>1, <4>3, CommitHolds, StoredFields DEF AckedKept
        <5> QED BY <4>2, <5>1, <5>2
      <4>4. CASE e[1] # th[t].c
        <5>1. mem'[e[1]] = mem[e[1]]
          BY <2>2, <4>1, <4>4
        <5> QED BY <4>2, <5>1 DEF AckedKept, Present
      <4> QED BY <4>3, <4>4
    <3> QED BY <2>2, <3>1 DEF AckedKept, Present
  <2>3. CASE UNCHANGED mem
    <3> DEFINE x == th[t]
    <3>1. /\ acked' = acked \cup {<<x.c, x.tok>>} /\ UNCHANGED mem
          /\ mem[x.c] # NoRecord /\ mem[x.c].tok = x.tok
      <4>1. ~\E c \in Creds : Delete(t, c)
        BY <1>1, <2>3 DEF Delete, TypeOK, Present
      <4> QED BY <1>1, <1>5, <2>1, <2>3, <4>1 DEF AckStep, Worked, Works, Present
    <3>2. x.tok \in Token /\ Issued(x.tok) /\ x.c \in Creds
      BY <1>1, TokenTypes DEF TokensIssued
    <3> HIDE DEF x
    <3>3. ASSUME NEW e \in acked' PROVE Issued(e[2])' /\ mem'[e[1]] # NoRecord /\ Holds(mem'[e[1]], e[2])
      <4>1. CASE e \in acked
        BY <1>1, <1>2, <3>1, <4>1 DEF AckedKept, Present
      <4>2. CASE e = <<x.c, x.tok>>
        BY <1>2, <3>1, <3>2, <4>2 DEF Holds
      <4> QED BY <3>1, <4>1, <4>2
    <3> QED BY <3>3 DEF AckedKept, Present
  <2>4. ASSUME NEW c \in Creds, Delete(t, c) PROVE AckedKept'
    <3>1. mem' = [mem EXCEPT ![c] = NoRecord] /\ acked' = {e \in acked : e[1] # c}
      BY <2>4 DEF Delete
    <3>2. ASSUME NEW e \in acked' PROVE Issued(e[2])' /\ mem'[e[1]] # NoRecord /\ Holds(mem'[e[1]], e[2])
      <4>1. e \in acked /\ e[1] # c /\ e[1] \in Creds /\ e[2] \in Token
        BY <1>1, <3>1
      <4>2. mem'[e[1]] = mem[e[1]]
        BY <1>1, <3>1, <4>1 DEF TypeOK
      <4> QED BY <1>2, <4>1, <4>2 DEF AckedKept, Present
    <3> QED BY <3>2 DEF AckedKept, Present
  <2>5. th[t].pc = "put" => UNCHANGED acked
    <3>1. ASSUME th[t].pc = "put", NEW c \in Creds PROVE ~Delete(t, c)
      BY <3>1 DEF Delete, Starts, At
    <3> QED BY <2>1, <3>1 DEF AckStep
  <2> QED BY <1>5, <2>2, <2>3, <2>4, <2>5, StoreMoves
<1>6. CASE UNCHANGED vars
  BY <1>3, <1>6 DEF vars, history
<1> QED BY <1>3, <1>4, <1>5, <1>6 DEF Next

\* No ring on disk has been filled.
Roomy == \A c \in Creds : Present(disk, c) => Len(disk[c].ring) < RingSize

\* While saves work, a token the broker told a client it holds is on disk or
\* retired there by a newer one until an admin deletes the credential, over
\* crashes, restarts, lost answers and every race of offers, refreshes, imports
\* and deletions -- until RingSize replacements have filled the ring.
THEOREM AcknowledgedKept ==
    ASSUME SavesWork
    PROVE  Spec => [](Roomy => AckedDurable)
<1>1. mem = disk /\ [Next]_vars => (mem = disk)'
  BY SavedStep
<1>2. mem = disk /\ Basics /\ TypeOK' /\ AckedKept /\ [Next]_vars => AckedKept'
  BY AckedStep
<1>3. TypeOK /\ mem = disk /\ AckedKept => (Roomy => AckedDurable)
  <2> SUFFICES ASSUME TypeOK, mem = disk, AckedKept, Roomy, NEW e \in acked
               PROVE  Present(disk, e[1]) /\ (disk[e[1]].tok = e[2] \/ InRing(e[2], disk[e[1]]))
    BY DEF AckedDurable
  <2>1. Present(disk, e[1]) /\ Holds(disk[e[1]], e[2]) /\ e[1] \in Creds
    BY DEF AckedKept, TypeOK, Present
  <2>2. disk[e[1]].ring \in Ring /\ Len(disk[e[1]].ring) < RingSize
    BY <2>1, TokenTypes DEF Roomy, Record
  <2>3. ~Full(disk[e[1]])
    BY <2>2, RecordsAssumption DEF Full, Ring
  <2> QED BY <2>1, <2>3 DEF Holds
<1> QED BY <1>1, <1>2, <1>3, SavedStart, AckedStart, BasicsHold, TypeCorrect, PTL DEF Spec

-----------------------------------------------------------------------------
(* No rollback.                                                            *)

\* The token that is about to replace another was never acknowledged for the
\* credential.
PendingNew ==
    \A t \in Threads :
        LET x == th[t] IN
        x.pc = "put" /\ Present(mem, x.c) /\ x.nr.tok # mem[x.c].tok
            => <<x.c, x.nr.tok>> \notin acked \/ Full(mem[x.c])

LEMMA PendingStart == Init => PendingNew
  BY DEF Init, PendingNew, Idle

\* The thread that comes to commit.
LEMMA NewIsNew ==
    ASSUME NoImports, Basics, AckedKept, NEW t \in Threads, Continue(t) \/ Begin(t),
           th'[t].pc = "put", Present(mem, th'[t].c), th'[t].nr.tok # mem[th'[t].c].tok
    PROVE  UNCHANGED acked /\ (<<th'[t].c, th'[t].nr.tok>> \notin acked \/ Full(mem[th'[t].c]))
<1> DEFINE x == th[t]
           y == th'[t]
           old == mem[x.c]
           l == x.rec.tok.lin
<1>1. /\ TypeOK /\ TokensIssued /\ Works(x, old, Ops[t]) /\ WorksOnStored(t)
      /\ Moved(t) /\ AckStep(t) /\ Works(y, mem'[y.c], Ops[t])
  BY AllMoved, History, ThreadWorks DEF Basics, Worked, CurrentWork, AllInformed
<1>2. y.op = x.op /\ y.tok = x.tok /\ y.c = x.c /\ UNCHANGED mem
  BY <1>1 DEF Moved, PutMove
<1>3. /\ x.c \in Creds /\ x.tok \in Token /\ x.rec \in Record /\ x.rec.tok \in Token /\ l \in Lineages
      /\ old \in Record /\ old # NoRecord /\ acked \in SUBSET (Creds \X Token)
  BY <1>1, <1>2, TokenTypes DEF TypeOK, Token, Present
<1>10. x.pc # "idle" => \A c \in Creds : ~Delete(t, c)
  BY DEF Delete, Starts, At
<1>4. ASSUME x.pc = "refresh", y.nr = Replace(x.rec, Tok(l, latest'[l])),
             latest'[l] = latest[l] + 1, latest'[l] <= MaxSeq
      PROVE  UNCHANGED acked /\ <<y.c, y.nr.tok>> \notin acked
  <2>1. latest \in [Lineages -> 1..MaxSeq]
    BY <1>1 DEF TypeOK, OAuthTypeOK
  <2>2. ~Issued(y.nr.tok)
    BY <1>3, <1>4, <2>1, MintedPair
  <2> QED BY <1>1, <1>4, <1>10, <2>2 DEF AckedKept, AckStep
<1>5. ASSUME x.pc = "refresh", y.nr = [x.rec EXCEPT !.health = "dead"] PROVE FALSE
  <2>1. x.rec = old
    BY <1>1, <1>3, <1>5 DEF WorksOnStored, Present
  <2> QED BY <1>2, <1>3, <1>5, <2>1 DEF Record
<1>6. ASSUME x.pc = "transition", y.nr = [old EXCEPT !.health = x.to] PROVE FALSE
  BY <1>2, <1>3, <1>6 DEF Record
<1>7. ASSUME x.pc = "adopt", StoreUnchanged(t), old.tok # x.tok, y.nr = Replace(old, x.tok)
      PROVE  UNCHANGED acked /\ (<<y.c, y.nr.tok>> \notin acked \/ Full(old))
  <2>1. x.op = "offer"
    BY <1>1, <1>7 DEF Works, Offering
  <2>2. ToCommit(y, old)
    BY <1>1, <1>2 DEF Works
  <2>3. ~InRing(x.tok, old)
    BY <1>2, <1>3, <2>1, <2>2 DEF ToCommit, Adoption, Entrusted
  <2>4. y.nr.tok = x.tok
    BY <1>3, <1>7, ReplaceFields
  <2>5. UNCHANGED acked
    BY <1>1, <1>7, <1>10 DEF AckStep
  <2>6. ASSUME <<x.c, x.tok>> \in acked PROVE Full(old)
    BY <1>7, <2>3, <2>6 DEF AckedKept, Holds
  <2> QED BY <1>2, <2>4, <2>5, <2>6
<1>8. x.pc # "install"
  BY <1>1 DEF NoImports, Works, Importing, Entrusted
<1> HIDE DEF x, y, old, l
<1>9. UNCHANGED acked /\ (<<y.c, y.nr.tok>> \notin acked \/ Full(old))
  BY <1>1, <1>4, <1>5, <1>6, <1>7, <1>8 DEF Moved, PutMove, x, y, old, l
<1> QED BY <1>2, <1>9 DEF x, y, old

LEMMA PendingNewStep ==
    ASSUME NoImports, mem = disk, Basics, AckedKept, PendingNew, [Next]_vars
    PROVE  PendingNew'
<1>1. TypeOK /\ TokensIssued /\ Exclusive
  BY DEF Basics
<1>2. CASE UNCHANGED <<th, mem, acked>>
  BY <1>2 DEF PendingNew, Present, Full
<1>3. CASE Environment
  <2>1. CASE \A t \in Threads : th'[t] = Idle
    <3>1. Idle.pc = "idle"
      BY DEF Idle
    <3> QED BY <2>1, <3>1 DEF PendingNew
  <2> QED BY <1>1, <1>2, <1>3, <2>1, EnvironmentHistory, EnvironmentThreads
<1>4. ASSUME NEW t \in Threads, Continue(t) \/ Begin(t), NEW u \in Threads,
             th'[u].pc = "put", mem'[th'[u].c] # NoRecord, th'[u].nr.tok # mem'[th'[u].c].tok
      PROVE  <<th'[u].c, th'[u].nr.tok>> \notin acked' \/ Full(mem'[th'[u].c])
  <2>1. CASE u = t
    <3>1. UNCHANGED mem
      BY <1>1, <1>4, <2>1, AllMoved DEF Moved, PutMove
    <3> QED BY <1>4, <2>1, <3>1, NewIsNew DEF Present
  <2>2. CASE u # t
    <3>1. th'[u] = th[u]
      BY <1>1, <1>4, <2>2, ThreadMoves DEF OtherThreads
    <3>2. mem'[th[u].c] = mem[th[u].c] /\ lock[th[u].c] = u
      BY <1>1, <1>4, <2>2, <3>1, OthersCommit DEF Holding, Exclusive
    <3>3. <<th[u].c, th[u].nr.tok>> \notin acked \/ Full(mem[th[u].c])
      BY <1>4, <3>1, <3>2 DEF PendingNew, Present
    <3>4. acked' \subseteq acked \/ (acked' = acked \cup {<<th[t].c, th[t].tok>>} /\ th[t].c # th[u].c)
      <4>1. AckStep(t)
        BY <1>1, <1>4, History
      <4>2. th[t].pc = "bump" => lock[th[t].c] = t
        BY <1>1 DEF Exclusive, Holding
      <4>3. u # NoThread
        BY BrokerAssumption
      <4> QED BY <2>2, <3>2, <4>1, <4>2, <4>3 DEF AckStep, Free, Delete
    <3> QED BY <3>1, <3>2, <3>3, <3>4
  <2> QED BY <2>1, <2>2
<1>5. (\E t \in Threads : Continue(t) \/ Begin(t)) => PendingNew'
  BY <1>4 DEF PendingNew, Present
<1>6. CASE UNCHANGED vars
  BY <1>2, <1>6 DEF vars, history
<1> QED BY <1>3, <1>5, <1>6 DEF Next

\* While saves work and nobody imports, a token that was replaced after it was
\* acknowledged does not come back by an offer or a refresh, as long as no ring
\* is full: not even when the offer was verified before the replacement, or the
\* broker crashed and restarted in between, or an admin deleted the credential
\* and a commit in flight stored it again.
THEOREM NoRollback ==
    ASSUME NoImports, SavesWork
    PROVE  Spec /\ []Roomy => NeverRolledBack
<1>1. mem = disk /\ [Next]_vars => (mem = disk)'
  BY SavedStep
<1>2. mem = disk /\ Basics /\ TypeOK' /\ AckedKept /\ [Next]_vars => AckedKept'
  BY AckedStep
<1>3. mem = disk /\ Basics /\ AckedKept /\ PendingNew /\ [Next]_vars => PendingNew'
  BY PendingNewStep
<1>4. mem = disk /\ Basics /\ PendingNew /\ Roomy /\ [Next]_vars =>
        [\A c \in Creds : Present(mem, c) /\ Present(mem', c) /\ mem'[c].tok # mem[c].tok
            => <<c, mem'[c].tok>> \notin acked]_vars
  <2> SUFFICES ASSUME mem = disk, Basics, PendingNew, Roomy, [Next]_vars, NEW c \in Creds,
                      Present(mem, c), Present(mem', c), mem'[c].tok # mem[c].tok
               PROVE  <<c, mem'[c].tok>> \notin acked
    OBVIOUS
  <2>1. TypeOK
    BY DEF Basics
  <2>2. PICK t \in Threads : Continue(t) \/ Begin(t)
    BY EnvironmentHistory DEF Next, vars
  <2>3. th[t].pc = "put" /\ mem' = [mem EXCEPT ![th[t].c] = Stored(t)]
    <3>1. mem \in [Creds -> Record \cup {NoRecord}]
      BY <2>1 DEF TypeOK
    <3>2. ASSUME NEW d \in Creds, Delete(t, d) PROVE FALSE
      <4>1. mem' = [mem EXCEPT ![d] = NoRecord]
        BY <3>2 DEF Delete
      <4> QED BY <3>1, <4>1 DEF Present
    <3> QED BY <2>2, <3>2, StoreMoves
  <2>4. th[t].c = c /\ mem'[c] = Stored(t)
    BY <2>1, <2>3 DEF TypeOK
  <2>5. mem'[c].tok = th[t].nr.tok
    BY <2>1, <2>4, StoredFields
  <2>6. ~Full(mem[c])
    <3>1. mem[c].ring \in Ring /\ Len(mem[c].ring) < RingSize
      BY <2>1, TokenTypes DEF Roomy, Record
    <3> QED BY <3>1, RecordsAssumption DEF Full, Ring
  <2> QED BY <2>3, <2>4, <2>5, <2>6 DEF PendingNew
<1> QED BY <1>1, <1>2, <1>3, <1>4, SavedStart, AckedStart, PendingStart, BasicsHold, TypeCorrect,
           PTL DEF Spec, NeverRolledBack

-----------------------------------------------------------------------------
(* No rotation is lost.                                                    *)

NoLoss == "lost" \notin FaultKinds
NoCrash == "crash" \notin FaultKinds \/ \A t \in Threads : "crash" \notin Ops[t]

\* Token k is not behind what was minted of its lineage, nor behind what is
\* stored or being refreshed.
TopOf(k) ==
    /\ k.seq >= minted[k.lin]
    /\ \A c \in Creds : Present(mem, c) /\ mem[c].tok.lin = k.lin => mem[c].tok.seq <= k.seq
    /\ \A t \in Threads : th[t].pc = "refresh" /\ th[t].rec.tok.lin = k.lin => th[t].rec.tok.seq <= k.seq

\* A thread is committing credential c.
Committing(c) == \E u \in Threads : th[u].pc \in {"put", "bump"} /\ th[u].c = c

\* Token k is the one of credential c, or was when a thread began to refresh it.
Current(c, k) ==
    \/ Present(mem, c) /\ mem[c].tok = k
    \/ \E u \in Threads : th[u].pc = "refresh" /\ th[u].c = c /\ th[u].rec.tok = k

\* Credential c is stored, or a thread may yet store it again.
InUse(c) == Present(mem, c) \/ \E u \in Threads : th[u].pc \in Holding /\ th[u].c = c

\* What keeps an offer of token k to credential c, begun at store version v,
\* from rolling the store back: it is the newest, or the recheck of the version
\* will fail, or the mutex is taken, or there is nothing to adopt, or nothing
\* to adopt it over.
Settled(c, k, v) == TopOf(k) \/ storeVer > v \/ Committing(c) \/ Current(c, k) \/ ~InUse(c)

OffersSettled(home) ==
    \A t \in Threads, c \in Creds :
        th[t].pc \in {"route", "adopt"} /\ c \in DOMAIN home /\ home[c] = Owner(th[t].tok)
            => Settled(c, th[t].tok, th[t].ver)

MintedIssued == \A l \in Lineages : minted[l] <= latest[l]

Rotations ==
    /\ VersionsPast /\ MintedIssued
    /\ \E kept \in SUBSET Creds : \E home \in [kept -> Accounts] : Homes(home) /\ OffersSettled(home)

LEMMA RotationsStart == Init => Rotations
<1> SUFFICES ASSUME Init PROVE Rotations
  OBVIOUS
<1>1. \A t \in Threads : th[t].pc = "idle"
  BY DEF Init, Idle
<1>2. minted = [l \in Lineages |-> 0] /\ latest = [l \in Lineages |-> 1]
  BY DEF Init, OAuthInit
<1>3. \A l \in Lineages : minted[l] = 0 /\ latest[l] = 1
  BY <1>2
<1>4. MintedIssued
  <2>1. 0 \in Int /\ 1 \in Int /\ 0 <= 1
    OBVIOUS
  <2> QED BY <1>3, <2>1 DEF MintedIssued
<1>5. \A kept \in SUBSET Creds : \A home \in [kept -> Accounts] : OffersSettled(home)
  BY <1>1 DEF OffersSettled
<1>6. Homed
  BY HomedStart
<1> QED BY <1>1, <1>4, <1>5, <1>6 DEF Homed, Rotations, VersionsPast, Offering

\* Two records of one lineage are of one credential.
LEMMA LineageHome ==
    ASSUME NEW home, Homes(home), NEW c, NEW r, AtHome(home, c, r), NEW d, NEW s, AtHome(home, d, s),
           r.tok.lin = s.tok.lin
    PROVE  c = d
  BY DEF Homes, AtHome, Owner

\* A thread comes to hold the mutex of a credential that is stored.
LEMMA HoldsStored ==
    ASSUME NoImports, TypeOK, TokensIssued, CurrentWork, NEW home, Homes(home),
           NEW t \in Threads, Continue(t) \/ Begin(t), th'[t].pc \in Holding
    PROVE  Present(mem, th'[t].c) \/ (th[t].pc \in Holding /\ th'[t].c = th[t].c)
<1>1. Moved(t) /\ PendingStep(t) /\ th[t].pc # "install"
  BY AllMoved, ThreadMoves DEF CurrentWork, Homes, Resident, Importing
<1>2. CASE th'[t].pc = "refresh"
  BY <1>1, <1>2 DEF PendingStep, Present
<1>3. CASE th'[t].pc = "put"
  BY <1>1, <1>3 DEF Moved, PutMove, Holding
<1>4. CASE th'[t].pc = "bump"
  BY <1>1, <1>4 DEF Moved, SaveMove, Holding
<1> QED BY <1>2, <1>3, <1>4 DEF Holding

\* A credential that is gone does not come back.
LEMMA GoneStep ==
    ASSUME NoImports, Basics, NEW home, Homes(home), NEW t \in Threads, Continue(t) \/ Begin(t),
           NEW c \in Creds, ~InUse(c)
    PROVE  ~InUse(c)'
<1>1. TypeOK /\ TokensIssued /\ CurrentWork
  BY DEF Basics
<1>2. mem'[c] = NoRecord
  <2>1. mem[c] = NoRecord /\ mem \in [Creds -> Record \cup {NoRecord}]
    BY <1>1 DEF InUse, Present, TypeOK
  <2>2. CASE th[t].pc = "put" /\ mem' = [mem EXCEPT ![th[t].c] = Stored(t)]
    <3>1. th[t].c # c
      BY <2>2 DEF InUse, Holding
    <3> QED BY <2>1, <2>2, <3>1
  <2>3. ASSUME NEW d \in Creds, Delete(t, d) PROVE mem'[c] = NoRecord
    BY <2>1, <2>3 DEF Delete
  <2> QED BY <2>1, <2>2, <2>3, StoreMoves
<1>3. ASSUME NEW u \in Threads, th'[u].pc \in Holding, th'[u].c = c PROVE FALSE
  <2>1. CASE u = t
    BY <1>1, <1>3, <2>1, HoldsStored DEF InUse
  <2>2. CASE u # t
    BY <1>1, <1>3, <2>2, ThreadMoves DEF OtherThreads, InUse
  <2> QED BY <2>1, <2>2
<1> QED BY <1>2, <1>3 DEF InUse, Present

\* A commit ends in a new version; until then the credential is taken.
LEMMA CommittingStep ==
    ASSUME SavesWork, Basics, NEW t \in Threads, Continue(t) \/ Begin(t),
           NEW c \in Creds, Committing(c), NEW v \in Nat, v <= storeVer
    PROVE  Committing(c)' \/ storeVer' > v
<1>1. TypeOK /\ TokensIssued /\ storeVer \in Nat
  BY RotationTypes DEF Basics
<1>2. PICK w \in Threads : th[w].pc \in {"put", "bump"} /\ th[w].c = c
  BY DEF Committing
<1>3. CASE w # t
  BY <1>1, <1>2, <1>3, ThreadMoves DEF OtherThreads, Committing
<1>4. CASE w = t /\ th[t].pc = "bump"
  BY <1>1, <1>4, History DEF CountStep
<1>5. CASE w = t /\ th[t].pc = "put"
  <2>1. th'[t].pc = "bump"
    BY <1>1, <1>5, History DEF CountStep, SavesWork
  <2>2. th'[t].c = th[t].c
    BY <1>1, <2>1, AllMoved DEF Moved, SaveMove
  <2> QED BY <1>2, <1>5, <2>1, <2>2 DEF Committing
<1> QED BY <1>2, <1>3, <1>4, <1>5

\* The current token stays current until it is replaced or deleted.
LEMMA CurrentStays ==
    ASSUME NoImports, Basics, NEW t \in Threads, Continue(t) \/ Begin(t),
           NEW c \in Creds, NEW k, Current(c, k), ~Committing(c)
    PROVE  Committing(c)' \/ Current(c, k)' \/ ~InUse(c)'
<1>1. /\ TypeOK /\ TokensIssued /\ Exclusive /\ CurrentWork /\ mem \in [Creds -> Record \cup {NoRecord}]
      /\ PendingStep(t)
  BY ThreadMoves DEF Basics, TypeOK, CurrentWork
<1>2. \A u \in Threads : u = t \/ th'[u] = th[u]
  BY <1>1, ThreadMoves DEF OtherThreads
<1>3. ~(th[t].pc = "put" /\ th[t].c = c)
  BY DEF Committing
<1>4. mem'[c] = mem[c] \/ Delete(t, c)
  <2>1. ASSUME th[t].pc = "put", mem' = [mem EXCEPT ![th[t].c] = Stored(t)] PROVE mem'[c] = mem[c]
    BY <1>1, <1>3, <2>1
  <2>2. ASSUME NEW d \in Creds, Delete(t, d), d # c PROVE mem'[c] = mem[c]
    BY <1>1, <2>2 DEF Delete
  <2> QED BY <2>1, <2>2, StoreMoves
<1>5. CASE mem'[c] = mem[c] /\ Present(mem, c) /\ mem[c].tok = k
  BY <1>5 DEF Current, Present
<1>6. CASE Delete(t, c) /\ Present(mem, c) /\ mem[c].tok = k
  <2>1. mem'[c] = NoRecord /\ th' = th
    BY <1>1, <1>6 DEF Delete
  <2>2. ASSUME NEW u \in Threads, th[u].pc \in Holding, th[u].c = c PROVE Current(c, k)'
    <3>1. th[u].pc = "refresh"
      BY <2>2 DEF Committing, Holding
    <3>2. th[u].rec.tok = k
      BY <1>1, <1>6, <2>2, <3>1 DEF CurrentWork, WorksOnStored
    <3> QED BY <2>1, <2>2, <3>1, <3>2 DEF Current
  <2> QED BY <2>1, <2>2 DEF InUse, Present
<1>7. ASSUME NEW w \in Threads, th[w].pc = "refresh", th[w].c = c, th[w].rec.tok = k
      PROVE  Committing(c)' \/ Current(c, k)' \/ ~InUse(c)'
  <2>1. CASE w # t
    BY <1>2, <1>7, <2>1 DEF Current
  <2>2. CASE w = t
    <3>1. ~Delete(t, c)
      BY <1>7, <2>2 DEF Delete, Starts, At
    <3>2. CASE mem[c] # NoRecord
      BY <1>1, <1>4, <1>7, <2>2, <3>1, <3>2 DEF CurrentWork, WorksOnStored, Current, Present
    <3>3. CASE mem[c] = NoRecord
      <4>1. ASSUME NEW u \in Threads, th'[u].pc \in Holding, th'[u].c = c PROVE Committing(c)'
        <5>1. CASE u = t
          BY <1>1, <3>3, <4>1, <5>1 DEF PendingStep, Holding, Committing
        <5>2. CASE u # t
          <6>1. th[u].pc \in Holding /\ th[u].c = c
            BY <1>2, <4>1, <5>2
          <6> QED BY <1>1, <1>7, <2>2, <5>2, <6>1 DEF Exclusive, Holding
        <5> QED BY <5>1, <5>2
      <4> QED BY <1>4, <3>1, <3>3, <4>1 DEF InUse, Present
    <3> QED BY <3>2, <3>3
  <2> QED BY <2>1, <2>2
<1> QED BY <1>4, <1>5, <1>6, <1>7 DEF Current

LEMMA SettledStep ==
    ASSUME NoImports, SavesWork, NoLoss \/ Rotating, Basics, TypeOK', NEW home, Homes(home),
           NEW t \in Threads, Continue(t) \/ Begin(t),
           NEW c \in Creds, NEW k \in Token, c \in DOMAIN home, home[c] = Owner(k), Issued(k),
           NEW v \in Nat, v <= storeVer, Settled(c, k, v)
    PROVE  Settled(c, k, v)'
<1>1. TypeOK /\ TokensIssued /\ CurrentWork /\ storeVer \in Nat /\ mem \in [Creds -> Record \cup {NoRecord}]
  BY RotationTypes DEF Basics, TypeOK
<1>2. CASE storeVer > v
  BY <1>1, <1>2, History DEF CountStep, Settled
<1>3. CASE Committing(c)
  BY <1>3, CommittingStep DEF Settled
<1>4. CASE Current(c, k) /\ ~Committing(c)
  BY <1>4, CurrentStays DEF Settled
<1>5. CASE ~InUse(c)
  BY <1>5, GoneStep DEF Settled
<1>6. CASE TopOf(k) /\ ~Committing(c) /\ ~Current(c, k)
  <2>1. k.lin \in Lineages /\ k.seq \in Nat
    BY <1>1, RotationTypes
  <2>2. ASSUME NEW d, NEW r, AtHome(home, d, r), r.tok.lin = k.lin PROVE d = c
    BY <2>2 DEF AtHome, Owner, Homes
  <2>3. ASSUME NEW d \in Creds, mem'[d] # NoRecord, mem'[d].tok.lin = k.lin PROVE mem'[d].tok.seq <= k.seq
    <3>1. CASE mem'[d] = mem[d]
      BY <1>6, <2>3, <3>1 DEF TopOf, Present
    <3>2. CASE th[t].pc = "put" /\ mem' = [mem EXCEPT ![th[t].c] = Stored(t)] /\ d = th[t].c
      <4>1. mem'[d] = Stored(t)
        BY <1>1, <3>2
      <4>2. AtHome(home, d, Stored(t))
        BY <1>1, <3>2, StoredFields DEF Homes, Resident, AtHome
      <4>3. d = c
        BY <2>2, <2>3, <4>1, <4>2
      <4> QED BY <1>6, <3>2, <4>3 DEF Committing
    <3>3. ASSUME NEW e \in Creds, Delete(t, e) PROVE mem'[d] = mem[d]
      BY <1>1, <2>3, <3>3 DEF Delete
    <3>4. ASSUME mem' = [mem EXCEPT ![th[t].c] = Stored(t)], d # th[t].c PROVE mem'[d] = mem[d]
      BY <1>1, <3>4
    <3> QED BY <3>1, <3>2, <3>3, <3>4, StoreMoves
  <2>4. ASSUME NEW u \in Threads, th'[u].pc = "refresh", th'[u].rec.tok.lin = k.lin
        PROVE  th'[u].rec.tok.seq <= k.seq
    <3>1. CASE u # t
      BY <1>1, <1>6, <2>4, <3>1, ThreadMoves DEF OtherThreads, TopOf
    <3>2. CASE u = t
      <4>1. mem'[th'[t].c] # NoRecord /\ th'[t].rec = mem'[th'[t].c]
        BY <1>1, <2>4, <3>2, ThreadMoves DEF PendingStep, CurrentWork
      <4>2. th'[t].c \in Creds
        BY DEF TypeOK, Thread
      <4> QED BY <2>3, <2>4, <3>2, <4>1, <4>2
    <3> QED BY <3>1, <3>2
  <2>5. CASE minted'[k.lin] = minted[k.lin]
    BY <1>6, <2>3, <2>4, <2>5 DEF Settled, TopOf, Present
  <2>6. CASE minted'[k.lin] # minted[k.lin]
    <3> DEFINE r == th[t].rec
    <3>1. MintStep(t) /\ minted \in [Lineages -> 0..MaxSeq]
      BY <1>1, History DEF TypeOK
    <3>2. /\ th[t].pc = "refresh" /\ r.tok.lin = k.lin /\ CanRefresh(r.tok)
          /\ "lost" \in FaultKinds \/ (th'[t].pc = "put" /\ th'[t].c = th[t].c)
      BY <2>1, <2>6, <3>1 DEF MintStep
    <3>3. th[t].c = c /\ r.tok \in Token
      BY <1>1, <2>2, <3>2, TokenTypes DEF Homes, Resident
    <3>4. CASE th'[t].pc = "put" /\ th'[t].c = th[t].c
      BY <3>3, <3>4 DEF Settled, Committing
    <3>5. CASE "lost" \in FaultKinds
      <4>1. r.tok.seq >= latest[k.lin] /\ latest[k.lin] \in Nat /\ r.tok.seq \in Nat
        BY <1>1, <2>1, <3>2, <3>3, <3>5, RotationTypes DEF CanRefresh, Superseded, NoLoss
      <4>2. r.tok.seq <= k.seq
        BY <1>6, <3>2 DEF TopOf
      <4>3. r.tok.seq = k.seq
        BY <2>1, <4>1, <4>2 DEF Issued
      <4>4. r.tok = k
        BY <3>2, <3>3, <4>3 DEF Token
      <4> QED BY <1>6, <3>2, <3>3, <4>4 DEF Current
    <3> QED BY <3>2, <3>4, <3>5
  <2> QED BY <2>5, <2>6
<1> QED BY <1>2, <1>3, <1>4, <1>5, <1>6 DEF Settled

LEMMA MintedStep ==
    ASSUME TypeOK, TypeOK', MintedIssued, [Next]_vars
    PROVE  MintedIssued'
<1>1. \A l \in Lineages : latest'[l] >= latest[l] /\ latest[l] \in Nat /\ latest'[l] \in Nat /\ minted[l] \in Nat
  <2>1. \A l \in Lineages : latest'[l] \in Nat
    BY TokensAssumption DEF TypeOK, OAuthTypeOK
  <2> QED BY <2>1, StepShape, RotationTypes DEF UpstreamStep
<1>2. CASE UNCHANGED minted
  BY <1>1, <1>2 DEF MintedIssued
<1>3. ASSUME NEW l, minted' = [minted EXCEPT ![l] = latest'[l]] PROVE MintedIssued'
  <2>1. ASSUME NEW k \in Lineages PROVE minted'[k] = minted[k] \/ minted'[k] = latest'[k]
    BY <1>3 DEF TypeOK
  <2> QED BY <1>1, <2>1 DEF MintedIssued
<1>4. CASE Environment
  BY <1>2, <1>4, EnvironmentHistory
<1>5. ASSUME NEW t \in Threads, Continue(t) \/ Begin(t) PROVE MintedIssued'
  BY <1>2, <1>3, <1>5, History DEF MintStep
<1>6. CASE UNCHANGED vars
  BY <1>2, <1>6 DEF vars, history
<1> QED BY <1>4, <1>5, <1>6 DEF Next

LEMMA LiveTop ==
    ASSUME TypeOK, TokensIssued, MintedIssued, NEW k \in Token, Live(k)
    PROVE  TopOf(k)
<1>1. /\ k.lin \in Lineages /\ k.seq \in Nat /\ latest[k.lin] \in Nat /\ minted[k.lin] \in Nat
      /\ k.seq >= latest[k.lin] /\ minted[k.lin] <= latest[k.lin]
  BY RotationTypes DEF MintedIssued, Live, Superseded
<1>2. ASSUME NEW j \in Token, Issued(j), j.lin = k.lin PROVE j.seq <= k.seq
  <2>1. j.seq \in Nat /\ j.seq <= latest[k.lin]
    BY <1>2, RotationTypes DEF Issued
  <2> QED BY <1>1, <2>1
<1>3. \A c \in Creds : Present(mem, c) => mem[c].tok \in Token /\ Issued(mem[c].tok)
  BY TokenTypes DEF TokensIssued
<1>4. \A t \in Threads : th[t].rec.tok \in Token /\ Issued(th[t].rec.tok)
  BY TokenTypes DEF TokensIssued
<1> QED BY <1>1, <1>2, <1>3, <1>4 DEF TopOf

LEMMA OffersStep ==
    ASSUME NoImports, SavesWork, NoLoss \/ Rotating, Basics, TypeOK', VersionsPast, MintedIssued,
           NEW home, Homes(home), OffersSettled(home), NEW t \in Threads, Continue(t) \/ Begin(t)
    PROVE  OffersSettled(home)'
<1>1. TypeOK /\ TokensIssued
  BY DEF Basics
<1>2. ASSUME NEW u \in Threads, th'[u].pc \in {"route", "adopt"}
      PROVE  /\ th'[u].tok = th[u].tok /\ th'[u].ver = th[u].ver
             /\ th[u].pc \in {"route", "adopt"} \/ (th[u].pc = "verify" /\ Live(th[u].tok))
  <2>1. CASE u # t
    BY <1>1, <1>2, <2>1, ThreadMoves DEF OtherThreads
  <2>2. CASE u = t
    <3>1. OfferMove(t)
      BY <1>1, AllMoved DEF Moved
    <3> QED BY <1>2, <2>2, <3>1 DEF OfferMove
  <2> QED BY <2>1, <2>2
<1>3. ASSUME NEW u \in Threads, NEW c \in Creds, th'[u].pc \in {"route", "adopt"}, c \in DOMAIN home,
             home[c] = Owner(th'[u].tok)
      PROVE  Settled(c, th[u].tok, th[u].ver)'
  <2>1. PICK k \in Token, v \in Nat : k = th[u].tok /\ v = th[u].ver
    BY <1>1, TokenTypes, RotationTypes
  <2>2. k = th'[u].tok /\ v = th'[u].ver
    BY <1>2, <1>3, <2>1
  <2>3. Issued(k) /\ v <= storeVer
    BY <1>1, <1>2, <1>3, <2>1 DEF TokensIssued, VersionsPast, Offering
  <2>4. Settled(c, k, v)
    <3>1. CASE th[u].pc \in {"route", "adopt"}
      BY <1>3, <2>1, <2>2, <3>1 DEF OffersSettled
    <3>2. CASE Live(k)
      BY <1>1, <3>2, LiveTop DEF Settled
    <3> QED BY <1>2, <1>3, <2>1, <3>1, <3>2
  <2>5. Settled(c, k, v)'
    BY <1>3, <2>2, <2>3, <2>4, SettledStep
  <2> QED BY <2>2, <2>5 DEF Settled, TopOf, Committing, Current, InUse, Present
<1> QED BY <1>3 DEF OffersSettled

\* What is adopted over another token is the newest of its lineage.
LEMMA AdoptsTop ==
    ASSUME SavesWork \/ NoOffers, Basics, NEW home, Homes(home), OffersSettled(home),
           NEW t \in Threads, th[t].pc = "adopt", Free(th[t].c), Present(mem, th[t].c), StoreUnchanged(t),
           mem[th[t].c].tok # th[t].tok
    PROVE  th[t].tok.seq >= minted[th[t].tok.lin]
<1> DEFINE c == th[t].c
           k == th[t].tok
<1>1. TypeOK /\ Exclusive /\ c \in Creds
  BY DEF Basics, TypeOK, Thread
<1>2. c \in DOMAIN home /\ home[c] = Owner(k)
  BY DEF Homes, Resident
<1>3. Settled(c, k, th[t].ver)
  BY <1>1, <1>2 DEF OffersSettled
<1>4. ~(storeVer > th[t].ver)
  <2>1. storeVer = th[t].ver /\ storeVer \in Nat
    BY <1>1, RotationTypes DEF StoreUnchanged
  <2> QED BY <2>1
<1>5. \A u \in Threads : ~(th[u].pc \in Holding /\ th[u].c = c)
  BY <1>1, BrokerAssumption DEF Exclusive, Free
<1> QED BY <1>3, <1>4, <1>5 DEF Settled, TopOf, Committing, Current, InUse, Holding

LEMMA RotationsStep ==
    ASSUME NoImports, SavesWork \/ NoOffers, NoLoss \/ Rotating, Basics, Basics', Rotations, [Next]_vars
    PROVE  Rotations'
<1>1. /\ TypeOK /\ TypeOK' /\ TokensIssued /\ Exclusive /\ CurrentWork /\ MintedIssued /\ VersionsPast
      /\ Worked'
  BY DEF Basics, Rotations
<1>2. PICK kept \in SUBSET Creds : \E home \in [kept -> Accounts] : Homes(home) /\ OffersSettled(home)
  BY DEF Rotations
<1>3. PICK home \in [kept -> Accounts] : Homes(home) /\ OffersSettled(home)
  BY <1>2
<1>4. MintedIssued' /\ Homes(home)'
  BY <1>1, <1>3, MintedStep, HomesStep
<1>5. VersionsPast' /\ OffersSettled(home)'
  <2>1. CASE UNCHANGED <<mem, th, minted, storeVer>>
    BY <1>1, <1>3, <2>1 DEF VersionsPast, OffersSettled, Settled, TopOf, Committing, Current, InUse, Present
  <2>2. CASE \A t \in Threads : th'[t].pc = "idle"
    BY <2>2 DEF VersionsPast, OffersSettled, Offering
  <2>3. ASSUME NEW t \in Threads, Continue(t) \/ Begin(t) PROVE VersionsPast' /\ OffersSettled(home)'
    <3>1. VersionsPast'
      BY <1>1, <2>3, VersionsStep
    <3>2. CASE SavesWork
      BY <1>1, <1>3, <2>3, <3>1, <3>2, OffersStep
    <3>3. CASE NoOffers
      <4>1. \A u \in Threads : th'[u].pc \notin {"route", "adopt"}
        BY <1>1, <3>3 DEF NoOffers, Worked, Works, Offering, Entrusted
      <4> QED BY <3>1, <4>1 DEF OffersSettled
    <3> QED BY <3>2, <3>3
  <2>4. CASE UNCHANGED vars
    BY <2>1, <2>4 DEF vars, history, volatile
  <2> QED BY <1>1, <2>1, <2>2, <2>3, <2>4, EnvironmentKeeps DEF Next
<1> QED BY <1>4, <1>5 DEF Rotations

LEMMA RotationsHold ==
    ASSUME NoImports, SavesWork \/ NoOffers, NoLoss \/ Rotating
    PROVE  Spec => [](Basics /\ Rotations)
<1>1. Basics /\ Basics' /\ Rotations /\ [Next]_vars => Rotations'
  BY RotationsStep
<1> QED BY <1>1, RotationsStart, BasicsHold, PTL DEF Spec

\* Only the lineage of the token a thread refreshes gets a new pair; nobody
\* else works on a token of it.
LEMMA MintedElsewhere ==
    ASSUME TypeOK, Exclusive, NEW home, Homes(home), NEW t \in Threads, MintStep(t),
           NEW u \in Threads, u # t, th[u].pc \in {"refresh", "put"},
           NEW k, k = IF th[u].pc = "refresh" THEN th[u].rec.tok ELSE th[u].nr.tok
    PROVE  k \in Token /\ minted'[k.lin] = minted[k.lin]
<1>1. k \in Token /\ minted \in [Lineages -> 0..MaxSeq] /\ k.lin \in Lineages
  BY TokenTypes DEF TypeOK, Token
<1>2. PICK r : r.tok = k /\ AtHome(home, th[u].c, r)
  BY DEF Homes, Resident
<1>3. ASSUME th[t].pc = "refresh", th[t].rec.tok.lin = k.lin PROVE FALSE
  <2>1. AtHome(home, th[t].c, th[t].rec)
    BY <1>3 DEF Homes, Resident
  <2>2. th[t].c = th[u].c
    BY <1>2, <1>3, <2>1, LineageHome
  <2> QED BY <1>3, <2>2 DEF Exclusive, Holding
<1> QED BY <1>1, <1>3 DEF MintStep

\* The lineage of a stored token gets a new pair from the thread that has its
\* credential.
LEMMA MintedStored ==
    ASSUME TypeOK, CurrentWork, NEW home, Homes(home), NEW t \in Threads, MintStep(t),
           NEW c \in Creds, Present(mem, c), minted'[mem[c].tok.lin] # minted[mem[c].tok.lin]
    PROVE  th[t].pc = "refresh" /\ th[t].c = c /\ th[t].rec = mem[c]
<1>1. minted \in [Lineages -> 0..MaxSeq] /\ mem[c].tok.lin \in Lineages
  BY TokenTypes DEF TypeOK, Token
<1>2. th[t].pc = "refresh" /\ th[t].rec.tok.lin = mem[c].tok.lin
  BY <1>1 DEF MintStep
<1>3. AtHome(home, th[t].c, th[t].rec) /\ AtHome(home, c, mem[c])
  BY <1>2 DEF Homes, Resident
<1>4. th[t].c = c
  BY <1>2, <1>3, LineageHome
<1> QED BY <1>2, <1>4 DEF CurrentWork, WorksOnStored

\* A pair from upstream is the newest of its lineage.
LEMMA MintedTop ==
    ASSUME TypeOK, MintedIssued, NEW t \in Threads, MintStep(t), NEW l, l = th[t].rec.tok.lin,
           NEW k, k = Replace(th[t].rec, Tok(l, latest'[l])).tok,
           latest'[l] = latest[l] + 1, latest'[l] <= MaxSeq
    PROVE  k.seq >= minted'[k.lin]
<1>1. /\ latest \in [Lineages -> 1..MaxSeq] /\ MaxSeq \in Nat /\ th[t].rec \in Record /\ l \in Lineages
      /\ latest[l] \in Nat /\ minted[l] \in Nat /\ minted \in [Lineages -> 0..MaxSeq]
  <2>1. th[t].rec \in Record /\ l \in Lineages
    BY TokenTypes DEF Token
  <2>2. latest \in [Lineages -> 1..MaxSeq] /\ minted \in [Lineages -> 0..MaxSeq]
    BY DEF TypeOK, OAuthTypeOK
  <2> QED BY <2>1, <2>2, RotationTypes
<1>2. k.lin = l /\ k.seq = latest'[l]
  BY <1>1, MintedPair
<1>3. minted'[l] = minted[l] \/ minted'[l] = latest'[l]
  BY <1>1 DEF MintStep
<1>4. minted[l] <= latest[l]
  BY <1>1 DEF MintedIssued
<1>5. minted'[l] <= latest'[l]
  <2>1. latest'[l] = latest[l] + 1
    OBVIOUS
  <2> QED BY ONLY <1>1, <1>3, <1>4, <2>1
<1> QED BY <1>2, <1>5

\* Token k is at most one pair behind what was minted of its lineage.
Near(k) == k.seq + 1 >= minted[k.lin]

\* So is every token that is stored, being refreshed or about to be stored.
NearTop ==
    /\ \A c \in Creds : Present(mem, c) => Near(mem[c].tok)
    /\ \A t \in Threads : /\ th[t].pc = "refresh" => Near(th[t].rec.tok)
                          /\ th[t].pc = "put" => Near(th[t].nr.tok)

LEMMA NearStart == Init => NearTop
<1> SUFFICES ASSUME Init PROVE NearTop
  OBVIOUS
<1>1. \A t \in Threads : th[t].pc = "idle"
  BY DEF Init, Idle
<1>2. ASSUME NEW c \in Creds, Present(mem, c) PROVE Near(mem[c].tok)
  <2>1. mem[c].tok.lin \in Lineages /\ mem[c].tok.seq \in Nat
    BY <1>2, TypesStart, TokenTypes, RotationTypes
  <2>2. minted[mem[c].tok.lin] = 0
    BY <2>1 DEF Init
  <2> QED BY <2>1, <2>2 DEF Near
<1> QED BY <1>1, <1>2 DEF NearTop

\* A refresh token that still mints is the newest one, so a mint takes its
\* lineage one further.
LEMMA RefreshNear ==
    ASSUME Rotating, TypeOK, NEW t \in Threads, MintStep(t), Near(th[t].rec.tok)
    PROVE  th[t].rec.tok.seq + 1 >= minted'[th[t].rec.tok.lin]
<1> DEFINE k == th[t].rec.tok
<1>1. /\ k.lin \in Lineages /\ k.seq \in Nat /\ latest[k.lin] \in Nat /\ minted \in [Lineages -> 0..MaxSeq]
      /\ Near(k)
  BY TokenTypes, RotationTypes DEF TypeOK
<1>2. \/ UNCHANGED minted
      \/ /\ CanRefresh(k) /\ latest'[k.lin] = latest[k.lin] + 1
         /\ minted' = [minted EXCEPT ![k.lin] = latest'[k.lin]]
  BY DEF MintStep
<1> HIDE DEF k
<1>3. ASSUME UNCHANGED minted PROVE k.seq + 1 >= minted'[k.lin]
  BY <1>1, <1>3 DEF Near
<1>4. ASSUME CanRefresh(k), latest'[k.lin] = latest[k.lin] + 1, minted' = [minted EXCEPT ![k.lin] = latest'[k.lin]]
      PROVE  k.seq + 1 >= minted'[k.lin]
  <2>1. k.seq >= latest[k.lin]
    BY <1>1, <1>4 DEF CanRefresh, Superseded
  <2>2. minted'[k.lin] = latest[k.lin] + 1
    BY <1>1, <1>4
  <2> QED BY <1>1, <2>1, <2>2
<1>5. k.seq + 1 >= minted'[k.lin]
  BY <1>2, <1>3, <1>4
<1> QED BY <1>5 DEF k

LEMMA NearStep ==
    ASSUME NoImports, SavesWork, Rotating, mem = disk, Basics, TypeOK', Rotations, NearTop, [Next]_vars
    PROVE  NearTop'
<1> DEFINE Still(k) == k.seq + 1 >= minted'[k.lin]
<1>1. TypeOK /\ TokensIssued /\ Exclusive /\ CurrentWork /\ MintedIssued
  BY DEF Basics, Rotations
<1>2. PICK kept \in SUBSET Creds : \E home \in [kept -> Accounts] : Homes(home) /\ OffersSettled(home)
  BY DEF Rotations
<1>3. PICK home \in [kept -> Accounts] : Homes(home) /\ OffersSettled(home)
  BY <1>2
<1>4. CASE UNCHANGED <<mem, minted, th>>
  BY <1>4 DEF NearTop, Near, Present
<1>5. CASE Environment
  <2>1. UNCHANGED <<mem, minted>>
    BY <1>5, EnvironmentHistory
  <2>2. CASE \A t \in Threads : th'[t].pc = "idle"
    BY <2>1, <2>2 DEF NearTop, Near, Present
  <2> QED BY <1>1, <1>4, <1>5, <2>2, EnvironmentKeeps
<1>6. ASSUME NEW t \in Threads, Continue(t) \/ Begin(t) PROVE NearTop'
  <2> DEFINE x == th[t]
             y == th'[t]
  <2>1. /\ MintStep(t) /\ Moved(t) /\ PendingStep(t) /\ y.c \in Creds
        /\ x.c \in Creds /\ x.tok \in Token /\ x.rec \in Record /\ x.rec.tok \in Token
        /\ mem \in [Creds -> Record \cup {NoRecord}] /\ x.pc \notin Importing
    <3>1. MintStep(t) /\ Moved(t)
      BY <1>1, <1>6, History, AllMoved
    <3>2. PendingStep(t)
      BY <1>1, <1>6, ThreadMoves DEF CurrentWork
    <3>3. x.pc \notin Importing
      BY <1>3 DEF Homes, Resident
    <3>4. x.c \in Creds /\ x.tok \in Token /\ x.rec \in Record /\ x.rec.tok \in Token /\ y.c \in Creds
      BY <1>1, TokenTypes DEF TypeOK, Thread
    <3> QED BY <1>1, <3>1, <3>2, <3>3, <3>4 DEF TypeOK
  <2>2. x.pc = "refresh" => Still(x.rec.tok)
    BY <1>1, <2>1, RefreshNear DEF NearTop
  <2>3. x.pc # "refresh" => UNCHANGED minted
    BY <2>1 DEF MintStep
  <2> HIDE DEF x, y
  <2>4. ASSUME NEW c \in Creds, mem'[c] # NoRecord PROVE Still(mem'[c].tok)
    <3>1. CASE mem'[c] = mem[c]
      <4>1. Near(mem[c].tok) /\ Present(mem, c)
        BY <2>4, <3>1 DEF NearTop, Present
      <4>2. CASE minted'[mem[c].tok.lin] = minted[mem[c].tok.lin]
        BY <3>1, <4>1, <4>2 DEF Near
      <4>3. CASE minted'[mem[c].tok.lin] # minted[mem[c].tok.lin]
        BY <1>1, <1>3, <2>1, <2>2, <3>1, <4>1, <4>3, MintedStored DEF x
      <4> QED BY <4>2, <4>3
    <3>2. CASE th[t].pc = "put" /\ mem' = [mem EXCEPT ![th[t].c] = Stored(t)] /\ c = th[t].c
      <4>1. mem'[c].tok = th[t].nr.tok
        BY <1>1, <2>1, <3>2, StoredFields
      <4>2. Near(th[t].nr.tok) /\ minted' = minted
        BY <2>3, <3>2 DEF NearTop, x
      <4> QED BY <4>1, <4>2 DEF Near
    <3>3. ASSUME NEW d \in Creds, Delete(t, d) PROVE mem'[c] = mem[c]
      BY <2>1, <2>4, <3>3 DEF Delete
    <3>4. ASSUME mem' = [mem EXCEPT ![th[t].c] = Stored(t)], c # th[t].c PROVE mem'[c] = mem[c]
      BY <2>1, <3>4
    <3> QED BY <1>6, <3>1, <3>2, <3>3, <3>4, StoreMoves
  <2>5. ASSUME NEW u \in Threads, u # t
        PROVE  /\ th'[u].pc = "refresh" => Still(th'[u].rec.tok)
               /\ th'[u].pc = "put" => Still(th'[u].nr.tok)
    <3>1. th'[u] = th[u]
      BY <1>1, <1>6, <2>5, ThreadMoves DEF OtherThreads
    <3>2. th[u].pc = "refresh" => minted'[th[u].rec.tok.lin] = minted[th[u].rec.tok.lin]
      BY <1>1, <1>3, <2>1, <2>5, MintedElsewhere
    <3>3. th[u].pc = "put" => minted'[th[u].nr.tok.lin] = minted[th[u].nr.tok.lin]
      BY <1>1, <1>3, <2>1, <2>5, MintedElsewhere
    <3> QED BY <3>1, <3>2, <3>3 DEF NearTop, Near
  <2>6. y.pc = "refresh" => Still(y.rec.tok)
    <3> SUFFICES ASSUME y.pc = "refresh" PROVE Still(y.rec.tok)
      OBVIOUS
    <3>1. mem'[y.c] # NoRecord /\ y.rec = mem'[y.c]
      BY <2>1 DEF PendingStep, y
    <3> QED BY <2>1, <2>4, <3>1
  <2>7. y.pc = "put" => Still(y.nr.tok)
    <3> SUFFICES ASSUME y.pc = "put" PROVE Still(y.nr.tok)
      OBVIOUS
    <3> DEFINE l == x.rec.tok.lin
    <3>1. ASSUME y.nr = Replace(x.rec, Tok(l, latest'[l])), latest'[l] = latest[l] + 1, latest'[l] <= MaxSeq
          PROVE  Still(y.nr.tok)
      <4>1. y.nr.tok.seq >= minted'[y.nr.tok.lin]
        BY <1>1, <2>1, <3>1, MintedTop DEF x
      <4>2. y.nr.tok.seq \in Nat /\ minted'[y.nr.tok.lin] \in Nat
        <5>1. y.nr.tok \in Token
          BY DEF TypeOK, Thread, Record, y
        <5>2. minted' \in [Lineages -> 0..MaxSeq] /\ MaxSeq \in Nat
          BY TokensAssumption DEF TypeOK
        <5> QED BY <5>1, <5>2 DEF Token
      <4> QED BY <4>1, <4>2
    <3>2. ASSUME x.pc = "refresh", y.nr = [x.rec EXCEPT !.health = "dead"] PROVE Still(y.nr.tok)
      <4>1. y.nr.tok = x.rec.tok
        BY <2>1, <3>2 DEF Record
      <4> QED BY <2>2, <3>2, <4>1
    <3>3. ASSUME Present(mem, x.c), UNCHANGED mem, y.nr = [mem[x.c] EXCEPT !.health = x.to] PROVE Still(y.nr.tok)
      <4>1. y.nr.tok = mem'[x.c].tok /\ mem'[x.c] # NoRecord
        BY <2>1, <3>3 DEF Record, Present
      <4> QED BY <2>1, <2>4, <4>1
    <3>4. ASSUME x.pc = "adopt", Free(x.c), Present(mem, x.c), StoreUnchanged(t), mem[x.c].tok # x.tok,
                 y.nr = Replace(mem[x.c], x.tok)
          PROVE  Still(y.nr.tok)
      <4>1. y.nr.tok = x.tok
        BY <2>1, <3>4, ReplaceFields DEF Present
      <4>2. x.tok.seq >= minted[x.tok.lin] /\ minted' = minted
        BY <1>3, <2>3, <3>4, AdoptsTop DEF x
      <4>3. x.tok.seq \in Nat /\ minted[x.tok.lin] \in Nat
        BY <1>1, <2>1, RotationTypes
      <4> QED BY <4>1, <4>2, <4>3
    <3>5. x.pc # "install"
      BY <2>1 DEF Importing
    <3> HIDE DEF l, Still
    <3> QED BY <2>1, <3>1, <3>2, <3>3, <3>4, <3>5 DEF Moved, PutMove, l, x, y
  <2> QED BY <2>4, <2>5, <2>6, <2>7 DEF NearTop, Near, Present, y
<1>7. CASE UNCHANGED vars
  BY <1>4, <1>7 DEF vars, history
<1> QED BY <1>5, <1>6, <1>7 DEF Next

\* When upstream rotates refresh tokens, saves work, and nobody imports, no
\* record in memory is ever two of the broker's own rotations behind its
\* lineage: a crash or a lost answer between the mint and the commit costs one
\* rotation, after which the spent refresh token mints no more.
THEOREM OneRotationLost ==
    ASSUME NoImports, SavesWork, Rotating
    PROVE  Spec => []AtMostOneRotationLost
<1>1. mem = disk /\ [Next]_vars => (mem = disk)'
  BY SavedStep
<1>2. mem = disk /\ Basics /\ TypeOK' /\ Rotations /\ NearTop /\ [Next]_vars => NearTop'
  BY NearStep
<1>3. NearTop => AtMostOneRotationLost
  BY DEF NearTop, Near, AtMostOneRotationLost
<1>4. Spec => [](Basics /\ Rotations)
  BY RotationsHold
<1> QED BY <1>1, <1>2, <1>3, <1>4, SavedStart, NearStart, TypeCorrect, PTL DEF Spec

\* Token k is the newest of its lineage.
UpToDate(k) == k.seq >= minted[k.lin]

\* So is what a thread refreshes or is to commit, and what is stored unless a
\* commit to it is pending.
NotBehind ==
    /\ \A c \in Creds : Present(mem, c) =>
         UpToDate(mem[c].tok) \/ \E u \in Threads : th[u].pc = "put" /\ th[u].c = c
    /\ \A t \in Threads : /\ th[t].pc = "refresh" => UpToDate(th[t].rec.tok)
                          /\ th[t].pc = "put" => UpToDate(th[t].nr.tok)

LEMMA NotBehindStart == Init => NotBehind
<1> SUFFICES ASSUME Init PROVE NotBehind
  OBVIOUS
<1>1. \A t \in Threads : th[t].pc = "idle"
  BY DEF Init, Idle
<1>2. ASSUME NEW c \in Creds, Present(mem, c) PROVE UpToDate(mem[c].tok)
  <2>1. mem[c].tok.lin \in Lineages /\ mem[c].tok.seq \in Nat
    BY <1>2, TypesStart, TokenTypes, RotationTypes
  <2>2. minted[mem[c].tok.lin] = 0
    BY <2>1 DEF Init
  <2> QED BY <2>1, <2>2 DEF UpToDate
<1> QED BY <1>1, <1>2 DEF NotBehind

LEMMA UpStep == ASSUME NoCrash, up, [Next]_vars PROVE up'
<1>1. CASE UNCHANGED vars
  BY <1>1 DEF vars
<1>2. CASE Environment
  BY <1>2 DEF Environment, ProbeExpires, BackoffEnds, GrowsOld, Crash, Restart, Tick, Upstream, NoCrash, Fault
<1> QED BY <1>1, <1>2, ProcessRuns DEF Next

\* A pair whose answer arrives is about to be stored.
LEMMA MintArrives ==
    ASSUME NoLoss, TypeOK, TypeOK', MintedIssued, NEW t \in Threads, MintStep(t), minted' # minted
    PROVE  /\ th[t].pc = "refresh" /\ th'[t].pc = "put" /\ th'[t].c = th[t].c
           /\ th'[t].nr.tok.seq >= minted'[th'[t].nr.tok.lin]
<1> DEFINE l == th[t].rec.tok.lin
<1>1. /\ th[t].pc = "refresh" /\ th'[t].pc = "put" /\ th'[t].c = th[t].c
      /\ th'[t].nr = Replace(th[t].rec, Tok(l, latest'[l])) /\ latest'[l] = latest[l] + 1
  BY DEF MintStep, NoLoss
<1>2. latest'[l] <= MaxSeq
  <2>1. latest' \in [Lineages -> 1..MaxSeq] /\ MaxSeq \in Nat
    BY TokensAssumption DEF TypeOK, OAuthTypeOK
  <2>2. l \in Lineages
    BY TokenTypes DEF TypeOK, Token
  <2> QED BY <2>1, <2>2
<1> QED BY <1>1, <1>2, MintedTop

LEMMA NotBehindStep ==
    ASSUME NoImports, NoLoss, NoCrash, SavesWork \/ NoOffers, up, Basics, Basics', Rotations, NotBehind,
           [Next]_vars
    PROVE  NotBehind'
<1> DEFINE Still(k) == k.seq >= minted'[k.lin]
<1>1. TypeOK /\ TokensIssued /\ Exclusive /\ CurrentWork /\ MintedIssued
  BY DEF Basics, Rotations
<1>2. PICK kept \in SUBSET Creds : \E home \in [kept -> Accounts] : Homes(home) /\ OffersSettled(home)
  BY DEF Rotations
<1>3. PICK home \in [kept -> Accounts] : Homes(home) /\ OffersSettled(home)
  BY <1>2
<1>4. CASE UNCHANGED <<mem, minted, th>>
  BY <1>4 DEF NotBehind, UpToDate, Present
<1>5. CASE Environment
  <2>1. UNCHANGED <<mem, minted, th>>
    BY <1>5 DEF Environment, ProbeExpires, BackoffEnds, GrowsOld, Crash, Restart, Tick, Upstream, storeVars,
                history, NoCrash, Fault
  <2> QED BY <1>4, <2>1
<1>6. TypeOK' /\ Exclusive'
  BY DEF Basics
<1>7. ASSUME NEW t \in Threads, NEW u \in Threads, u # t, th'[t].pc \in Holding, th'[u].pc \in Holding,
             th'[t].c = th'[u].c
      PROVE  FALSE
  BY <1>6, <1>7 DEF Exclusive
<1>8. ASSUME NEW t \in Threads, Continue(t) \/ Begin(t) PROVE NotBehind'
  <2> DEFINE x == th[t]
             y == th'[t]
  <2>1. /\ MintStep(t) /\ CountStep(t) /\ Moved(t) /\ PendingStep(t) /\ y.c \in Creds
        /\ x.c \in Creds /\ x.tok \in Token /\ x.rec \in Record /\ x.rec.tok \in Token
        /\ mem \in [Creds -> Record \cup {NoRecord}] /\ x.pc \notin Importing
    <3>1. MintStep(t) /\ CountStep(t) /\ Moved(t)
      BY <1>1, <1>8, History, AllMoved
    <3>2. PendingStep(t)
      BY <1>1, <1>8, ThreadMoves DEF CurrentWork
    <3>3. x.pc \notin Importing
      BY <1>3 DEF Homes, Resident
    <3>4. x.c \in Creds /\ x.tok \in Token /\ x.rec \in Record /\ x.rec.tok \in Token /\ y.c \in Creds
      BY <1>1, <1>6, TokenTypes DEF TypeOK, Thread
    <3> QED BY <1>1, <3>1, <3>2, <3>3, <3>4 DEF TypeOK
  <2>2. x.pc # "refresh" => UNCHANGED minted
    BY <2>1 DEF MintStep
  <2>3. ASSUME NEW u \in Threads, u # t PROVE th'[u] = th[u]
    BY <1>1, <1>8, <2>3, ThreadMoves DEF OtherThreads
  <2> HIDE DEF x, y
  <2>4. ASSUME NEW c \in Creds, mem'[c] # NoRecord
        PROVE  Still(mem'[c].tok) \/ \E u \in Threads : th'[u].pc = "put" /\ th'[u].c = c
    <3>1. CASE x.pc = "put" /\ x.c = c
      <4>1. mem'[c].tok = th[t].nr.tok
        BY <1>1, <2>1, <3>1, StoredFields DEF CountStep, x
      <4>2. UpToDate(th[t].nr.tok) /\ minted' = minted
        BY <2>2, <3>1 DEF NotBehind, x
      <4> QED BY <4>1, <4>2 DEF UpToDate
    <3>2. CASE mem'[c] = mem[c] /\ ~(x.pc = "put" /\ x.c = c)
      <4>1. Present(mem, c)
        BY <2>4, <3>2 DEF Present
      <4>2. CASE minted'[mem[c].tok.lin] # minted[mem[c].tok.lin]
        <5>1. x.c = c
          BY <1>1, <1>3, <2>1, <4>1, <4>2, MintedStored DEF x
        <5>2. th'[t].pc = "put" /\ th'[t].c = th[t].c
          BY <1>1, <1>6, <2>1, <4>2, MintArrives
        <5> QED BY <5>1, <5>2 DEF x
      <4>3. CASE UpToDate(mem[c].tok) /\ minted'[mem[c].tok.lin] = minted[mem[c].tok.lin]
        BY <3>2, <4>3 DEF UpToDate
      <4>4. ASSUME NEW u \in Threads, th[u].pc = "put", th[u].c = c PROVE th'[u].pc = "put" /\ th'[u].c = c
        BY <2>3, <3>2, <4>4 DEF x
      <4> QED BY <4>1, <4>2, <4>3, <4>4 DEF NotBehind
    <3>3. ASSUME NEW d \in Creds, Delete(t, d) PROVE mem'[c] = mem[c]
      BY <2>1, <2>4, <3>3 DEF Delete
    <3>4. ASSUME mem' = [mem EXCEPT ![th[t].c] = Stored(t)], c # th[t].c PROVE mem'[c] = mem[c]
      BY <2>1, <3>4
    <3> QED BY <1>8, <3>1, <3>2, <3>3, <3>4, StoreMoves DEF x
  <2>5. ASSUME NEW u \in Threads, u # t
        PROVE  /\ th'[u].pc = "refresh" => Still(th'[u].rec.tok)
               /\ th'[u].pc = "put" => Still(th'[u].nr.tok)
    <3>1. th'[u] = th[u]
      BY <2>3, <2>5
    <3>2. th[u].pc = "refresh" => minted'[th[u].rec.tok.lin] = minted[th[u].rec.tok.lin]
      BY <1>1, <1>3, <2>1, <2>5, MintedElsewhere
    <3>3. th[u].pc = "put" => minted'[th[u].nr.tok.lin] = minted[th[u].nr.tok.lin]
      BY <1>1, <1>3, <2>1, <2>5, MintedElsewhere
    <3> QED BY <3>1, <3>2, <3>3 DEF NotBehind, UpToDate
  <2>6. y.pc = "refresh" => Still(y.rec.tok)
    <3> SUFFICES ASSUME y.pc = "refresh" PROVE Still(y.rec.tok)
      OBVIOUS
    <3>1. mem'[y.c] # NoRecord /\ y.rec = mem'[y.c]
      BY <2>1 DEF PendingStep, y
    <3>2. ASSUME NEW u \in Threads, th'[u].pc = "put", th'[u].c = y.c PROVE FALSE
      <4>1. u # t
        BY <3>2 DEF y
      <4> QED BY <1>7, <3>2, <4>1 DEF Holding, y
    <3> QED BY <2>1, <2>4, <3>1, <3>2
  <2>7. y.pc = "put" => Still(y.nr.tok)
    <3> SUFFICES ASSUME y.pc = "put" PROVE Still(y.nr.tok)
      OBVIOUS
    <3> DEFINE l == x.rec.tok.lin
    <3>1. ASSUME y.nr = Replace(x.rec, Tok(l, latest'[l])), latest'[l] = latest[l] + 1, latest'[l] <= MaxSeq
          PROVE  Still(y.nr.tok)
      BY <1>1, <2>1, <3>1, MintedTop DEF x
    <3>2. ASSUME x.pc = "refresh", y.nr = [x.rec EXCEPT !.health = "dead"] PROVE Still(y.nr.tok)
      <4>1. y.nr.tok = x.rec.tok /\ UpToDate(x.rec.tok)
        BY <2>1, <3>2 DEF Record, NotBehind, x
      <4>2. CASE minted' = minted
        BY <4>1, <4>2 DEF UpToDate
      <4>3. CASE minted' # minted
        BY <1>1, <1>6, <2>1, <4>3, MintArrives DEF y
      <4> QED BY <4>2, <4>3
    <3>3. ASSUME x.pc = "transition", Present(mem, x.c), y.c = x.c, y.nr = [mem[x.c] EXCEPT !.health = x.to]
          PROVE  Still(y.nr.tok)
      <4>1. y.nr.tok = mem[x.c].tok /\ minted' = minted
        BY <2>1, <2>2, <3>3 DEF Record, Present
      <4>2. ASSUME NEW u \in Threads, th[u].pc = "put", th[u].c = x.c PROVE FALSE
        <5>1. u # t /\ th'[u] = th[u]
          BY <2>3, <3>3, <4>2 DEF x
        <5> QED BY <1>7, <3>3, <4>2, <5>1 DEF Holding, y
      <4>3. UpToDate(mem[x.c].tok)
        BY <2>1, <3>3, <4>2 DEF NotBehind
      <4> QED BY <4>1, <4>3 DEF UpToDate
    <3>4. ASSUME x.pc = "adopt", Free(x.c), Present(mem, x.c), StoreUnchanged(t), mem[x.c].tok # x.tok,
                 y.nr = Replace(mem[x.c], x.tok)
          PROVE  Still(y.nr.tok)
      <4>1. y.nr.tok = x.tok
        BY <2>1, <3>4, ReplaceFields DEF Present
      <4>2. x.tok.seq >= minted[x.tok.lin] /\ minted' = minted
        BY <1>3, <2>2, <3>4, AdoptsTop DEF x
      <4> QED BY <4>1, <4>2
    <3>5. x.pc # "install"
      BY <2>1 DEF Importing
    <3> HIDE DEF l, Still
    <3> QED BY <2>1, <3>1, <3>2, <3>3, <3>4, <3>5 DEF Moved, PutMove, l, x, y
  <2> QED BY <2>4, <2>5, <2>6, <2>7 DEF NotBehind, UpToDate, Present, y
<1>9. CASE UNCHANGED vars
  BY <1>4, <1>9 DEF vars, history
<1> QED BY <1>5, <1>8, <1>9 DEF Next

\* While nothing crashes and every answer of upstream arrives, and nobody
\* imports, the broker loses none of its own rotations: whenever the mutex of a
\* credential is free, its record holds the newest pair minted for the broker.
\* Saves may fail unless clients make offers.
THEOREM RotationsKept ==
    ASSUME NoImports, NoLoss, NoCrash, SavesWork \/ NoOffers
    PROVE  Spec => []NoLostRotation
<1>1. Init => up
  BY DEF Init
<1>2. up /\ [Next]_vars => up'
  BY UpStep
<1>3. up /\ Basics /\ Basics' /\ Rotations /\ NotBehind /\ [Next]_vars => NotBehind'
  BY NotBehindStep
<1>4. Basics /\ NotBehind => NoLostRotation
  <2> SUFFICES ASSUME Basics, NotBehind, NEW c \in Creds, Present(mem, c), Free(c)
               PROVE  mem[c].tok.seq >= minted[mem[c].tok.lin]
    BY DEF NoLostRotation
  <2>1. \A t \in Threads : ~(th[t].pc = "put" /\ th[t].c = c)
    BY BrokerAssumption DEF Basics, Exclusive, Holding, Free
  <2> QED BY <2>1 DEF NotBehind, UpToDate
<1>5. Spec => [](Basics /\ Rotations)
  BY RotationsHold
<1> QED BY <1>1, <1>2, <1>3, <1>4, <1>5, NotBehindStart, PTL DEF Spec
=============================================================================
