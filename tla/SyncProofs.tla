----------------------------- MODULE SyncProofs -----------------------------
(***************************************************************************)
(* Proofs about Sync, for any number of hosts, processes, accounts and     *)
(* logins: its types, that a sync destroys no login that is not secured,   *)
(* that a replaced token is not adopted again, and that the broker its     *)
(* clients see keeps the promises of CredSpec.                             *)
(*                                                                         *)
(* The argument: a step changes the records in one of three ways           *)
(* (StoreShape); what a process concluded about the token it read stays    *)
(* true (Secured), and what it overwrites is what it read.                 *)
(***************************************************************************)
EXTENDS Sync, RecordsProofs

(* Types.                                                                  *)

LEMMA TokenType == ASSUME NEW l \in Lineages, NEW i \in 1..MaxSeq PROVE Tok(l, i) \in Token
  BY DEF Tok, Token

LEMMA TokenFields ==
    ASSUME NEW k \in Token
    PROVE  /\ k.lin \in Lineages /\ k.seq \in 1..MaxSeq /\ k.seq \in Nat
           /\ Owner(k) \in Accounts /\ k = Tok(k.lin, k.seq)
  BY TokensAssumption DEF Token, Owner, Tok

LEMMA StateFields ==
    ASSUME NEW r \in SyncState
    PROVE  /\ r.pc \in PCs /\ r.target \in Targets /\ r.snap \in Local \cup {NoLocal}
           /\ r.reason \in Reasons /\ r.env \in Token
  BY DEF SyncState

LEMMA LocalFields ==
    ASSUME NEW k \in Local
    PROVE  k.tok \in Token /\ k.rt \in BOOLEAN /\ k # NoLocal
  BY SyncAssumption DEF Local

\* A process that offers has read a login.
OffersLogin == \A s \in Syncs : sync[s].pc = "offer" => sync[s].snap \in Local /\ sync[s].snap.rt

LEMMA IdleType == Idle \in SyncState
<1>1. AnyTok \in Token
  <2>1. (CHOOSE l \in Lineages : TRUE) \in Lineages /\ 1 \in 1..MaxSeq
    BY TokensAssumption
  <2>2. Token # {}
    BY <2>1, TokenType
  <2> QED BY <2>2 DEF AnyTok
<1>2. (CHOOSE d \in Targets : TRUE) \in Targets
  BY SyncAssumption
<1> QED BY <1>1, <1>2 DEF Idle, SyncState, PCs, Reasons

LEMMA GotoType == ASSUME TypeOK, NEW s \in Syncs, NEW r \in SyncState, Goto(s, r) PROVE sync' \in [Syncs -> SyncState]
  BY DEF TypeOK, Goto

LEMMA DoneType == ASSUME TypeOK, NEW s \in Syncs, Done(s) PROVE sync' \in [Syncs -> SyncState]
  BY GotoType, IdleType DEF Done

LEMMA FaultType == ASSUME TypeOK, NEW k, Up!Fault(k) PROVE faults' \in Nat
  BY DEF TypeOK, Up!Fault

LEMMA MintType ==
    ASSUME TypeOK, NEW l \in Lineages, Up!Mint(l)
    PROVE  /\ latest' \in [Lineages -> 1..MaxSeq]
           /\ latest'[l] = latest[l] + 1 /\ \A m \in Lineages \ {l} : latest'[m] = latest[m]
<1>1. latest' = [latest EXCEPT ![l] = latest[l] + 1] /\ latest[l] < MaxSeq
  BY DEF Up!Mint
<1>2. latest[l] \in 1..MaxSeq /\ latest[l] + 1 \in 1..MaxSeq
  BY <1>1, TokensAssumption DEF TypeOK
<1> QED BY <1>1, <1>2 DEF TypeOK

LEMMA CommitType ==
    ASSUME TypeOK, NEW c \in Creds, NEW r \in Record, Commit(c, r)
    PROVE  cred' \in [Creds -> Record \cup {NoRecord}] /\ handed' \in SUBSET Token
<1>1. [r EXCEPT !.gen = r.gen + 1] \in Record /\ r.tok \in Token
  BY DEF Record
<1> QED BY <1>1 DEF Commit, LaterGen, TypeOK

LEMMA PresentType == ASSUME TypeOK, NEW c \in Creds, Present(cred, c) PROVE cred[c] \in Record
  BY DEF TypeOK, Present

LEMMA MarkType == ASSUME NEW r \in Record, NEW h \in Health PROVE [r EXCEPT !.health = h] \in Record
  BY DEF Record

LEMMA GotoFields ==
    ASSUME TypeOK, NEW s \in Syncs, NEW r, Goto(s, r)
    PROVE  sync'[s] = r /\ \A q \in Syncs \ {s} : sync'[q] = sync[q]
  BY DEF TypeOK, Goto

LEMMA DoneFields ==
    ASSUME TypeOK, NEW s \in Syncs, Done(s)
    PROVE  sync'[s].pc = "idle" /\ sync'[s].snap = NoLocal /\ \A q \in Syncs \ {s} : sync'[q] = sync[q]
<1>1. Idle.pc = "idle" /\ Idle.snap = NoLocal
  BY DEF Idle
<1> QED BY <1>1, GotoFields DEF Done

LEMMA ManagingProperty ==
    ASSUME TypeOK, NEW k, NEW c
    PROVE  c \in Managing(cred, Owner(k)) <=> c \in Creds /\ Present(cred, c) /\ cred[c].acct = Owner(k)
  BY DEF TypeOK, Managing

-----------------------------------------------------------------------------
(* How a step changes the records: a pair is minted, a login is adopted or *)
(* the health changes.                                                     *)

Minted(c) ==
    LET l == cred[c].tok.lin IN
    /\ Present(cred, c) /\ latest[l] < MaxSeq /\ latest'[l] = latest[l] + 1
    /\ Commit(c, Replace(cred[c], Tok(l, latest[l] + 1)))

Adopted(c, k) ==
    /\ Present(cred, c) /\ Live(k) /\ Owner(k) = cred[c].acct /\ k # cred[c].tok /\ ~InRing(k, cred[c])
    /\ Commit(c, Replace(cred[c], k))

Marks == {<<"ok", "suspect">>, <<"ok", "dead">>, <<"suspect", "dead">>, <<"suspect", "ok">>, <<"dead", "ok">>}

Marked(c, h) ==
    /\ Present(cred, c) /\ h \in Health /\ <<cred[c].health, h>> \in Marks
    /\ Commit(c, [cred[c] EXCEPT !.health = h])

StoreStep ==
    \/ UNCHANGED <<cred, handed>>
    \/ \E c \in Creds : \/ Minted(c)
                        \/ \E k \in Token : Adopted(c, k)
                        \/ \E h \in Health : Marked(c, h)

LEMMA HealthKinds ==
    ASSUME TypeOK, NEW c \in Creds, Present(cred, c)
    PROVE  cred[c].health \in {"ok", "suspect", "dead"} /\ cred[c].tok \in Token
  BY PresentType DEF Record, Health

LEMMA BrokerStore == ASSUME TypeOK, NEW c \in Creds, BrokerRefresh(c) \/ BrokerPoll(c) PROVE StoreStep
<1>1. Present(cred, c)
  BY DEF BrokerRefresh, BrokerPoll
<1>2. cred[c].health \in {"ok", "suspect", "dead"} /\ cred[c].tok \in Token
  BY <1>1, HealthKinds
<1>3. CASE BrokerRefresh(c)
  <2> DEFINE r == cred[c]
             l == r.tok.lin
  <2>1. l \in Lineages
    BY <1>2, TokenFields
  <2>2. CASE Up!RefreshAnswer(r.tok, "ok") /\ Commit(c, Replace(r, Tok(l, latest'[l])))
    <3>1. Up!Mint(l)
      BY <2>2 DEF Up!RefreshAnswer
    <3>2. latest'[l] = latest[l] + 1 /\ latest[l] < MaxSeq
      BY <2>1, <3>1, MintType DEF Up!Mint
    <3> QED BY <1>1, <2>2, <3>2 DEF StoreStep, Minted
  <2>3. CASE Commit(c, [r EXCEPT !.health = "dead"])
    <3>1. r.health \in {"ok", "suspect"}
      BY <1>3 DEF BrokerRefresh
    <3> QED BY <1>1, <2>3, <3>1 DEF StoreStep, Marked, Marks, Health
  <2> QED BY <1>3, <2>2, <2>3 DEF BrokerRefresh, StoreStep
<1>4. CASE BrokerPoll(c)
  BY <1>1, <1>2, <1>4 DEF BrokerPoll, StoreStep, Marked, Marks, Health
<1> QED BY <1>3, <1>4

LEMMA SyncStore == ASSUME TypeOK, OffersLogin, NEW s \in Syncs, SyncStep(s) PROVE StoreStep
<1>1. CASE OfferRouted(s)
  <2> DEFINE k == Offered(s)
             m == Managing(cred, Owner(k))
  <2>1. CASE UNCHANGED <<cred, handed>>
    BY <2>1 DEF StoreStep
  <2>2. ASSUME NEW c \in m, ~InRing(k, cred[c]), cred[c].tok # k, Commit(c, Replace(cred[c], k)) PROVE StoreStep
    <3>1. c \in Creds /\ Present(cred, c) /\ cred[c].acct = Owner(k)
      BY <2>2, ManagingProperty
    <3>2. Live(k)
      BY <1>1 DEF OfferRouted
    <3>3. Adopted(c, k)
      BY <2>2, <3>1, <3>2 DEF Adopted
    <3>4. k \in Token
      <4>1. sync[s].pc = "offer"
        BY <1>1 DEF OfferRouted
      <4>2. sync[s].snap \in Local
        BY <4>1 DEF OffersLogin
      <4> QED BY <4>2, LocalFields DEF Offered
    <3> QED BY <3>1, <3>3, <3>4 DEF StoreStep
  <2> QED BY <1>1, <2>1, <2>2 DEF OfferRouted
<1>2. CASE GetCred(s)
  <2>1. ASSUME Present(cred, active), cred[active].health # "ok",
               Commit(active, [cred[active] EXCEPT !.health = "ok"])
        PROVE  StoreStep
    <3>1. active \in Creds
      BY DEF TypeOK
    <3>2. cred[active].health \in {"suspect", "dead"}
      BY <2>1, <3>1, HealthKinds
    <3> QED BY <2>1, <3>1, <3>2 DEF StoreStep, Marked, Marks, Health
  <2> QED BY <1>2, <2>1 DEF GetCred, StoreStep
<1>3. CASE OfferNotLive(s) \/ OfferRetry(s) \/ Reread(s) \/ WriteTarget(s)
  BY <1>3 DEF OfferNotLive, OfferRetry, Reread, WriteTarget, StoreStep
<1> QED BY <1>1, <1>2, <1>3 DEF SyncStep

LEMMA StoreShape == ASSUME TypeOK, OffersLogin, [Next]_vars PROVE StoreStep
<1>1. CASE UNCHANGED vars
  BY <1>1 DEF vars, StoreStep
<1>2. ASSUME NEW s \in Syncs, NEW d \in Targets, ReadLocal(s, d) PROVE StoreStep
  BY <1>2 DEF ReadLocal, StoreStep
<1>3. ASSUME NEW c \in Creds, Use(c) PROVE StoreStep
  BY <1>3 DEF Use, StoreStep
<1>4. ASSUME NEW d \in Targets, ClaudeRefresh(d) \/ \E l \in Lineages : Login(d, l) PROVE StoreStep
  BY <1>4 DEF ClaudeRefresh, Login, StoreStep
<1>5. CASE Ages
  BY <1>5 DEF Ages, StoreStep
<1> QED BY <1>1, <1>2, <1>3, <1>4, <1>5, SyncStore, BrokerStore DEF Next

-----------------------------------------------------------------------------
(* The types.                                                              *)

LEMMA StoreTypes ==
    ASSUME TypeOK, OffersLogin, [Next]_vars
    PROVE  cred' \in [Creds -> Record \cup {NoRecord}] /\ handed' \in SUBSET Token
<1>1. CASE UNCHANGED <<cred, handed>>
  BY <1>1 DEF TypeOK
<1>2. ASSUME NEW c \in Creds, Minted(c) PROVE cred' \in [Creds -> Record \cup {NoRecord}] /\ handed' \in SUBSET Token
  <2> DEFINE l == cred[c].tok.lin
  <2>1. cred[c] \in Record
    BY <1>2, PresentType DEF Minted
  <2>2. l \in Lineages /\ latest[l] + 1 \in 1..MaxSeq
    <3>1. cred[c].tok \in Token
      BY <2>1 DEF Record
    <3>2. l \in Lineages
      BY <3>1, TokenFields
    <3>3. latest[l] \in 1..MaxSeq
      BY <3>2 DEF TypeOK
    <3> QED BY <1>2, <3>2, <3>3, TokensAssumption DEF Minted
  <2>3. Replace(cred[c], Tok(l, latest[l] + 1)) \in Record
    BY <2>1, <2>2, TokenType, ReplaceType
  <2> QED BY <1>2, <2>3, CommitType DEF Minted
<1>3. ASSUME NEW c \in Creds, NEW k \in Token, Adopted(c, k)
      PROVE  cred' \in [Creds -> Record \cup {NoRecord}] /\ handed' \in SUBSET Token
  <2>1. cred[c] \in Record
    BY <1>3, PresentType DEF Adopted
  <2> QED BY <1>3, <2>1, ReplaceType, CommitType DEF Adopted
<1>4. ASSUME NEW c \in Creds, NEW h \in Health, Marked(c, h)
      PROVE  cred' \in [Creds -> Record \cup {NoRecord}] /\ handed' \in SUBSET Token
  <2>1. cred[c] \in Record
    BY <1>4, PresentType DEF Marked
  <2> QED BY <1>4, <2>1, MarkType, CommitType DEF Marked
<1> QED BY <1>1, <1>2, <1>3, <1>4, StoreShape DEF StoreStep

\* What an action of a process makes of it.
Answered(s) == \E why \in Reasons \ {"none"} : sync[s].pc = "offer" /\ Verdict(s, why)

Served(s) ==
    \E c \in Creds : \E probeLive \in BOOLEAN :
        /\ sync[s].pc = "get" /\ Present(cred, c)
        /\ OverwriteDecision(sync[s].snap # NoLocal /\ sync[s].snap.rt, sync[s].reason, probeLive)
        /\ Goto(s, [sync[s] EXCEPT !.pc = "reread", !.env = cred[c].tok])

Moves(s) ==
    \/ Done(s) \/ Answered(s) \/ Served(s)
    \/ sync[s].pc = "reread" /\ local[sync[s].target] = sync[s].snap /\ Goto(s, [sync[s] EXCEPT !.pc = "write"])

LEMMA SyncMoves == ASSUME TypeOK, NEW s \in Syncs, SyncStep(s) PROVE Moves(s)
<1>1. CASE OfferRouted(s) \/ OfferNotLive(s) \/ OfferRetry(s)
  <2>1. Answered(s)
    BY <1>1 DEF OfferRouted, OfferNotLive, OfferRetry, Answered, Reasons
  <2> QED BY <2>1 DEF Moves
<1>2. CASE GetCred(s)
  <2>1. active \in Creds
    BY DEF TypeOK
  <2>2. sync[s].pc = "get"
    BY <1>2 DEF GetCred
  <2>3. ASSUME Present(cred, active), NEW live \in BOOLEAN, Serve(s, active, live) PROVE Moves(s)
    BY <2>1, <2>2, <2>3 DEF Serve, Moves, Served
  <2>4. CASE Done(s)
    BY <2>4 DEF Moves
  <2> QED BY <1>2, <2>3, <2>4 DEF GetCred
<1>3. CASE Reread(s)
  BY <1>3 DEF Reread, SameOAuth, Moves
<1>4. CASE WriteTarget(s)
  BY <1>4 DEF WriteTarget, Moves
<1> QED BY <1>1, <1>2, <1>3, <1>4 DEF SyncStep

LEMMA VerdictFields ==
    ASSUME TypeOK, NEW s \in Syncs, NEW why \in Reasons, Verdict(s, why)
    PROVE  /\ sync' \in [Syncs -> SyncState]
           /\ \A q \in Syncs \ {s} : sync'[q] = sync[q]
           /\ sync'[s].snap = sync[s].snap /\ sync'[s].target = sync[s].target
           /\ sync'[s].pc = "get" /\ sync'[s].reason = why
<1> DEFINE r == [sync[s] EXCEPT !.pc = "get", !.reason = why]
<1>1. sync[s] \in SyncState
  BY DEF TypeOK
<1>2. r \in SyncState /\ r.snap = sync[s].snap /\ r.target = sync[s].target /\ r.pc = "get" /\ r.reason = why
  BY <1>1 DEF SyncState, PCs
<1>3. Goto(s, r)
  BY DEF Verdict
<1> HIDE DEF r
<1> QED BY <1>2, <1>3, GotoType, GotoFields

\* The others stay as they are, and the one that moves keeps what it has read.
LEMMA MovesFields ==
    ASSUME TypeOK, NEW s \in Syncs, Moves(s)
    PROVE  /\ sync' \in [Syncs -> SyncState]
           /\ \A q \in Syncs \ {s} : sync'[q] = sync[q]
           /\ \/ sync'[s].pc = "idle" /\ sync'[s].snap = NoLocal
              \/ /\ sync'[s].snap = sync[s].snap /\ sync'[s].target = sync[s].target
                 /\ \/ sync'[s].pc = "get" /\ sync[s].pc = "offer" /\ sync'[s].reason \in Reasons \ {"none"}
                    \/ /\ sync'[s].reason = sync[s].reason
                       /\ \/ sync'[s].pc = "reread" /\ Served(s)
                          \/ /\ sync'[s].pc = "write" /\ sync[s].pc = "reread"
                             /\ local[sync[s].target] = sync[s].snap
<1>1. sync[s] \in SyncState
  BY DEF TypeOK
<1>2. CASE Done(s)
  BY <1>2, DoneFields, DoneType
<1>4. CASE Served(s)
  <2>1. PICK c \in Creds : Present(cred, c) /\ Goto(s, [sync[s] EXCEPT !.pc = "reread", !.env = cred[c].tok])
    BY <1>4 DEF Served
  <2>2. cred[c].tok \in Token
    BY <2>1, PresentType DEF Record
  <2> DEFINE r == [sync[s] EXCEPT !.pc = "reread", !.env = cred[c].tok]
  <2>3. /\ r \in SyncState /\ r.snap = sync[s].snap /\ r.target = sync[s].target
        /\ r.pc = "reread" /\ r.reason = sync[s].reason
    BY <1>1, <2>2 DEF SyncState, PCs
  <2> HIDE DEF r
  <2> QED BY <1>4, <2>1, <2>3, GotoType, GotoFields DEF r
<1>5. CASE /\ sync[s].pc = "reread" /\ local[sync[s].target] = sync[s].snap
           /\ Goto(s, [sync[s] EXCEPT !.pc = "write"])
  <2>1. [sync[s] EXCEPT !.pc = "write"] \in SyncState
    BY <1>1 DEF SyncState, PCs
  <2> QED BY <1>1, <1>5, <2>1, GotoType, GotoFields DEF SyncState
<1> QED BY <1>2, <1>4, <1>5, VerdictFields DEF Moves, Answered

LEMMA ReadFields ==
    ASSUME TypeOK, NEW s \in Syncs, NEW d \in Targets, ReadLocal(s, d)
    PROVE  /\ sync' \in [Syncs -> SyncState]
           /\ \A q \in Syncs \ {s} : sync'[q] = sync[q]
           /\ sync'[s].pc = (IF HasRT(d) THEN "offer" ELSE "get")
           /\ sync'[s].snap = local[d] /\ sync'[s].target = d /\ sync'[s].reason = "none"
<1> DEFINE r == [Idle EXCEPT !.target = d, !.snap = local[d], !.pc = IF HasRT(d) THEN "offer" ELSE "get"]
<1>1. local[d] \in Local \cup {NoLocal}
  BY DEF TypeOK
<1>2. r \in SyncState
  BY <1>1, IdleType DEF SyncState, PCs
<1>3. Idle.reason = "none"
  BY DEF Idle
<1>4. /\ r.pc = (IF HasRT(d) THEN "offer" ELSE "get") /\ r.snap = local[d]
      /\ r.target = d /\ r.reason = "none"
  BY <1>1, <1>3, IdleType DEF SyncState
<1>5. Goto(s, r)
  BY DEF ReadLocal
<1> HIDE DEF r
<1> QED BY <1>2, <1>4, <1>5, GotoType, GotoFields

\* Time passes and pairs are minted; nothing gets younger or is taken back.
Older ==
    /\ latest' \in [Lineages -> 1..MaxSeq] /\ \A l \in Lineages : latest[l] <= latest'[l]
    /\ age' \in [Lineages -> [1..MaxSeq -> 0..2]]
    /\ \A l \in Lineages, i \in 1..MaxSeq : age[l][i] <= age'[l][i]
    /\ faults' \in Nat

LEMMA NumberTypes ==
    ASSUME TypeOK, NEW l \in Lineages
    PROVE  /\ latest[l] \in 1..MaxSeq /\ latest[l] \in Nat
           /\ \A i \in 1..MaxSeq : age[l][i] \in 0..2 /\ age[l][i] \in Nat
<1>1. age[l] \in [1..MaxSeq -> 0..2]
  BY DEF TypeOK
<1>2. \A i \in 1..MaxSeq : age[l][i] \in 0..2
  BY <1>1
<1>3. latest[l] \in 1..MaxSeq
  BY DEF TypeOK
<1> QED BY <1>2, <1>3, TokensAssumption

LEMMA SameOlder == ASSUME TypeOK, UNCHANGED <<latest, age>>, faults' \in Nat PROVE Older
  BY NumberTypes DEF Older, TypeOK

LEMMA MintOlder == ASSUME TypeOK, NEW l \in Lineages, Up!Mint(l), UNCHANGED age, faults' \in Nat PROVE Older
<1>1. \A m \in Lineages : latest[m] <= latest'[m]
  BY NumberTypes, MintType
<1> QED BY <1>1, NumberTypes, MintType DEF Older, TypeOK

LEMMA AgesOlder == ASSUME TypeOK, Ages PROVE Older
<1>1. PICK l \in Lineages, i \in 1..MaxSeq : Up!Age(l, i)
  BY DEF Ages, TypeOK
<1>2. /\ age' = [age EXCEPT ![l][i] = age[l][i] + 1] /\ age[l][i] < MaxAge
      /\ latest' = latest /\ faults' = faults
  BY <1>1 DEF Up!Age
<1>3. age[l][i] \in 0..2 /\ age[l][i] + 1 \in 0..2
  BY <1>2, NumberTypes, SyncAssumption
<1>4. age' \in [Lineages -> [1..MaxSeq -> 0..2]]
  BY <1>2, <1>3 DEF TypeOK
<1>5. ASSUME NEW m \in Lineages, NEW j \in 1..MaxSeq PROVE age[m][j] <= age'[m][j]
  <2>1. age[m][j] \in Nat
    BY NumberTypes
  <2>2. CASE m = l /\ j = i
    BY <1>2, <1>3, <2>2 DEF TypeOK
  <2>3. CASE ~(m = l /\ j = i)
    <3>1. age'[m][j] = age[m][j]
      BY <1>2, <2>3 DEF TypeOK
    <3> QED BY <2>1, <3>1
  <2> QED BY <2>2, <2>3
<1> QED BY <1>2, <1>4, <1>5, NumberTypes DEF Older, TypeOK

LEMMA RefreshOlder == ASSUME TypeOK, NEW c \in Creds, BrokerRefresh(c) PROVE Older
<1> DEFINE k == cred[c].tok
<1>1. k.lin \in Lineages
  <2>1. k \in Token
    BY HealthKinds DEF BrokerRefresh
  <2> QED BY <2>1, TokenFields
<1>2. faults \in Nat
  BY DEF TypeOK
<1>3. UNCHANGED age /\ \E a \in {"ok", "permanent", "transient"} : Up!RefreshAnswer(k, a)
  BY DEF BrokerRefresh
<1>4. /\ faults' = faults \/ \E kind : Up!Fault(kind)
      /\ latest' = latest \/ Up!Mint(k.lin)
  BY <1>3 DEF Up!RefreshAnswer
<1>5. faults' \in Nat
  BY <1>2, <1>4, FaultType
<1> QED BY <1>1, <1>3, <1>4, <1>5, SameOlder, MintOlder

LEMMA SyncOlder == ASSUME TypeOK, NEW s \in Syncs, SyncStep(s) PROVE Older
<1>1. UNCHANGED <<latest, age>>
  BY DEF SyncStep, OfferRouted, OfferNotLive, OfferRetry, GetCred, Reread, WriteTarget, upVars
<1>2. faults' = faults \/ \E kind : Up!Fault(kind)
  <2>1. CASE OfferRouted(s)
    BY <2>1 DEF OfferRouted
  <2>2. CASE OfferNotLive(s) \/ OfferRetry(s)
    BY <2>2 DEF OfferNotLive, OfferRetry
  <2>3. CASE GetCred(s)
    BY <2>3 DEF GetCred, Probe
  <2>4. CASE Reread(s) \/ WriteTarget(s)
    BY <2>4 DEF Reread, WriteTarget, upVars
  <2> QED BY <2>1, <2>2, <2>3, <2>4 DEF SyncStep
<1>3. faults' \in Nat
  BY <1>2, FaultType DEF TypeOK
<1> QED BY <1>1, <1>3, SameOlder

LEMMA UpstreamGrows == ASSUME TypeOK, [Next]_vars PROVE Older
<1>1. ASSUME UNCHANGED upVars PROVE Older
  BY <1>1, SameOlder DEF upVars, TypeOK
<1>2. CASE UNCHANGED vars
  BY <1>1, <1>2 DEF vars, upVars
<1>3. ASSUME NEW s \in Syncs, NEW d \in Targets, ReadLocal(s, d) PROVE Older
  BY <1>1, <1>3 DEF ReadLocal
<1>4. ASSUME NEW c \in Creds, BrokerPoll(c) \/ Use(c) PROVE Older
  BY <1>1, <1>4 DEF BrokerPoll, Use
<1>5. ASSUME NEW d \in Targets, ClaudeRefresh(d) PROVE Older
  <2>1. local[d].tok \in Token
    BY <1>5, LocalFields DEF ClaudeRefresh, HasRT, TypeOK
  <2>2. local[d].tok.lin \in Lineages /\ Up!Mint(local[d].tok.lin) /\ UNCHANGED <<age, faults>>
    BY <1>5, <2>1, TokenFields DEF ClaudeRefresh
  <2> QED BY <2>2, MintOlder DEF TypeOK
<1>6. ASSUME NEW d \in Targets, NEW l \in Lineages, Login(d, l) PROVE Older
  BY <1>1, <1>6 DEF Login
<1> QED BY <1>2, <1>3, <1>4, <1>5, <1>6, SyncOlder, RefreshOlder, AgesOlder DEF Next

\* A target is written by a process, by a login or by Claude Code.
Written(s) ==
    sync[s].pc = "write" /\ local' = [local EXCEPT ![sync[s].target] = [tok |-> sync[s].env, rt |-> FALSE]]

LoggedIn(d, l) == local' = [local EXCEPT ![d] = [tok |-> Tok(l, 1), rt |-> TRUE]]

Refreshed(d) ==
    LET k == local[d].tok IN
    /\ HasRT(d) /\ Up!Mint(k.lin)
    /\ local' = [local EXCEPT ![d] = [local[d] EXCEPT !.tok = Tok(k.lin, latest[k.lin] + 1)]]

LocalStep ==
    \/ UNCHANGED local
    \/ \E s \in Syncs : Written(s) /\ Done(s)
    \/ \E d \in Targets : /\ InWindow(d) => WindowHit
                          /\ UNCHANGED sync
                          /\ Refreshed(d) \/ \E l \in Lineages : LoggedIn(d, l)

LEMMA LocalShape == ASSUME TypeOK, [Next]_vars PROVE LocalStep
<1>1. CASE UNCHANGED vars
  BY <1>1 DEF vars, LocalStep
<1>2. ASSUME NEW s \in Syncs, SyncStep(s) \/ \E d \in Targets : ReadLocal(s, d) PROVE LocalStep
  <2>1. CASE WriteTarget(s)
    BY <2>1 DEF WriteTarget, LocalStep, Written
  <2>2. CASE ~WriteTarget(s)
    BY <1>2, <2>2 DEF SyncStep, ReadLocal, OfferRouted, OfferNotLive, OfferRetry, GetCred, Reread, LocalStep
  <2> QED BY <2>1, <2>2
<1>3. ASSUME NEW c \in Creds, BrokerRefresh(c) \/ BrokerPoll(c) \/ Use(c) PROVE LocalStep
  BY <1>3 DEF BrokerRefresh, BrokerPoll, Use, LocalStep
<1>4. ASSUME NEW d \in Targets, ClaudeRefresh(d) \/ \E l \in Lineages : Login(d, l) PROVE LocalStep
  BY <1>4 DEF ClaudeRefresh, Login, LocalStep, Refreshed, LoggedIn
<1>5. CASE Ages
  BY <1>5 DEF Ages, LocalStep
<1> QED BY <1>1, <1>2, <1>3, <1>4, <1>5 DEF Next

\* What a step does to the processes.
ProcStep ==
    \/ UNCHANGED sync
    \/ \E s \in Syncs : SyncStep(s) \/ \E d \in Targets : ReadLocal(s, d)

LEMMA ProcShape == ASSUME [Next]_vars PROVE ProcStep
<1>1. CASE UNCHANGED vars
  BY <1>1 DEF vars, ProcStep
<1>2. ASSUME NEW c \in Creds, BrokerRefresh(c) \/ BrokerPoll(c) \/ Use(c) PROVE ProcStep
  BY <1>2 DEF BrokerRefresh, BrokerPoll, Use, ProcStep
<1>3. ASSUME NEW d \in Targets, ClaudeRefresh(d) \/ \E l \in Lineages : Login(d, l) PROVE ProcStep
  BY <1>3 DEF ClaudeRefresh, Login, ProcStep
<1>4. CASE Ages
  BY <1>4 DEF Ages, ProcStep
<1> QED BY <1>1, <1>2, <1>3, <1>4 DEF Next, ProcStep

LEMMA ProcTypes ==
    ASSUME TypeOK, OffersLogin, [Next]_vars
    PROVE  sync' \in [Syncs -> SyncState] /\ OffersLogin'
<1>1. CASE UNCHANGED sync
  BY <1>1 DEF TypeOK, OffersLogin
<1>2. ASSUME NEW s \in Syncs, SyncStep(s) PROVE sync' \in [Syncs -> SyncState] /\ OffersLogin'
  BY <1>2, SyncMoves, MovesFields DEF OffersLogin
<1>3. ASSUME NEW s \in Syncs, NEW d \in Targets, ReadLocal(s, d) PROVE sync' \in [Syncs -> SyncState] /\ OffersLogin'
  <2>1. HasRT(d) => local[d] \in Local /\ local[d].rt
    BY DEF HasRT, TypeOK
  <2> QED BY <1>3, <2>1, ReadFields DEF OffersLogin
<1> QED BY <1>1, <1>2, <1>3, ProcShape DEF ProcStep

LEMMA LocalTypes == ASSUME TypeOK, [Next]_vars PROVE local' \in [Targets -> Local \cup {NoLocal}]
<1>1. ASSUME NEW d \in Targets, NEW k \in Local, local' = [local EXCEPT ![d] = k]
      PROVE  local' \in [Targets -> Local \cup {NoLocal}]
  BY <1>1 DEF TypeOK
<1>2. ASSUME NEW s \in Syncs, Written(s) PROVE local' \in [Targets -> Local \cup {NoLocal}]
  <2>1. sync[s].target \in Targets /\ sync[s].env \in Token
    BY StateFields DEF TypeOK
  <2>2. [tok |-> sync[s].env, rt |-> FALSE] \in Local
    BY <2>1 DEF Local
  <2> QED BY <1>1, <1>2, <2>1, <2>2 DEF Written
<1>3. ASSUME NEW d \in Targets, NEW l \in Lineages, LoggedIn(d, l) PROVE local' \in [Targets -> Local \cup {NoLocal}]
  <2>1. [tok |-> Tok(l, 1), rt |-> TRUE] \in Local
    BY TokenType, TokensAssumption DEF Local
  <2> QED BY <1>1, <1>3, <2>1 DEF LoggedIn
<1>4. ASSUME NEW d \in Targets, Refreshed(d) PROVE local' \in [Targets -> Local \cup {NoLocal}]
  <2> DEFINE k == local[d].tok
             new == [local[d] EXCEPT !.tok = Tok(k.lin, latest[k.lin] + 1)]
  <2>1. local[d] \in Local
    BY <1>4 DEF Refreshed, HasRT, TypeOK
  <2>2. k.lin \in Lineages /\ latest[k.lin] + 1 \in 1..MaxSeq
    <3>1. k.lin \in Lineages
      BY <2>1, LocalFields, TokenFields
    <3>2. latest[k.lin] < MaxSeq
      BY <1>4 DEF Refreshed, Up!Mint
    <3> QED BY <3>1, <3>2, NumberTypes, TokensAssumption
  <2>3. new \in Local
    BY <2>1, <2>2, TokenType DEF Local
  <2> QED BY <1>1, <1>4, <2>3 DEF Refreshed
<1>5. CASE UNCHANGED local
  BY <1>5 DEF TypeOK
<1> QED BY <1>2, <1>3, <1>4, <1>5, LocalShape DEF LocalStep

LEMMA OtherTypes ==
    ASSUME TypeOK, [Next]_vars
    PROVE  active' \in Creds /\ uses' \in Nat /\ loggedIn' \in SUBSET Lineages
<1>1. CASE UNCHANGED <<active, uses, loggedIn>>
  BY <1>1 DEF TypeOK
<1>2. ASSUME NEW c \in Creds, Use(c) PROVE active' \in Creds /\ uses' \in Nat /\ loggedIn' \in SUBSET Lineages
  BY <1>2 DEF TypeOK, Use
<1>3. ASSUME NEW d \in Targets, NEW l \in Lineages, Login(d, l)
      PROVE  active' \in Creds /\ uses' \in Nat /\ loggedIn' \in SUBSET Lineages
  BY <1>3 DEF TypeOK, Login
<1>4. CASE \/ UNCHANGED vars
           \/ Ages
           \/ \E s \in Syncs : SyncStep(s) \/ \E d \in Targets : ReadLocal(s, d)
           \/ \E c \in Creds : BrokerRefresh(c) \/ BrokerPoll(c)
           \/ \E d \in Targets : ClaudeRefresh(d)
  BY <1>1, <1>4 DEF vars, Ages, SyncStep, ReadLocal, OfferRouted, OfferNotLive, OfferRetry, GetCred, Reread,
                    WriteTarget, BrokerRefresh, BrokerPoll, ClaudeRefresh
<1> QED BY <1>2, <1>3, <1>4 DEF Next

LEMMA TypesStep == ASSUME TypeOK, OffersLogin, [Next]_vars PROVE TypeOK' /\ OffersLogin'
  BY UpstreamGrows, StoreTypes, ProcTypes, LocalTypes, OtherTypes DEF TypeOK, Older

LEMMA TypesInit == ASSUME Init PROVE TypeOK /\ OffersLogin
<1>1. \A l \in Lineages : Tok(l, 1) \in Token /\ Fresh(Tok(l, 1)) \in Record
  <2>1. 1 \in 1..MaxSeq
    BY TokensAssumption
  <2> QED BY <2>1, TokenType, FreshType
<1>2. cred \in [Creds -> Record \cup {NoRecord}] /\ handed \in SUBSET Token
  <2>1. cred \in [Creds -> Record \cup {NoRecord}]
    BY <1>1 DEF Init
  <2>2. \A c \in Creds : Present(cred, c) => cred[c].tok \in Token
    BY <2>1 DEF Present, Record
  <2> QED BY <2>1, <2>2 DEF Init
<1>3. local \in [Targets -> Local \cup {NoLocal}]
  <2> DEFINE Logins == {[tok |-> k, rt |-> TRUE] : k \in handed}
  <2>1. Logins \subseteq Local
    <3>1. \A k \in handed : [tok |-> k, rt |-> TRUE] \in Local
      BY <1>2 DEF Local
    <3> QED BY <3>1
  <2>2. local \in [Targets -> {NoLocal} \cup Logins]
    BY DEF Init
  <2> HIDE DEF Logins
  <2> QED BY <2>1, <2>2
<1>4. sync \in [Syncs -> SyncState] /\ OffersLogin
  <2>1. Idle.pc = "idle"
    BY DEF Idle
  <2> QED BY <2>1, IdleType DEF Init, OffersLogin
<1>5. latest \in [Lineages -> 1..MaxSeq] /\ age \in [Lineages -> [1..MaxSeq -> 0..2]]
  <2>1. 1 \in 1..MaxSeq
    BY TokensAssumption
  <2> DEFINE young == [i \in 1..MaxSeq |-> 0]
  <2>2. young \in [1..MaxSeq -> 0..2]
    OBVIOUS
  <2>3. age = [l \in Lineages |-> young] /\ latest = [l \in Lineages |-> 1]
    BY DEF Init
  <2> HIDE DEF young
  <2> QED BY <2>1, <2>2, <2>3
<1>6. loggedIn \in SUBSET Lineages
  <2>1. \A k \in handed : k.lin \in Lineages
    BY <1>2, TokenFields
  <2> QED BY <2>1 DEF Init
<1> QED BY <1>2, <1>3, <1>4, <1>5, <1>6 DEF Init, TypeOK

\* Every variable of Sync keeps its type, and a process that makes an offer
\* has a login to offer.
THEOREM TypeCorrect == Spec => [](TypeOK /\ OffersLogin)
<1>1. TypeOK /\ OffersLogin /\ [Next]_vars => TypeOK' /\ OffersLogin'
  BY TypesStep
<1> QED BY <1>1, TypesInit, PTL DEF Spec

-----------------------------------------------------------------------------
(* Every token was issued, and what a record has or retired was handed to  *)
(* the broker.                                                             *)

IssuedBy(up, k) == k.seq <= up[k.lin]
LiveBy(up, ages, k) == k.seq = up[k.lin] /\ ages[k.lin][k.seq] < 2

LEMMA LiveMeans == ASSUME TypeOK, NEW k \in Token PROVE Live(k) <=> LiveBy(latest, age, k)
<1>1. k.lin \in Lineages /\ k.seq \in Nat /\ latest[k.lin] \in Nat
  BY TokenFields, NumberTypes
<1> QED BY <1>1 DEF LiveBy, Live, Up!Live, Up!Issued, Up!Superseded, Up!Unexpired

TokensIssued ==
    /\ \A k \in handed : IssuedBy(latest, k)
    /\ \A d \in Targets : local[d] # NoLocal => IssuedBy(latest, local[d].tok)
    /\ \A s \in Syncs :
        /\ sync[s].snap # NoLocal => IssuedBy(latest, sync[s].snap.tok)
        /\ sync[s].pc \in {"reread", "write"} => sync[s].env \in handed

RecordsHanded ==
    \A c \in Creds : Present(cred, c) =>
        /\ cred[c].tok \in handed
        /\ \A i \in 1..Len(cred[c].ring) : cred[c].ring[i] \in handed

LEMMA IssuedKept == ASSUME TypeOK, Older, NEW k \in Token, IssuedBy(latest, k) PROVE IssuedBy(latest', k)
<1>1. k.lin \in Lineages /\ k.seq \in Nat
  BY TokenFields
<1>2. latest[k.lin] \in Nat /\ latest'[k.lin] \in Nat /\ latest[k.lin] <= latest'[k.lin]
  BY <1>1, NumberTypes, TokensAssumption DEF Older
<1> QED BY <1>1, <1>2 DEF IssuedBy, Up!Issued

\* A token that is no longer accepted stays so.
LEMMA GoneStays == ASSUME TypeOK, Older, NEW k \in Token, IssuedBy(latest, k), ~LiveBy(latest, age, k) PROVE ~LiveBy(latest', age', k)
<1>1. k.lin \in Lineages /\ k.seq \in Nat /\ k.seq \in 1..MaxSeq
  BY TokenFields
<1>2. latest[k.lin] \in Nat /\ latest'[k.lin] \in Nat /\ latest[k.lin] <= latest'[k.lin]
  BY <1>1, NumberTypes, TokensAssumption DEF Older
<1>3. age[k.lin][k.seq] \in Nat /\ age'[k.lin][k.seq] \in Nat /\ age[k.lin][k.seq] <= age'[k.lin][k.seq]
  <2>1. age'[k.lin] \in [1..MaxSeq -> 0..2]
    BY <1>1 DEF Older
  <2>2. age'[k.lin][k.seq] \in 0..2
    BY <1>1, <2>1
  <2> QED BY <1>1, <2>2, NumberTypes DEF Older
<1> QED BY <1>1, <1>2, <1>3 DEF IssuedBy, LiveBy

\* The record a commit stores: its token and its ring.
LEMMA ReplaceFields ==
    ASSUME NEW r \in Record, NEW k \in Token
    PROVE  /\ Replace(r, k).tok = k /\ Replace(r, k).acct = Owner(k) /\ Replace(r, k).health = "ok"
           /\ Replace(r, k).gen = r.gen
           /\ Replace(r, k).ring = RetireHash(r.ring, r.tok)
           /\ r.ring \in Ring /\ r.tok \in Token
           /\ \A i \in 1..Len(Replace(r, k).ring) :
                \/ Replace(r, k).ring[i] = r.tok
                \/ \E j \in 1..Len(r.ring) : Replace(r, k).ring[i] = r.ring[j]
<1>1. r.ring \in Ring /\ r.tok \in Token
  BY DEF Record
<1>2. /\ Replace(r, k).tok = k /\ Replace(r, k).acct = Owner(k) /\ Replace(r, k).health = "ok"
      /\ Replace(r, k).gen = r.gen /\ Replace(r, k).ring = RetireHash(r.ring, r.tok)
  BY DEF Record, Replace
<1> DEFINE out == RetireHash(r.ring, r.tok)
<1>3. \A i \in 1..Len(out) : out[i] = r.tok \/ \E j \in 1..Len(r.ring) : out[i] = r.ring[j]
  BY <1>1, RetireHashProperties
<1>4. Replace(r, k).ring = out
  BY <1>2
<1> HIDE DEF out
<1>5. \A i \in 1..Len(Replace(r, k).ring) :
        Replace(r, k).ring[i] = r.tok \/ \E j \in 1..Len(r.ring) : Replace(r, k).ring[i] = r.ring[j]
  BY <1>3, <1>4
<1> QED BY <1>1, <1>2, <1>5

LEMMA CommitFields ==
    ASSUME TypeOK, NEW c \in Creds, NEW r \in Record, Commit(c, r)
    PROVE  /\ handed' = handed \cup {r.tok}
           /\ cred'[c].tok = r.tok /\ cred'[c].acct = r.acct /\ cred'[c].health = r.health
           /\ cred'[c].ring = r.ring /\ cred'[c].gen = r.gen + 1 /\ Present(cred', c)
           /\ \A e \in Creds \ {c} : cred'[e] = cred[e]
<1> DEFINE new == [r EXCEPT !.gen = r.gen + 1]
<1>1. /\ new \in Record /\ new.tok = r.tok /\ new.acct = r.acct /\ new.health = r.health
      /\ new.ring = r.ring /\ new.gen = r.gen + 1
  BY DEF Record
<1>4. cred'[c] = new
  BY DEF Commit, LaterGen, TypeOK
<1>2. /\ handed' = handed \cup {r.tok} /\ \A e \in Creds \ {c} : cred'[e] = cred[e]
  BY DEF Commit, TypeOK
<1>3. new # NoRecord
  BY <1>1, RecordsAssumption
<1> HIDE DEF new
<1> QED BY <1>1, <1>2, <1>3, <1>4 DEF Present

LEMMA MintedFields ==
    ASSUME TypeOK, NEW c \in Creds, Minted(c)
    PROVE  \E k \in Token :
             /\ k.lin = cred[c].tok.lin /\ k.seq = latest[k.lin] + 1 /\ latest'[k.lin] = k.seq
             /\ cred[c] \in Record /\ Commit(c, Replace(cred[c], k))
<1> DEFINE l == cred[c].tok.lin
           k == Tok(l, latest[l] + 1)
<1>1. cred[c] \in Record /\ cred[c].tok \in Token
  BY PresentType DEF Minted, Record
<1>2. l \in Lineages /\ latest[l] + 1 \in 1..MaxSeq
  <2>1. l \in Lineages
    BY <1>1, TokenFields
  <2> QED BY <2>1, NumberTypes, TokensAssumption DEF Minted
<1>3. k \in Token /\ k.lin = l /\ k.seq = latest[l] + 1
  BY <1>2, TokenType DEF Tok
<1>4. latest'[l] = latest[l] + 1 /\ Commit(c, Replace(cred[c], k))
  BY DEF Minted
<1> HIDE DEF k
<1> QED BY <1>1, <1>3, <1>4

\* A commit puts a record with token k in the place of c, or one with the same
\* token and ring.
Puts(c, k) == k \in Token /\ cred[c] \in Record /\ Commit(c, Replace(cred[c], k))

Keeps(c) ==
    /\ Present(cred, c) /\ Present(cred', c) /\ handed' = handed \cup {cred[c].tok}
    /\ cred'[c].tok = cred[c].tok /\ cred'[c].ring = cred[c].ring /\ cred'[c].acct = cred[c].acct
    /\ \A e \in Creds \ {c} : cred'[e] = cred[e]

LEMMA StoreKinds ==
    ASSUME TypeOK, OffersLogin, [Next]_vars
    PROVE  \/ UNCHANGED <<cred, handed>>
           \/ \E c \in Creds, k \in Token :
                /\ Puts(c, k) /\ Present(cred, c)
                /\ \/ k.lin = cred[c].tok.lin /\ k.seq = latest[k.lin] + 1 /\ latest'[k.lin] = k.seq
                   \/ Live(k) /\ Owner(k) = cred[c].acct /\ k # cred[c].tok /\ ~InRing(k, cred[c])
           \/ \E c \in Creds : Keeps(c)
<1>1. ASSUME NEW c \in Creds, NEW h \in Health, Marked(c, h) PROVE Keeps(c)
  <2> DEFINE new == [cred[c] EXCEPT !.health = h]
  <2>1. Present(cred, c) /\ cred[c] \in Record
    BY <1>1, PresentType DEF Marked
  <2>2. new \in Record /\ new.tok = cred[c].tok /\ new.ring = cred[c].ring /\ new.acct = cred[c].acct
    BY <2>1, MarkType DEF Record
  <2>3. Commit(c, new)
    BY <1>1 DEF Marked
  <2> HIDE DEF new
  <2> QED BY <2>1, <2>2, <2>3, CommitFields DEF Keeps
<1>2. ASSUME NEW c \in Creds, Minted(c)
      PROVE  \E k \in Token : /\ Puts(c, k) /\ Present(cred, c)
                              /\ k.lin = cred[c].tok.lin /\ k.seq = latest[k.lin] + 1 /\ latest'[k.lin] = k.seq
  BY <1>2, MintedFields DEF Puts, Minted
<1>3. ASSUME NEW c \in Creds, NEW k \in Token, Adopted(c, k) PROVE Puts(c, k) /\ Present(cred, c)
  BY <1>3, PresentType DEF Puts, Adopted
<1> QED BY <1>1, <1>2, <1>3, StoreShape DEF StoreStep, Adopted

LEMMA HandedStep ==
    ASSUME TypeOK, OffersLogin, TokensIssued, RecordsHanded, [Next]_vars
    PROVE  /\ handed \subseteq handed' /\ RecordsHanded'
           /\ \A k \in handed' : IssuedBy(latest', k)
<1>1. \A k \in handed : IssuedBy(latest', k)
  BY UpstreamGrows, IssuedKept DEF TypeOK, TokensIssued
<1>2. CASE UNCHANGED <<cred, handed>>
  BY <1>1, <1>2 DEF RecordsHanded, Present
<1>3. ASSUME NEW c \in Creds, NEW k \in Token, Puts(c, k), Present(cred, c), IssuedBy(latest', k)
      PROVE  /\ handed \subseteq handed' /\ RecordsHanded'
             /\ \A j \in handed' : IssuedBy(latest', j)
  <2> DEFINE new == Replace(cred[c], k)
  <2>1. cred[c] \in Record /\ Commit(c, new)
    BY <1>3 DEF Puts
  <2>2. new \in Record
    BY <2>1, ReplaceType
  <2>3. /\ new.tok = k
        /\ \A i \in 1..Len(new.ring) : new.ring[i] = cred[c].tok \/ \E j \in 1..Len(cred[c].ring) : new.ring[i] = cred[c].ring[j]
    BY <2>1, ReplaceFields
  <2> HIDE DEF new
  <2>4. handed' = handed \cup {k}
    BY <2>1, <2>2, <2>3, CommitFields
  <2>5. \A i \in 1..Len(new.ring) : new.ring[i] \in handed
    BY <1>3, <2>3 DEF RecordsHanded
  <2>6. cred'[c].tok = new.tok /\ cred'[c].ring = new.ring /\ \A e \in Creds \ {c} : cred'[e] = cred[e]
    BY <2>1, <2>2, CommitFields
  <2>7. RecordsHanded'
    <3> SUFFICES ASSUME NEW e \in Creds, cred'[e] # NoRecord
                 PROVE  cred'[e].tok \in handed' /\ \A i \in 1..Len(cred'[e].ring) : cred'[e].ring[i] \in handed'
      BY DEF RecordsHanded, Present
    <3>1. CASE e = c
      BY <2>3, <2>4, <2>5, <2>6, <3>1
    <3>2. CASE e # c
      BY <2>4, <2>6, <3>2 DEF RecordsHanded, Present
    <3> QED BY <3>1, <3>2
  <2> QED BY <1>1, <1>3, <2>4, <2>7
<1>4. ASSUME NEW c \in Creds, Keeps(c)
      PROVE  /\ handed \subseteq handed' /\ RecordsHanded'
             /\ \A j \in handed' : IssuedBy(latest', j)
  <2>1. handed' = handed
    BY <1>4 DEF Keeps, RecordsHanded
  <2>2. RecordsHanded'
    BY <1>4, <2>1 DEF Keeps, RecordsHanded, Present
  <2> QED BY <1>1, <2>1, <2>2
<1>5. ASSUME NEW k \in Token, k.seq = latest[k.lin] + 1, latest'[k.lin] = k.seq PROVE IssuedBy(latest', k)
  BY <1>5, TokenFields DEF IssuedBy, Up!Issued
<1>6. ASSUME NEW k \in Token, Live(k) PROVE IssuedBy(latest', k)
  <2>1. IssuedBy(latest, k)
    BY <1>6 DEF IssuedBy, Live, Up!Live, Up!Issued
  <2> QED BY <2>1, IssuedKept, UpstreamGrows
<1> QED BY <1>2, <1>3, <1>4, <1>5, <1>6, StoreKinds

LEMMA IssuedStep ==
    ASSUME TypeOK, OffersLogin, TokensIssued, RecordsHanded, [Next]_vars
    PROVE  TokensIssued' /\ RecordsHanded'
<1>1. \A k \in Token : IssuedBy(latest, k) => IssuedBy(latest', k)
  BY UpstreamGrows, IssuedKept
<1>2. handed \subseteq handed' /\ RecordsHanded' /\ \A k \in handed' : IssuedBy(latest', k)
  BY HandedStep
<1>3. \A d \in Targets : local[d] # NoLocal => local[d].tok \in Token /\ IssuedBy(latest', local[d].tok)
  BY <1>1, LocalFields DEF TypeOK, TokensIssued
<1>4. ASSUME NEW d \in Targets, local'[d] # NoLocal PROVE IssuedBy(latest', local'[d].tok)
  <2>1. CASE local'[d] = local[d]
    BY <1>3, <1>4, <2>1
  <2>2. ASSUME NEW s \in Syncs, Written(s), local'[d] # local[d] PROVE IssuedBy(latest', local'[d].tok)
    <3>1. local'[d].tok = sync[s].env
      BY <2>2 DEF Written, TypeOK
    <3>2. sync[s].env \in handed
      BY <2>2 DEF Written, TokensIssued
    <3> QED BY <1>2, <3>1, <3>2
  <2>3. ASSUME NEW e \in Targets, NEW l \in Lineages, LoggedIn(e, l), local'[d] # local[d] PROVE IssuedBy(latest', local'[d].tok)
    <3>1. local'[d].tok = Tok(l, 1)
      BY <2>3 DEF LoggedIn, TypeOK
    <3>2. latest'[l] \in 1..MaxSeq
      BY UpstreamGrows DEF Older
    <3> QED BY <3>1, <3>2, TokensAssumption DEF Tok, IssuedBy
  <2>4. ASSUME NEW e \in Targets, Refreshed(e), local'[d] # local[d] PROVE IssuedBy(latest', local'[d].tok)
    <3> DEFINE l == local[e].tok.lin
               new == [local[e] EXCEPT !.tok = Tok(l, latest[l] + 1)]
    <3>1. local[e] \in Local
      BY <2>4 DEF Refreshed, HasRT, TypeOK
    <3>2. l \in Lineages
      BY <3>1, LocalFields, TokenFields
    <3>3. latest'[l] = latest[l] + 1
      BY <2>4, <3>2, MintType DEF Refreshed
    <3>4. new.tok = Tok(l, latest[l] + 1)
      BY <3>1 DEF Local
    <3>5. local'[d] = new
      BY <2>4 DEF Refreshed, TypeOK
    <3> HIDE DEF new
    <3>6. latest[l] + 1 \in Nat
      BY <3>2, NumberTypes
    <3> QED BY <3>3, <3>4, <3>5, <3>6 DEF Tok, IssuedBy
  <2> QED BY <2>1, <2>2, <2>3, <2>4, LocalShape DEF LocalStep
<1>5. ASSUME NEW s \in Syncs
      PROVE  /\ sync'[s].snap # NoLocal => IssuedBy(latest', sync'[s].snap.tok)
             /\ sync'[s].pc \in {"reread", "write"} => sync'[s].env \in handed'
  <2>1. CASE sync'[s] = sync[s]
    <3>1. sync[s].snap # NoLocal => sync[s].snap.tok \in Token /\ IssuedBy(latest', sync[s].snap.tok)
      BY <1>1, LocalFields, StateFields DEF TypeOK, TokensIssued
    <3> QED BY <1>2, <2>1, <3>1 DEF TokensIssued
  <2>2. CASE SyncStep(s)
    <3>1. Moves(s)
      BY <2>2, SyncMoves
    <3>2. sync[s].snap # NoLocal => sync[s].snap.tok \in Token /\ IssuedBy(latest', sync[s].snap.tok)
      BY <1>1, LocalFields, StateFields DEF TypeOK, TokensIssued
    <3>3. \/ sync'[s].snap = NoLocal
          \/ sync'[s].snap = sync[s].snap
      BY <3>1, MovesFields
    <3>4. sync'[s].pc \in {"reread", "write"} => sync'[s].env \in handed
      <4>1. CASE Served(s)
        <5>1. PICK c \in Creds : Present(cred, c) /\ Goto(s, [sync[s] EXCEPT !.pc = "reread", !.env = cred[c].tok])
          BY <4>1 DEF Served
        <5>2. cred[c].tok \in handed
          BY <5>1 DEF RecordsHanded
        <5>3. [sync[s] EXCEPT !.pc = "reread", !.env = cred[c].tok].env = cred[c].tok
          BY DEF TypeOK, SyncState
        <5> QED BY <5>1, <5>2, <5>3, GotoFields
      <4>2. CASE /\ sync[s].pc = "reread" /\ Goto(s, [sync[s] EXCEPT !.pc = "write"])
        <5>1. [sync[s] EXCEPT !.pc = "write"].env = sync[s].env
          BY DEF TypeOK, SyncState
        <5> QED BY <4>2, <5>1, GotoFields DEF TokensIssued
      <4>3. CASE Done(s) \/ Answered(s)
        BY <4>3, DoneFields, VerdictFields DEF Answered
      <4> QED BY <3>1, <4>1, <4>2, <4>3 DEF Moves
    <3> QED BY <1>2, <3>2, <3>3, <3>4
  <2>3. ASSUME NEW d \in Targets, ReadLocal(s, d)
        PROVE  /\ sync'[s].snap # NoLocal => IssuedBy(latest', sync'[s].snap.tok)
               /\ sync'[s].pc \in {"reread", "write"} => sync'[s].env \in handed'
    BY <1>3, <2>3, ReadFields
  <2>4. \A q \in Syncs \ {s} : SyncStep(q) \/ (\E d \in Targets : ReadLocal(q, d)) => sync'[s] = sync[s]
    BY SyncMoves, MovesFields, ReadFields
  <2> QED BY <2>1, <2>2, <2>3, <2>4, ProcShape DEF ProcStep
<1> QED BY <1>2, <1>4, <1>5 DEF TokensIssued

-----------------------------------------------------------------------------
(* What a sync overwrites is secured.                                      *)

\* The login that process s has read.
Holds(s) == sync[s].snap # NoLocal /\ sync[s].snap.rt

\* The verdict on that login is true and stays true; the gate let it pass; what
\* is about to be overwritten is what was read, or was overwritten already.
Taken == {"adopted", "already_current", "rollback"}

VerdictTrue(s) ==
    sync[s].pc \in {"get", "reread", "write"} /\ Holds(s) =>
        /\ sync[s].reason \in Taken => sync[s].snap.tok \in handed
        /\ sync[s].reason = "offer_not_live" => ~LiveBy(latest, age, sync[s].snap.tok)
GatePassed(s) ==
    sync[s].pc \in {"reread", "write"} /\ Holds(s) => sync[s].reason \in Taken \cup {"offer_not_live"}
WindowKept(s) ==
    sync[s].pc = "write" => local[sync[s].target] = sync[s].snap \/ ~HasRT(sync[s].target)

Secured == \A s \in Syncs : VerdictTrue(s) /\ GatePassed(s) /\ WindowKept(s)

NoWindow == WindowHit = FALSE
NoFluke == "fluke" \notin FaultKinds

LEMMA VerdictGiven ==
    ASSUME TypeOK, OffersLogin, RecordsHanded, NoFluke, NEW s \in Syncs,
           OfferRouted(s) \/ OfferNotLive(s) \/ OfferRetry(s)
    PROVE  \E why \in Reasons :
             /\ Verdict(s, why)
             /\ why \in Taken => Offered(s) \in handed'
             /\ why = "offer_not_live" => ~LiveBy(latest, age, Offered(s))
<1> DEFINE k == Offered(s)
           m == Managing(cred, Owner(k))
<1>1. k \in Token
  <2>1. sync[s].pc = "offer"
    BY DEF OfferRouted, OfferNotLive, OfferRetry
  <2> QED BY <2>1, LocalFields DEF OffersLogin, Offered
<1>2. CASE OfferRouted(s)
  <2>1. CASE Verdict(s, "unknown_account") \/ Verdict(s, "retry")
    BY <2>1 DEF Reasons, Taken
  <2>2. ASSUME NEW c \in m, InRing(k, cred[c]), Verdict(s, "rollback"), UNCHANGED <<cred, handed>>
        PROVE  Verdict(s, "rollback") /\ k \in handed'
    BY <2>2, ManagingProperty DEF InRing, RecordsHanded
  <2>3. ASSUME NEW c \in m, cred[c].tok = k, Verdict(s, "already_current"), UNCHANGED <<cred, handed>>
        PROVE  Verdict(s, "already_current") /\ k \in handed'
    BY <2>3, ManagingProperty DEF RecordsHanded
  <2>4. ASSUME NEW c \in m, Verdict(s, "adopted"), Commit(c, Replace(cred[c], k))
        PROVE  Verdict(s, "adopted") /\ k \in handed'
    <3>1. c \in Creds /\ cred[c] \in Record
      BY ManagingProperty, PresentType
    <3>2. Replace(cred[c], k).tok = k
      BY <1>1, <3>1, ReplaceFields
    <3> QED BY <2>4, <3>2 DEF Commit
  <2> QED BY <1>2, <2>1, <2>2, <2>3, <2>4 DEF OfferRouted, Reasons, Taken
<1>3. CASE OfferNotLive(s)
  BY <1>1, <1>3, LiveMeans DEF OfferNotLive, NoFluke, Up!Fault, Reasons, Taken
<1>4. CASE OfferRetry(s)
  BY <1>4 DEF OfferRetry, Reasons, Taken
<1> QED BY <1>2, <1>3, <1>4

LEMMA VerdictStep ==
    ASSUME TypeOK, OffersLogin, TokensIssued, RecordsHanded, NoFluke, [Next]_vars, NEW s \in Syncs, VerdictTrue(s)
    PROVE  VerdictTrue(s)'
<1>1. handed \subseteq handed'
  BY HandedStep
<1>2. Holds(s) => /\ sync[s].snap.tok \in Token /\ IssuedBy(latest, sync[s].snap.tok)
  BY StateFields, LocalFields DEF TypeOK, TokensIssued, Holds
<1>3. Holds(s) /\ ~LiveBy(latest, age, sync[s].snap.tok) => ~LiveBy(latest', age', sync[s].snap.tok)
  BY <1>2, UpstreamGrows, GoneStays
<1>4. ASSUME sync'[s].snap = sync[s].snap, sync'[s].reason = sync[s].reason,
             sync[s].pc \in {"get", "reread", "write"}
      PROVE  VerdictTrue(s)'
  BY <1>1, <1>3, <1>4 DEF VerdictTrue, Holds
<1>5. CASE sync'[s] = sync[s]
  <2>1. CASE sync[s].pc \in {"get", "reread", "write"}
    BY <1>4, <1>5, <2>1
  <2>2. CASE sync[s].pc \notin {"get", "reread", "write"}
    BY <1>5, <2>2 DEF VerdictTrue
  <2> QED BY <2>1, <2>2
<1>6. CASE OfferRouted(s) \/ OfferNotLive(s) \/ OfferRetry(s)
  <2>1. PICK why \in Reasons :
             /\ Verdict(s, why)
             /\ why \in Taken => Offered(s) \in handed'
             /\ why = "offer_not_live" => ~LiveBy(latest, age, Offered(s))
    BY <1>6, VerdictGiven
  <2>2. sync'[s].snap = sync[s].snap /\ sync'[s].reason = why
    BY <2>1, VerdictFields
  <2> QED BY <1>3, <2>1, <2>2 DEF VerdictTrue, Holds, Offered
<1>7. CASE SyncStep(s)
  <2>1. Moves(s)
    BY <1>7, SyncMoves
  <2>2. CASE sync'[s].pc = "idle"
    BY <2>2 DEF VerdictTrue
  <2>3. CASE /\ sync'[s].snap = sync[s].snap /\ sync'[s].reason = sync[s].reason
             /\ sync[s].pc \in {"get", "reread"}
    BY <1>4, <2>3
  <2>4. CASE sync'[s].pc = "get" /\ sync[s].pc = "offer"
    <3>1. OfferRouted(s) \/ OfferNotLive(s) \/ OfferRetry(s)
      BY <1>7, <2>4 DEF SyncStep, GetCred, Reread, WriteTarget
    <3> QED BY <1>6, <3>1
  <2> QED BY <2>1, <2>2, <2>3, <2>4, MovesFields DEF Served
<1>8. ASSUME NEW d \in Targets, ReadLocal(s, d) PROVE VerdictTrue(s)'
  BY <1>8, ReadFields DEF VerdictTrue, Holds, HasRT
<1>9. \A q \in Syncs \ {s} : SyncStep(q) \/ (\E d \in Targets : ReadLocal(q, d)) => sync'[s] = sync[s]
  BY SyncMoves, MovesFields, ReadFields
<1> QED BY <1>5, <1>7, <1>8, <1>9, ProcShape DEF ProcStep

LEMMA GateStep ==
    ASSUME TypeOK, [Next]_vars, NEW s \in Syncs, GatePassed(s)
    PROVE  GatePassed(s)'
<1>1. CASE sync'[s] = sync[s]
  BY <1>1 DEF GatePassed, Holds
<1>2. CASE SyncStep(s)
  <2>1. Moves(s)
    BY <1>2, SyncMoves
  <2>2. CASE Served(s) /\ sync'[s].snap = sync[s].snap /\ sync'[s].reason = sync[s].reason
    BY <2>2 DEF Served, OverwriteDecision, GatePassed, Holds, Taken
  <2>3. CASE /\ sync'[s].snap = sync[s].snap /\ sync'[s].reason = sync[s].reason
             /\ sync[s].pc = "reread"
    BY <2>3 DEF GatePassed, Holds
  <2>4. CASE sync'[s].pc \in {"idle", "get"}
    BY <2>4 DEF GatePassed
  <2> QED BY <2>1, <2>2, <2>3, <2>4, MovesFields
<1>3. ASSUME NEW d \in Targets, ReadLocal(s, d) PROVE GatePassed(s)'
  BY <1>3, ReadFields DEF GatePassed
<1>4. \A q \in Syncs \ {s} : SyncStep(q) \/ (\E d \in Targets : ReadLocal(q, d)) => sync'[s] = sync[s]
  BY SyncMoves, MovesFields, ReadFields
<1> QED BY <1>1, <1>2, <1>3, <1>4, ProcShape DEF ProcStep

\* Nobody logs in or refreshes between the re-read and the rename; another
\* process that renames leaves no refresh token.
LEMMA WindowStep ==
    ASSUME TypeOK, [Next]_vars, NoWindow, NEW s \in Syncs, WindowKept(s)
    PROVE  WindowKept(s)'
<1> DEFINE d == sync[s].target
<1>1. SUFFICES ASSUME sync'[s].pc = "write"
               PROVE  \/ local'[sync'[s].target] = sync'[s].snap
                      \/ ~(local'[sync'[s].target] # NoLocal /\ local'[sync'[s].target].rt)
  BY DEF WindowKept, HasRT
<1>2. /\ sync'[s].target = d /\ sync'[s].snap = sync[s].snap
      /\ d \in Targets
      /\ local[d] = sync[s].snap \/ ~HasRT(d)
      /\ (sync'[s] = sync[s] /\ sync[s].pc = "write") \/ sync[s].pc = "reread"
  <2>1. d \in Targets
    BY StateFields DEF TypeOK
  <2>2. CASE sync'[s] = sync[s]
    BY <1>1, <2>1, <2>2 DEF WindowKept
  <2>3. CASE SyncStep(s)
    BY <1>1, <2>1, <2>3, SyncMoves, MovesFields
  <2>4. ASSUME NEW e \in Targets, ReadLocal(s, e) PROVE FALSE
    BY <1>1, <2>4, ReadFields
  <2>5. \A q \in Syncs \ {s} : SyncStep(q) \/ (\E e \in Targets : ReadLocal(q, e)) => sync'[s] = sync[s]
    BY SyncMoves, MovesFields, ReadFields
  <2> QED BY <2>2, <2>3, <2>4, <2>5, ProcShape DEF ProcStep
<1>3. CASE UNCHANGED local
  BY <1>2, <1>3 DEF HasRT
<1>4. ASSUME NEW q \in Syncs, Written(q), Done(q)
      PROVE  local'[d] = local[d] \/ (local'[d] # NoLocal => ~local'[d].rt)
  BY <1>2, <1>4 DEF Written, TypeOK
<1>5. ASSUME NEW e \in Targets, InWindow(e) => WindowHit, UNCHANGED sync,
             Refreshed(e) \/ \E l \in Lineages : LoggedIn(e, l)
      PROVE  local'[d] = local[d]
  <2>1. InWindow(d)
    BY <1>1, <1>2, <1>5 DEF InWindow
  <2>2. e # d
    BY <1>5, <2>1 DEF NoWindow
  <2> QED BY <1>2, <1>5, <2>2 DEF Refreshed, LoggedIn, TypeOK
<1> QED BY <1>2, <1>3, <1>4, <1>5, LocalShape DEF LocalStep, HasRT

LEMMA SecuredStep ==
    ASSUME TypeOK, OffersLogin, TokensIssued, RecordsHanded, NoFluke, NoWindow, Secured, [Next]_vars
    PROVE  Secured'
  BY VerdictStep, GateStep, WindowStep DEF Secured

LEMMA SecuredWrites ==
    ASSUME TypeOK, Secured, [Next]_vars, NEW d \in Targets, HasRT(d), Overwritten(d)
    PROVE  local[d].tok \in handed \/ ~Live(local[d].tok)
<1>1. local[d] \in Local /\ local[d].rt /\ local'[d] # local[d] /\ ~local'[d].rt
  BY DEF HasRT, Overwritten, TypeOK
<1>2. ASSUME NEW s \in Syncs, Written(s) PROVE local[d].tok \in handed \/ ~Live(local[d].tok)
  <2>1. sync[s].target = d /\ sync[s].pc = "write"
    BY <1>1, <1>2 DEF Written, TypeOK
  <2>2. local[d] = sync[s].snap
    BY <2>1 DEF Secured, WindowKept
  <2>3. Holds(s)
    BY <1>1, <2>2, LocalFields DEF Holds
  <2>4. local[d].tok \in Token
    BY <1>1, LocalFields
  <2> QED BY <2>1, <2>2, <2>3, <2>4, LiveMeans DEF Secured, VerdictTrue, GatePassed
<1>3. ASSUME NEW e \in Targets, NEW l \in Lineages, LoggedIn(e, l) PROVE FALSE
  BY <1>1, <1>3 DEF LoggedIn, TypeOK
<1>4. ASSUME NEW e \in Targets, Refreshed(e) PROVE FALSE
  <2> DEFINE new == [local[e] EXCEPT !.tok = Tok(local[e].tok.lin, latest[local[e].tok.lin] + 1)]
  <2>1. local[e] \in Local /\ local[e].rt
    BY <1>4 DEF Refreshed, HasRT, TypeOK
  <2>2. new.rt
    BY <2>1 DEF Local
  <2>3. local'[d] = local[d] \/ local'[d] = new
    BY <1>4 DEF Refreshed, TypeOK
  <2> HIDE DEF new
  <2> QED BY <1>1, <2>2, <2>3
<1> QED BY <1>1, <1>2, <1>3, <1>4, LocalShape DEF LocalStep

LEMMA HandedInit == ASSUME Init, TypeOK PROVE TokensIssued /\ RecordsHanded /\ Secured
<1>1. Idle.pc = "idle" /\ Idle.snap = NoLocal
  BY DEF Idle
<1>2. \A s \in Syncs : sync[s].pc = "idle" /\ sync[s].snap = NoLocal
  BY <1>1 DEF Init
<1>3. ASSUME NEW c \in Creds, Present(cred, c)
      PROVE  cred[c].tok \in handed /\ cred[c].tok.seq = 1 /\ cred[c].tok \in Token /\ cred[c].ring = <<>>
  <2>1. PICK l \in Lineages : cred[c] = Fresh(Tok(l, 1))
    BY <1>3 DEF Init, Present
  <2>2. cred[c].tok = Tok(l, 1) /\ cred[c].ring = <<>>
    BY <2>1 DEF Fresh
  <2> QED BY <1>3, <2>2, PresentType DEF Init, Record, Tok
<1>4. \A k \in handed : IssuedBy(latest, k)
  <2> SUFFICES ASSUME NEW c \in Creds, Present(cred, c) PROVE IssuedBy(latest, cred[c].tok)
    BY DEF Init
  <2>1. cred[c].tok.lin \in Lineages /\ cred[c].tok.seq = 1
    BY <1>3, TokenFields
  <2> QED BY <2>1 DEF Init, IssuedBy
<1>5. \A d \in Targets : local[d] # NoLocal => local[d].tok \in handed
  BY DEF Init
<1> QED BY <1>2, <1>3, <1>4, <1>5 DEF TokensIssued, RecordsHanded, Secured, VerdictTrue, GatePassed, WindowKept

\* While no login lands between a re-read and its rename and no access token
\* is refused by mistake, a sync destroys a refresh token only when the broker
\* got that very token before, or when its access token is no longer accepted:
\* for any number of processes, targets, accounts and logins, lost answers,
\* failing requests and refreshes by Claude Code.
THEOREM LoginsKept ==
    ASSUME NoWindow, NoFluke
    PROVE  Spec => LoginsSecured
<1> DEFINE Inv == TypeOK /\ OffersLogin /\ TokensIssued /\ RecordsHanded /\ Secured
<1>1. Init => Inv
  BY TypesInit, HandedInit
<1>2. Inv /\ [Next]_vars => Inv'
  BY TypesStep, IssuedStep, SecuredStep
<1>3. Inv /\ [Next]_vars =>
        [\A d \in Targets : HasRT(d) /\ Overwritten(d)
            => (local[d].tok \in handed \/ ~Live(local[d].tok))]_vars
  BY SecuredWrites
<1> QED BY <1>1, <1>2, <1>3, PTL DEF Spec, LoginsSecured

-----------------------------------------------------------------------------
(* A replaced token is not adopted again.                                  *)

\* Every token the broker ever had belongs to the credential of its account,
\* which has it or retired it.
Remembers(r, k) == r.acct = Owner(k) /\ (r.tok = k \/ InRing(k, r))

Routed ==
    /\ UniqueAccounts(cred)
    /\ \A c \in Creds : Present(cred, c) => cred[c].acct = Owner(cred[c].tok)
    /\ \A k \in handed : \E c \in Creds : Present(cred, c) /\ Remembers(cred[c], k)

\* No ring has been filled.
Roomy == \A c \in Creds : Present(cred, c) => Len(cred[c].ring) < RingSize

LEMMA RoutedPuts ==
    ASSUME TypeOK, Routed, Roomy, NEW c \in Creds, NEW k \in Token, Present(cred, c), Puts(c, k), Owner(k) = cred[c].acct
    PROVE  Routed'
<1> DEFINE r == cred[c]
           new == Replace(r, k)
<1>1. r \in Record /\ Commit(c, new) /\ new \in Record
  BY ReplaceType DEF Puts
<1>2. new.tok = k /\ new.acct = Owner(k) /\ new.ring = RetireHash(r.ring, r.tok) /\ r.ring \in Ring /\ r.tok \in Token
  BY <1>1, ReplaceFields
<1> DEFINE out == RetireHash(r.ring, r.tok)
<1>3. /\ out[Len(out)] = r.tok /\ Len(out) \in 1..RingSize
      /\ \A i \in 1..Len(r.ring) : \E j \in 1..Len(out) : out[j] = r.ring[i]
  BY <1>2, RetireHashProperties DEF Roomy
<1>4. Len(out) \in 1..Len(out)
  BY <1>3, RecordsAssumption
<1> HIDE DEF new, out
<1>5. \A j : r.tok = j \/ InRing(j, r) => InRing(j, new)
  BY <1>2, <1>3, <1>4 DEF InRing, out
<1> USE DEF new
<1>6. /\ handed' = handed \cup {k} /\ cred'[c].tok = k /\ cred'[c].acct = Owner(k)
      /\ cred'[c].ring = new.ring /\ cred'[c] # NoRecord
      /\ \A e \in Creds \ {c} : cred'[e] = cred[e]
  BY <1>1, <1>2, CommitFields DEF Present
<1> HIDE DEF new
<1>7. cred'[c].acct = cred[c].acct
  BY <1>6
<1>8. DOMAIN cred = Creds /\ DOMAIN cred' = Creds
  BY <1>1 DEF TypeOK, Commit, new
<1>9. UniqueAccounts(cred')
  BY <1>6, <1>7, <1>8 DEF Routed, UniqueAccounts, Present
<1>10. \A e \in Creds : Present(cred', e) => cred'[e].acct = Owner(cred'[e].tok)
  BY <1>6 DEF Routed, Present
<1>11. ASSUME NEW j \in handed' PROVE \E e \in Creds : Present(cred', e) /\ Remembers(cred'[e], j)
  <2>1. CASE j = k
    BY <1>6, <2>1 DEF Remembers, Present
  <2>2. CASE j # k
    <3>1. PICK e \in Creds : Present(cred, e) /\ Remembers(cred[e], j)
      BY <1>6, <1>11, <2>2 DEF Routed
    <3>2. CASE e = c
      <4>1. InRing(j, new) /\ cred'[c].acct = Owner(j)
        BY <1>5, <1>7, <3>1, <3>2 DEF Remembers
      <4>2. InRing(j, cred'[c])
        BY <1>6, <4>1 DEF InRing
      <4> QED BY <1>6, <4>1, <4>2 DEF Remembers, Present
    <3>3. CASE e # c
      BY <1>6, <3>1, <3>3 DEF Remembers, Present
    <3> QED BY <3>2, <3>3
  <2> QED BY <2>1, <2>2
<1> QED BY <1>9, <1>10, <1>11 DEF Routed

LEMMA RoutedStep == ASSUME TypeOK, OffersLogin, RecordsHanded, Routed, Roomy, [Next]_vars PROVE Routed'
<1>1. CASE UNCHANGED <<cred, handed>>
  BY <1>1 DEF Routed, Present, UniqueAccounts
<1>2. ASSUME NEW c \in Creds, NEW k \in Token, Puts(c, k), Present(cred, c), k.lin = cred[c].tok.lin PROVE Routed'
  BY <1>2, RoutedPuts DEF Routed, Owner
<1>3. ASSUME NEW c \in Creds, Keeps(c) PROVE Routed'
  <2>1. handed' = handed
    BY <1>3 DEF Keeps, RecordsHanded
  <2>2. DOMAIN cred = Creds /\ DOMAIN cred' = Creds
    BY StoreTypes DEF TypeOK
  <2>3. \A e \in Creds : /\ Present(cred', e) <=> Present(cred, e)
                         /\ cred'[e].acct = cred[e].acct /\ cred'[e].tok = cred[e].tok /\ cred'[e].ring = cred[e].ring
    BY <1>3 DEF Keeps, Present
  <2>4. UniqueAccounts(cred')
    BY <2>2, <2>3 DEF Routed, UniqueAccounts
  <2>5. \A e \in Creds, k \in handed : Remembers(cred[e], k) => Remembers(cred'[e], k)
    BY <2>3 DEF Remembers, InRing
  <2> QED BY <2>1, <2>3, <2>4, <2>5 DEF Routed
<1> QED BY <1>1, <1>2, <1>3, StoreKinds, RoutedPuts

LEMMA NewlyAdopted ==
    ASSUME TypeOK, OffersLogin, TokensIssued, Routed, [Next]_vars,
           NEW c \in Creds, Present(cred, c), cred'[c].tok # cred[c].tok
    PROVE  cred'[c].tok \notin handed
<1>1. CASE UNCHANGED <<cred, handed>>
  BY <1>1
<1>2. ASSUME NEW e \in Creds, Keeps(e) PROVE FALSE
  BY <1>2 DEF Keeps
<1>3. ASSUME NEW e \in Creds, NEW k \in Token, Puts(e, k) PROVE e = c /\ cred'[c].tok = k
  <2>1. Replace(cred[e], k) \in Record /\ Replace(cred[e], k).tok = k
    BY <1>3, ReplaceType, ReplaceFields DEF Puts
  <2> QED BY <1>3, <2>1, CommitFields DEF Puts
<1>4. ASSUME NEW k \in Token, k.seq = latest[k.lin] + 1 PROVE k \notin handed
  <2>1. latest[k.lin] \in Nat
    BY TokenFields, NumberTypes
  <2> QED BY <1>4, <2>1 DEF TokensIssued, IssuedBy
<1>5. ASSUME NEW k \in Token, Owner(k) = cred[c].acct, k # cred[c].tok, ~InRing(k, cred[c]) PROVE k \notin handed
  <2> SUFFICES ASSUME k \in handed PROVE FALSE
    OBVIOUS
  <2>1. PICK e \in Creds : Present(cred, e) /\ Remembers(cred[e], k)
    BY DEF Routed
  <2>2. e = c
    BY <1>5, <2>1 DEF Remembers, Routed, UniqueAccounts, TypeOK
  <2> QED BY <1>5, <2>1, <2>2 DEF Remembers
<1> QED BY <1>1, <1>2, <1>3, <1>4, <1>5, StoreKinds

LEMMA RoutedInit == ASSUME Init, TypeOK PROVE Routed
<1>1. ASSUME NEW c \in Creds, Present(cred, c) PROVE cred[c].acct = Owner(cred[c].tok)
  <2>1. PICK l \in Lineages : cred[c] = Fresh(Tok(l, 1))
    BY <1>1 DEF Init, Present
  <2> QED BY <2>1 DEF Fresh
<1>2. UniqueAccounts(cred) /\ handed = {cred[c].tok : c \in {x \in Creds : Present(cred, x)}}
  BY DEF Init
<1> QED BY <1>1, <1>2 DEF Routed, Remembers

\* However often hosts with logins of one account sync, a token the broker has
\* replaced is never adopted a second time, until RingSize replacements have
\* filled a ring.
THEOREM AdoptedNew == Spec /\ []Roomy => AdoptedOnce
<1> DEFINE Inv == TypeOK /\ OffersLogin /\ TokensIssued /\ RecordsHanded /\ Routed
<1>1. Init => Inv
  BY TypesInit, HandedInit, RoutedInit
<1>2. Inv /\ Roomy /\ [Next]_vars => Inv'
  BY TypesStep, IssuedStep, RoutedStep
<1>3. Inv /\ [Next]_vars =>
        [\A c \in Creds : Present(cred, c) /\ cred'[c].tok # cred[c].tok => cred'[c].tok \notin handed]_vars
  BY NewlyAdopted
<1> QED BY <1>1, <1>2, <1>3, PTL DEF Spec, AdoptedOnce

-----------------------------------------------------------------------------
(* The broker of Sync keeps the promises of CredSpec, which speaks of      *)
(* records by the operators of Records.                                    *)

LEMMA SameWithout == ASSUME NEW ring, NEW k PROVE Lifecycles!Without(ring, k) = Without(ring, k)
  BY DEF Lifecycles!Without, Without

LEMMA SameRetire == ASSUME NEW ring, NEW k PROVE Lifecycles!RetireHash(ring, k) = RetireHash(ring, k)
  BY SameWithout DEF Lifecycles!RetireHash, RetireHash

LEMMA SameReplace == ASSUME NEW r, NEW k PROVE Lifecycles!Replace(r, k) = Replace(r, k)
  BY SameRetire DEF Lifecycles!Replace, Replace, Lifecycles!Owner, Owner

LEMMA SameHelpers ==
    /\ Lifecycles!Token = Token /\ Lifecycles!Record = Record /\ Lifecycles!Health = Health
    /\ \A l, i : Lifecycles!Tok(l, i) = Tok(l, i)
    /\ \A k : Lifecycles!Owner(k) = Owner(k)
    /\ \A k, r : Lifecycles!InRing(k, r) <=> InRing(k, r)
    /\ \A s, c : Lifecycles!Present(s, c) <=> Present(s, c)
    /\ \A s : Lifecycles!UniqueAccounts(s) <=> UniqueAccounts(s)
  BY DEF Lifecycles!Token, Token, Lifecycles!Record, Record, Lifecycles!Health, Health, Lifecycles!Ring, Ring,
         Lifecycles!Tok, Tok, Lifecycles!Owner, Owner, Lifecycles!InRing, InRing,
         Lifecycles!Present, Present, Lifecycles!UniqueAccounts, UniqueAccounts

LEMMA CommitBecomes ==
    ASSUME TypeOK, NEW c \in Creds, Present(cred, c), NEW r \in Record, r.gen = cred[c].gen, Commit(c, r)
    PROVE  Lifecycles!Becomes(c, r) /\ cred'[c] # cred[c]
<1>1. /\ cred'[c].gen = r.gen + 1 /\ Present(cred', c)
      /\ cred' = [cred EXCEPT ![c] = [r EXCEPT !.gen = r.gen + 1]]
  BY CommitFields DEF Commit, LaterGen
<1>2. r.gen \in Nat
  BY DEF Record
<1>3. [r EXCEPT !.gen = r.gen + 1] = [r EXCEPT !.gen = cred'[c].gen]
  BY <1>1
<1>4. cred' = [cred EXCEPT ![c] = [r EXCEPT !.gen = cred'[c].gen]]
  BY <1>1, <1>3, Zenon
<1>5. cred'[c].gen \in Nat /\ cred'[c].gen > cred[c].gen
  BY <1>1, <1>2
<1>6. Lifecycles!Present(cred', c)
  BY <1>1 DEF Lifecycles!Present, Present
<1>7. Lifecycles!Becomes(c, r)
  BY <1>4, <1>5, <1>6, Zenon DEF Lifecycles!Becomes
<1>8. cred'[c].gen # cred[c].gen
  BY <1>2, <1>5
<1>9. cred'[c] # cred[c]
  BY <1>8
<1> QED BY <1>7, <1>9

LEMMA LifecycleStep ==
    ASSUME TypeOK, OffersLogin, TokensIssued, RecordsHanded, [Next]_vars
    PROVE  Lifecycles!Next \/ UNCHANGED cred
<1>1. ASSUME NEW c \in Creds, Minted(c) PROVE Lifecycles!Next
  <2>1. PICK k \in Token :
           /\ k.lin = cred[c].tok.lin /\ k.seq = latest[k.lin] + 1
           /\ cred[c] \in Record /\ Commit(c, Replace(cred[c], k))
    BY <1>1, MintedFields
  <2>2. Replace(cred[c], k) \in Record /\ Replace(cred[c], k).gen = cred[c].gen
    BY <2>1, ReplaceType, ReplaceFields
  <2>3. Present(cred, c)
    BY <1>1 DEF Minted
  <2>4. k.seq \in cred[c].tok.seq + 1 .. MaxSeq /\ k = Tok(cred[c].tok.lin, k.seq)
    <3>1. cred[c].tok \in Token /\ IssuedBy(latest, cred[c].tok)
      BY <2>1, <2>3 DEF Record, TokensIssued, RecordsHanded
    <3>2. cred[c].tok.seq \in Nat /\ latest[k.lin] \in Nat /\ cred[c].tok.seq <= latest[k.lin]
      BY <2>1, <3>1, TokenFields, NumberTypes DEF IssuedBy
    <3> QED BY <2>1, <3>2, TokenFields, TokensAssumption
  <2>5. Lifecycles!Becomes(c, Replace(cred[c], k)) /\ cred'[c] # cred[c]
    BY <2>1, <2>2, <2>3, CommitBecomes
  <2>6. Lifecycles!Rotate(c)
    BY <2>3, <2>4, <2>5, SameHelpers, SameReplace DEF Lifecycles!Rotate
  <2> QED BY <2>5, <2>6 DEF Lifecycles!Next
<1>2. ASSUME NEW c \in Creds, NEW k \in Token, Adopted(c, k) PROVE Lifecycles!Next
  <2>1. Present(cred, c) /\ cred[c] \in Record
    BY <1>2, PresentType DEF Adopted
  <2>2. Replace(cred[c], k) \in Record /\ Replace(cred[c], k).gen = cred[c].gen
    BY <2>1, ReplaceType, ReplaceFields
  <2>3. Lifecycles!Becomes(c, Replace(cred[c], k)) /\ cred'[c] # cred[c]
    BY <1>2, <2>1, <2>2, CommitBecomes DEF Adopted
  <2>4. Lifecycles!Adopt(c)
    BY <1>2, <2>1, <2>3, SameHelpers, SameReplace DEF Lifecycles!Adopt, Adopted
  <2> QED BY <2>3, <2>4 DEF Lifecycles!Next
<1>3. ASSUME NEW c \in Creds, NEW h \in Health, Marked(c, h) PROVE Lifecycles!Next
  <2>1. Present(cred, c) /\ cred[c] \in Record
    BY <1>3, PresentType DEF Marked
  <2>2. [cred[c] EXCEPT !.health = h] \in Record /\ [cred[c] EXCEPT !.health = h].gen = cred[c].gen
    BY <2>1, MarkType DEF Record
  <2>3. Lifecycles!Becomes(c, [cred[c] EXCEPT !.health = h]) /\ cred'[c] # cred[c]
    BY <1>3, <2>1, <2>2, CommitBecomes DEF Marked
  <2>4. Lifecycles!Mark(c, h)
    BY <1>3, <2>1, <2>3, SameHelpers DEF Lifecycles!Mark, Marked, Marks, Lifecycles!LegalHealth
  <2> QED BY <2>3, <2>4, SameHelpers DEF Lifecycles!Next
<1> QED BY <1>1, <1>2, <1>3, StoreShape DEF StoreStep

\* The broker of Sync changes its records as CredSpec allows, without imports:
\* the two levels agree on what a client sees of the broker.
THEOREM Refinement == Spec => KeepsPromises
<1> DEFINE Inv == TypeOK /\ OffersLogin /\ TokensIssued /\ RecordsHanded
<1>1. Init => Inv
  BY TypesInit, HandedInit
<1>2. Inv /\ [Next]_vars => Inv'
  BY TypesStep, IssuedStep
<1>3. Init => Lifecycles!Init
  BY TypesInit, SameHelpers DEF Init, TypeOK, Lifecycles!Init
<1>4. Inv /\ [Next]_vars => [Lifecycles!Next]_cred
  BY LifecycleStep
<1> QED BY <1>1, <1>2, <1>3, <1>4, PTL DEF Spec, KeepsPromises, Lifecycles!Spec
=============================================================================
