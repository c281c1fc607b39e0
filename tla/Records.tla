------------------------------ MODULE Records ------------------------------
(***************************************************************************)
(* Credential records (creds.Record) and the pure helpers that build a new *)
(* record from an old one.  Records are immutable: a change is a new one.  *)
(***************************************************************************)
EXTENDS Tokens, Sequences

CONSTANTS RingSize, \* retiredRing, the length of the anti-rollback ring (8)
          NoRecord  \* what the store holds for an unknown name

Health == {"ok", "suspect", "dead"}

\* OAuth is the token; HealthSince, the age of the health state, is kept by
\* the store's user.
Ring == {ring \in Seq(Token) : Len(ring) <= RingSize}
Record == [tok : Token, acct : Accounts, gen : Nat, health : Health, ring : Ring]

ASSUME RecordsAssumption == RingSize \in Nat \ {0} /\ NoRecord \notin Record

Present(s, c) == s[c] # NoRecord

\* A record imported for the first time.
Fresh(t) == [tok |-> t, acct |-> Owner(t), gen |-> 1, health |-> "ok", ring |-> <<>>]

\* The ring without t, which occurs at most once in it.
Without(ring, t) ==
    IF \E i \in 1..Len(ring) : ring[i] = t
    THEN LET i == CHOOSE i \in 1..Len(ring) : ring[i] = t
         IN  SubSeq(ring, 1, i - 1) \o SubSeq(ring, i + 1, Len(ring))
    ELSE ring

\* The last RingSize retired tokens, without duplicates.
RetireHash(ring, t) ==
    LET out == Append(Without(ring, t), t)
    IN  IF Len(out) > RingSize THEN SubSeq(out, Len(out) - RingSize + 1, Len(out)) ELSE out

InRing(t, r) == \E i \in 1..Len(r.ring) : r.ring[i] = t

ReplaceUnretired(r, t) == [r EXCEPT !.tok = t, !.acct = Owner(t), !.health = "ok"]

\* Token t becomes the current one of record r: the replaced one is retired
\* and the record is healthy again.
Replace(r, t) ==
    [r EXCEPT !.tok = t, !.acct = Owner(t), !.health = "ok", !.ring = RetireHash(r.ring, r.tok)]

\* The names that manage account a in store s.
Managing(s, a) == {c \in DOMAIN s : Present(s, c) /\ s[c].acct = a}

UniqueAccounts(s) ==
    \A c, d \in DOMAIN s : Present(s, c) /\ Present(s, d) /\ s[c].acct = s[d].acct => c = d
=============================================================================
