------------------------------ MODULE CredSpec ------------------------------
(***************************************************************************)
(* What the broker promises about the records a reader of the store sees.  *)
(* Each change is one atomic step with a greater generation, and a token   *)
(* becomes current in one of three ways only: as the next pair of the      *)
(* lineage it replaces, by adopting a login of the same account that was   *)
(* not retired before, or by an admin's import.  A change of health keeps  *)
(* the token; a credential becomes suspect only from ok.                   *)
(***************************************************************************)
EXTENDS Records

CONSTANTS Creds, Imports    \* Imports: may an admin import?

VARIABLE cred               \* the record of each credential, or NoRecord

Init ==
    /\ cred \in [Creds -> Record \cup {NoRecord}]
    /\ UniqueAccounts(cred)

\* The record of c is replaced by one like r, of a later generation.
Becomes(c, r) ==
    /\ Present(cred', c)
    /\ cred' = [cred EXCEPT ![c] = [r EXCEPT !.gen = cred'[c].gen]]
    /\ cred'[c].gen \in Nat
    /\ Present(cred, c) => cred'[c].gen > cred[c].gen

Rotate(c) ==
    /\ Present(cred, c)
    /\ \E i \in cred[c].tok.seq + 1 .. MaxSeq : Becomes(c, Replace(cred[c], Tok(cred[c].tok.lin, i)))

Adopt(c) ==
    /\ Present(cred, c)
    /\ \E k \in Token :
        /\ Owner(k) = cred[c].acct
        /\ k # cred[c].tok /\ ~InRing(k, cred[c])
        /\ Becomes(c, Replace(cred[c], k))

LegalHealth == {<<"ok", "suspect">>, <<"ok", "dead">>, <<"suspect", "dead">>, <<"dead", "dead">>,
                <<"suspect", "ok">>, <<"dead", "ok">>}

Mark(c, h) ==
    /\ Present(cred, c)
    /\ <<cred[c].health, h>> \in LegalHealth
    /\ Becomes(c, [cred[c] EXCEPT !.health = h])

Import(c) ==
    /\ Imports
    /\ \E k \in Token : Becomes(c, IF Present(cred, c) THEN Replace(cred[c], k) ELSE Fresh(k))

Remove(c) ==
    /\ Imports
    /\ cred' = [cred EXCEPT ![c] = NoRecord]

Next ==
    \E c \in Creds :
        /\ cred'[c] # cred[c]
        /\ Rotate(c) \/ Adopt(c) \/ (\E h \in Health : Mark(c, h)) \/ Import(c) \/ Remove(c)

Spec == Init /\ [][Next]_cred
=============================================================================
