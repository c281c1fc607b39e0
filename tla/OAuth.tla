------------------------------- MODULE OAuth -------------------------------
(***************************************************************************)
(* The upstream authorization server.  It is not part of the repository:   *)
(* this module is what internal/anthropic and the fakes of the server      *)
(* tests assume of it.                                                     *)
(*                                                                         *)
(* Exercising a refresh token mints the next pair of its lineage and       *)
(* revokes the previous access token; with Rotating the previous refresh   *)
(* token dies too, otherwise the lineage keeps one refresh token for good. *)
(***************************************************************************)
EXTENDS Tokens

CONSTANTS
    Rotating,           \* does a refresh invalidate the refresh token used?
    MaxAge,             \* bound: how far a token ages (0 never, 1 due, 2 expired)
    ExternalRefreshes,  \* may another holder of a refresh token use it?
    FaultKinds,         \* faults that happen in a run
    MaxFaults           \* bound: how many of them

ASSUME OAuthAssumption ==
    /\ Rotating \in BOOLEAN /\ ExternalRefreshes \in BOOLEAN
    /\ MaxAge \in 0..2 /\ MaxFaults \in Nat

VARIABLES
    latest,     \* latest[l]: the newest pair minted in lineage l
    age,        \* age[l][i]: 0 fresh, 1 inside the refresh skew, 2 expired
    held,       \* tokens some client holds WITH the refresh token
    faults      \* faults spent so far

oauthVars == <<latest, age, held, faults>>

Issued(t) == t.seq <= latest[t.lin]
Unexpired(t) == age[t.lin][t.seq] < 2
NeedsRefresh(t) == age[t.lin][t.seq] >= 1
Superseded(t) == t.seq < latest[t.lin]

\* The access token is accepted; the refresh token is accepted.
Live(t) == Issued(t) /\ ~Superseded(t) /\ Unexpired(t)
CanRefresh(t) == Issued(t) /\ (Rotating => ~Superseded(t))

OAuthTypeOK ==
    /\ latest \in [Lineages -> 1..MaxSeq]
    /\ age \in [Lineages -> [1..MaxSeq -> 0..2]]
    /\ held \in SUBSET Token
    /\ faults \in Nat

OAuthInit ==
    /\ latest = [l \in Lineages |-> 1]
    /\ age = [l \in Lineages |-> [i \in 1..MaxSeq |-> 0]]
    /\ held = {Tok(l, 1) : l \in Lineages}
    /\ faults = 0

\* Spend one fault of kind k.
Fault(k) == k \in FaultKinds /\ faults < MaxFaults /\ faults' = faults + 1

Mint(l) == latest[l] < MaxSeq /\ latest' = [latest EXCEPT ![l] = @ + 1]

\* The answer of the profile endpoint for the access token of t: "ok" (200),
\* "auth" (401, or 403 "revoked") or "down" (429, 5xx, no response).
ProfileAnswer(t, a) ==
    \/ a = (IF Live(t) THEN "ok" ELSE "auth") /\ UNCHANGED faults
    \/ a = "auth" /\ Live(t) /\ Fault("fluke")
    \/ a = "down" /\ Fault("down")

\* The outcome of one use of the refresh token of t.  "lost": the server
\* minted the next pair but the caller never got the answer (a dropped
\* connection, a timeout, a request whose client went away).  A lineage at the
\* bound MaxSeq only gets transient failures.
RefreshAnswer(t, a) ==
    \/ a = "ok" /\ CanRefresh(t) /\ Mint(t.lin) /\ UNCHANGED faults
    \/ a = "permanent" /\ ~CanRefresh(t) /\ UNCHANGED <<latest, faults>>
    \/ a = "permanent" /\ Fault("flukegrant") /\ UNCHANGED latest
    \/ a = "transient" /\ Fault("down") /\ UNCHANGED latest
    \/ a = "transient" /\ CanRefresh(t) /\ latest[t.lin] = MaxSeq /\ UNCHANGED <<latest, faults>>
    \/ a = "transient" /\ CanRefresh(t) /\ Mint(t.lin) /\ Fault("lost")

\* Another holder of the refresh token (a Claude Code whose login was never
\* handed over) uses it.
ExternalRefresh(l) ==
    /\ ExternalRefreshes
    /\ \E t \in held : t.lin = l /\ CanRefresh(t)
    /\ Mint(l)
    /\ held' = held \cup {Tok(l, latest[l] + 1)}
    /\ UNCHANGED <<age, faults>>

\* Time passes for one token; an older pair of a lineage is never younger
\* than a newer one, and the last pair of the bound stays fresh.
Age(l, i) ==
    /\ i <= latest[l] /\ i < MaxSeq
    /\ age[l][i] < MaxAge
    /\ i > 1 => age[l][i - 1] > age[l][i]
    /\ age' = [age EXCEPT ![l][i] = @ + 1]
    /\ UNCHANGED <<latest, held, faults>>

OAuthNext == \E l \in Lineages : ExternalRefresh(l) \/ \E i \in 1..MaxSeq : Age(l, i)
=============================================================================
