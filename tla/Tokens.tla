------------------------------- MODULE Tokens -------------------------------
(***************************************************************************)
(* OAuth tokens.  A login starts a LINEAGE of token pairs; its i-th pair,  *)
(* one access and one refresh token, is the token [lin |-> l, seq |-> i].  *)
(* The broker compares access tokens by their sha256, so a token also      *)
(* stands for its hash.                                                    *)
(***************************************************************************)
EXTENDS Integers

CONSTANTS
    Lineages,   \* logins that exist, each of one account
    Accounts,   \* account identities (uuid and email together)
    AccountOf,  \* the account of a lineage
    MaxSeq      \* bound: pairs minted per lineage

ASSUME TokensAssumption ==
    /\ Lineages # {} /\ Accounts # {}
    /\ AccountOf \in [Lineages -> Accounts]
    /\ MaxSeq \in Nat \ {0}

Token == [lin : Lineages, seq : 1..MaxSeq]
Tok(l, i) == [lin |-> l, seq |-> i]
Owner(t) == AccountOf[t.lin]
=============================================================================
