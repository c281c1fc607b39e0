------------------------------- MODULE MCSync -------------------------------
(* Small instances of Sync for TLC.                                         *)
EXTENDS Sync, TLC

CONSTANTS c1, c2, d1, d2, s1, s2, l1, l2, l3, a1, a2

\* One account with all the logins, and two accounts with l2 a login of a2.
OneAccount == [l \in Lineages |-> a1]
TwoAccounts == [l \in Lineages |-> IF l = l2 THEN a2 ELSE a1]

\* The ccb processes are alike.
Symmetry == Permutations(Syncs)
=============================================================================
