------------------------------ MODULE MCBroker ------------------------------
(* Small instances of Broker for TLC.                                       *)
EXTENDS Broker, TLC

CONSTANTS c1, c2, t1, t2, t3, l1, l2, a1, a2

\* One account with two logins, and two accounts with one login each.
SameAccount == [l \in Lineages |-> a1]
TwoAccounts == [l \in Lineages |-> IF l = l1 THEN a1 ELSE a2]

\* Who runs what.
Serving == (t1 :> {"loop", "probeget"}) @@ (t2 :> {"poll", "get"})
Crashing == (t1 :> {"get"}) @@ (t2 :> {"offer", "delete", "crash"})
Administered == (t1 :> {"import", "poll"}) @@ (t2 :> {"offer"}) @@ (t3 :> {"adminrefresh"})
TwoAdmins == (t1 :> {"import"}) @@ (t2 :> {"import"})
OneOffering == (t1 :> {"offer"})
=============================================================================
