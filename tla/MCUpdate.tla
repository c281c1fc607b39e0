------------------------------ MODULE MCUpdate ------------------------------
(* Small instances of Update for TLC.                                       *)
EXTENDS Update

CONSTANTS h1, h2, v1, v2, w1, w2, w3, cron

\* Every session runs the same plugin.
OnePlugin == [h \in Hooks |-> v2]
=============================================================================
