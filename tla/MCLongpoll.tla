----------------------------- MODULE MCLongpoll -----------------------------
(* Small instances of Longpoll for TLC.                                     *)
EXTENDS Longpoll, TLC
CONSTANTS p1, p2
=============================================================================
