------------------------------ MODULE MCApp ------------------------------
(* The smallest dialog in which everything of VideoChat still happens: the  *)
(* user and one other name, an id for each, listings of one line.           *)
EXTENDS App

CONSTANTS me, bob

MCNames == {me, bob}
MCIds == 1 .. 2
==========================================================================
