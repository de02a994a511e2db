--------------------------- MODULE MCVideoChat ---------------------------
(* Two user names (so that one of them can be the user's own), three ids    *)
(* (the user's, and two registrations that may share a name).               *)
EXTENDS VideoChat

CONSTANTS me, bob

MCNames == {me, bob}
MCIds == 1 .. 3
==========================================================================
