------------------------- MODULE MCVideoRenderer -------------------------
(* Two sizes of the same width and a third one, also turned.                *)
EXTENDS VideoRenderer

CONSTANTS camera, decoder

MCThreads == {camera, decoder}
OneThread == {camera}
MCSizes == {<<4, 3>>, <<4, 2>>, <<6, 4>>}
MCRotations == {0, 90, 180}
==========================================================================
