------------------------ MODULE MCCapturePipeline ------------------------
(* Camera frames of 32 pixels; limits that drop them, scale them to 3/4 or  *)
(* 1/2, and pass them; two devices, so that a failed one is followed by     *)
(* another.                                                                 *)
EXTENDS CapturePipeline

CONSTANTS camera, encoder1, encoder2

MCThreads == {camera}
MCSizes == {<<8, 4>>, <<6, 3>>, <<4, 2>>}
MCRotations == {0}
MCEncoders == {encoder1, encoder2}
MCFull == <<8, 4>>
MCLimits == {0, 8, 18, 32}
==========================================================================
