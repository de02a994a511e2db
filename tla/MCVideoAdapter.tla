-------------------------- MODULE MCVideoAdapter --------------------------
(* Cameras of several shapes; requests that drop, limit and aim at pixel    *)
(* counts around the factors of the series, and rates with long and short   *)
(* intervals: 4, 2 and 1 ticks, and none.                                   *)
EXTENDS VideoAdapter

MCInSizes == {<<16, 9>>, <<20, 20>>, <<13, 7>>}
MCPixelRequests == [target : {NoTarget, 20, 39, 120, 300}, max : {38, 100, 200}, fps : {MaxInt}]
MCRateRequests == [target : {NoTarget}, max : {MaxInt}, fps : {0, 1, 2, 3}]
MCRequests == MCPixelRequests \cup MCRateRequests
                \cup {[target |-> NoTarget, max |-> 0, fps |-> 2]}
===========================================================================
