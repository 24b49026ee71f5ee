---------------------------- MODULE MCOnlineReps ----------------------------
(* One local and one remote representative, the 5-minute timeout and the   *)
(* 2-minute interval, over 6 minutes: goroutines at minutes 2, 4 and 6,    *)
(* the first entries expiring within the bound.                           *)
EXTENDS OnlineReps

CONSTANTS l1, r1
====
