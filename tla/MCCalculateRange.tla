-------------------------- MODULE MCCalculateRange --------------------------
EXTENDS CalculateRange

MCSizes == 0..4
(* Counts well below the int range: the paging the callers intend.         *)
MCCounts == -1..5
(* Any count an RPC client may send, down to the least and up to the      *)
(* largest int.                                                            *)
MCAllCounts == GoInt

====
