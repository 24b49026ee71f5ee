------------------------------ MODULE MCDoDStore ------------------------------
(* Model-checking instance of DoDStore for the buyer invoice.               *)
EXTENDS DoDStore, TLC

CONSTANTS b1, b2, s1, s2, o1, o2, p1, p2

MCBuyers == {b1, b2}
MCSellers == {s1, s2}
MCOrderIds == {o1, o2}
MCProductIds == {p1, p2}
MCTimes == 0..2

====
