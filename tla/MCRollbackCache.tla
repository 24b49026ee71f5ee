-------------------------- MODULE MCRollbackCache --------------------------
EXTENDS RollbackCache, TLC

CONSTANTS a1, a2, s1

MCAccounts == {a1, a2}
(* One confirmed send, from a1 to a2, still pending.                       *)
MCConfSends == {s1}
MCSendTo == s1 :> a2
MCSendFrom == s1 :> a1
(* Two timestamps: equal and increasing successors.                        *)
MCTimes == 0..1

====
