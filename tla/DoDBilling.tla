------------------------------ MODULE DoDBilling ------------------------------
(***************************************************************************)
(* One call of DoDSettleBillingUnitRound(unit, s, t)                        *)
(* (src/vm/contract/abi/abi_dod_settlement.go) as a small state machine:   *)
(* the Year and Month cases are loops, and one iteration is one step.     *)
(***************************************************************************)
EXTENDS DoDUnits

CONSTANTS Times   \* values of s and t

VARIABLES
    unit, s, t,   \* the arguments
    end,          \* the local end; the result when pc = "done"
    pc            \* "call", "loop" (inside for { ... }) or "done"

vars == <<unit, s, t, end, pc>>

(* The call up to the loop: the s == t early return, the fixed-length      *)
(* units, Second and the default case, or entry into the loop.             *)
Call ==
    /\ pc = "call"
    /\ IF s # t /\ unit \in LoopUnits
       THEN pc' = "loop" /\ UNCHANGED end
       ELSE pc' = "done" /\ end' = DoDSettleBillingUnitRound(unit, s, t)
    /\ UNCHANGED <<unit, s, t>>

(* One iteration: end = start.AddDate(...), from a start the loop never   *)
(* reassigns; break when end is at or after to.                            *)
LoopIteration ==
    /\ pc = "loop"
    /\ end' = AddUnit(unit, s)
    /\ pc' = IF end' >= t THEN "done" ELSE "loop"
    /\ UNCHANGED <<unit, s, t>>

(* The bounds the invoice code passes: t at or after s (lines 764, 770).  *)
Init ==
    /\ unit \in Units
    /\ s \in Times
    /\ t \in {x \in Times : x >= s}
    /\ end = 0
    /\ pc = "call"

Next == Call \/ LoopIteration

(* The call runs on its goroutine to completion.                           *)
Spec == Init /\ [][Next]_vars /\ WF_vars(Call) /\ WF_vars(LoopIteration)

(* DoDSettleBillingUnitRound returns: the invoice computation that calls  *)
(* it (lines 765, 771) is not left looping for ever.                       *)
BillingRoundTerminates ==
    <>(pc = "done")

====
