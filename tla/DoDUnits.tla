------------------------------- MODULE DoDUnits -------------------------------
(***************************************************************************)
(* Billing units of the DoD settlement contract                             *)
(* (src/vm/contract/abi/abi_dod_settlement.go) and the arithmetic on them   *)
(* that does not loop: the fixed-length rounding of                        *)
(* DoDSettleBillingUnitRound and DoDSettleCalcBillingUnit.                 *)
(*                                                                         *)
(* Time is in abstract seconds; UnitLen gives each unit's length (scaled    *)
(* down).  AddDate on a calendar is abstracted to adding the unit's length *)
(* and time.Year() to whole multiples of the year's length: months of     *)
(* different lengths do not change what is checked.                       *)
(***************************************************************************)
EXTENDS Integers

CONSTANTS
    Units,     \* the billing units
    UnitLen    \* Units -> length in seconds

LoopUnits == {"Year", "Month"} \cap Units
FixedUnits == {"Week", "Day", "Hour", "Minute"} \cap Units

(* end = start.AddDate(1, 0, 0) or (0, 1, 0).                              *)
AddUnit(u, from) == from + UnitLen[u]

(* Mutant: rounding down, (t-s)/round*round.                               *)
RoundUpFloor(u, s0, t0) ==
    s0 + ((t0 - s0) \div UnitLen[u]) * UnitLen[u]

(* s + (t-s+round-1)/round*round, for t >= s.                              *)
RoundUp(u, s0, t0) ==
    s0 + ((t0 - s0 + UnitLen[u] - 1) \div UnitLen[u]) * UnitLen[u]

(* DoDSettleBillingUnitRound returns (its Year/Month loops end at once)    *)
(* exactly when the bound is at most one unit after s.                     *)
RoundTerminates(u, s0, t0) ==
    u \in LoopUnits /\ s0 # t0 => AddUnit(u, s0) >= t0

(* DoDSettleBillingUnitRound, on the arguments for which it returns.       *)
DoDSettleBillingUnitRound(u, s0, t0) ==
    CASE s0 = t0 -> s0
      [] u \in LoopUnits -> AddUnit(u, s0)
      [] u \in FixedUnits -> RoundUp(u, s0, t0)
      [] OTHER -> t0

(* DoDSettleCalcBillingUnit(unit, s0, e0).  Month counts AddDate steps    *)
(* until e0 - start <= 0, incrementing before the first test.            *)
RECURSIVE MonthCount(_, _, _)
MonthCount(from, e0, n) ==
    IF e0 - AddUnit("Month", from) <= 0 THEN n + 1
    ELSE MonthCount(AddUnit("Month", from), e0, n + 1)

(* Go's integer division truncates toward zero.                            *)
GoDiv(a, b) == IF a >= 0 THEN a \div b ELSE -((-a) \div b)

DoDSettleCalcBillingUnit(u, s0, e0) ==
    CASE u = "Year" -> (e0 \div UnitLen["Year"]) - (s0 \div UnitLen["Year"])
      [] u = "Month" -> MonthCount(s0, e0, 0)
      [] u \in FixedUnits -> GoDiv(e0 - s0, UnitLen[u])
      [] OTHER -> e0 - s0

====
