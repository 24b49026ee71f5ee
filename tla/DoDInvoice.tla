------------------------------ MODULE DoDInvoice ------------------------------
(***************************************************************************)
(* The invoice of one DoD connection (DoDSettleCalcConnInvoice in          *)
(* src/vm/contract/abi/abi_dod_settlement.go, with DoDSettleNeedInvoice    *)
(* and DoDSettleCalcAmount), as the product invoice computes it (order =   *)
(* nil).  A connection is one parameter period (a Done entry, or the      *)
(* Active one it appends) and an optional disconnect fee.  DoD usage is   *)
(* billed pro rata (float in the code, an exact multiple of 1/Den here);  *)
(* other billing is by whole units.  The input is fixed in Init: the       *)
(* connection, three window bounds t0 < t1 < t2, the flight and split      *)
(* flags and the clock.                                                    *)
(***************************************************************************)
EXTENDS DoDUnits

CONSTANTS
    Times,    \* time values
    Nows,     \* values of time.Now()
    Den,      \* a common multiple of every period length: amounts are in 1/Den
    None

VARIABLES conn, disc, t0, t1, t2, flight, split, now

vars == <<conn, disc, t0, t1, t2, flight, split, now>>

Params ==
    [billing : {"DOD"}, unit : {"Second"}, price : {0}, addition : {1},
     st : Times, et : Times] \cup
    [billing : {"PAYG"}, unit : Units, price : {1}, addition : {0},
     st : Times \ {0}, et : Times]

Max2(a, b) == IF a > b THEN a ELSE b
Min2(a, b) == IF a < b THEN a ELSE b

(* The period and the billing window overlap, or usage starts at the      *)
(* window's end.                                                           *)
DoDSettleNeedInvoice(bs, be, s, e) ==
    Min2(e, be) - Max2(s, bs) > 0 \/ bs = e

(* Mutant: the window is not clamped to the period.                        *)
DoDSettleCalcAmountNoClamp(bs, be, s, e, price) ==
    (e - s) * price * (Den \div (be - bs))

(* float64(ce-cs) * price / float64(be-bs), in units of 1/Den.             *)
DoDSettleCalcAmount(bs, be, s, e, price) ==
    (Min2(e, be) - Max2(s, bs)) * price * (Den \div (be - bs))

(* The amount one period contributes to the invoice for [start, end].      *)
UsageAmount(p, start, end) ==
    LET de == IF p.et = 0 THEN end ELSE p.et
        e2 == IF p.et = 0 THEN end ELSE p.et   \* done.EndTime = end
        invStart == IF start >= p.st THEN DoDSettleBillingUnitRound(p.unit, p.st, start) ELSE p.st
        invEnd == IF end <= e2 THEN DoDSettleBillingUnitRound(p.unit, p.st, end) ELSE e2
    IN CASE ~DoDSettleNeedInvoice(p.st, de, start, end) -> 0
         [] p.billing = "DOD" /\ flight /\ split ->
                DoDSettleCalcAmount(p.st, p.et, start, end, p.addition)
         [] p.billing = "DOD" /\ flight ->
                IF p.st >= start THEN p.addition * Den ELSE 0
         [] p.billing = "DOD" ->
                IF now >= p.et THEN DoDSettleCalcAmount(p.st, p.et, start, end, p.addition) ELSE 0
         [] p.st = 0 -> 0
         [] p.et = 0 /\ ~(flight /\ split) -> 0
         [] split ->
                p.price * DoDSettleCalcBillingUnit(p.unit, invStart, invEnd) * Den
         [] OTHER ->
                IF p.st >= start /\ p.st < end
                THEN p.price * DoDSettleCalcBillingUnit(p.unit, p.st, e2) * Den ELSE 0

(* The disconnect fee, when the disconnection falls in [start, end).       *)
DisconnectFee(d, start, end) ==
    IF d # None /\ (d.at = start \/ (d.at > start /\ d.at < end)) THEN d.price * Den ELSE 0

(* ConnectionAmount of DoDSettleCalcConnInvoice.                           *)
DoDSettleCalcConnInvoice(p, d, start, end) ==
    UsageAmount(p, start, end) + DisconnectFee(d, start, end)

(* Every DoDSettleBillingUnitRound the three invoices may call returns    *)
(* (the looping case is the subject of DoDBilling).                       *)
Returns(p) == \A x \in {t0, t1, t2} : x < p.st \/ RoundTerminates(p.unit, p.st, x)

Init ==
    /\ conn \in {p \in Params : p.billing = "DOD" => p.st < p.et}
    /\ disc \in {None} \cup [at : Times, price : {1}]
    /\ t0 \in Times /\ t1 \in {x \in Times : x > t0} /\ t2 \in {x \in Times : x > t1}
    /\ flight \in BOOLEAN /\ split \in BOOLEAN
    /\ now \in Nows
    /\ Returns(conn)

Next == UNCHANGED vars

Spec == Init /\ [][Next]_vars

-----------------------------------------------------------------------------

Invoice(start, end) == DoDSettleCalcConnInvoice(conn, disc, start, end)

(* The reference rounding: the first bound st + k * UnitLen[unit] at or   *)
(* after x.                                                                *)
RoundRef(u, st, x) ==
    LET bounds == {st + k * UnitLen[u] : k \in 0..(x - st)}
    IN CHOOSE y \in bounds : y >= x /\ \A z \in bounds : z >= x => y <= z

(* Each window bound of a unit-billed period, when it is rounded, rounds  *)
(* to the first whole-unit boundary from the period's start at or after   *)
(* it, for every unit.                                                     *)
RoundMatchesReference ==
    \A x \in {t0, t1, t2} :
        x >= conn.st /\ RoundTerminates(conn.unit, conn.st, x)
            => DoDSettleBillingUnitRound(conn.unit, conn.st, x) = RoundRef(conn.unit, conn.st, x)

(* Split invoicing of DoD usage adds up: with split set, the invoices for  *)
(* two adjacent windows total the invoice for their union, in flight and  *)
(* settled mode, with or without a disconnection, so no usage or fee is   *)
(* billed twice or lost at the shared bound.                               *)
DoDUsageAdditive ==
    conn.billing = "DOD" /\ split => Invoice(t0, t1) + Invoice(t1, t2) = Invoice(t0, t2)

(* The same for unit-billed periods: with split set, the invoices for two  *)
(* adjacent windows total the invoice for their union.                     *)
UnitBilledAdditive ==
    conn.billing = "PAYG" /\ split => Invoice(t0, t1) + Invoice(t1, t2) = Invoice(t0, t2)

====
