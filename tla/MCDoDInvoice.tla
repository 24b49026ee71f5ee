--------------------------- MODULE MCDoDInvoice ---------------------------
EXTENDS DoDInvoice

MCUnits == {"Year", "Month", "Day", "Second"}
(* Lengths scaled down but ordered as on the calendar.                     *)
MCUnitLen == [u \in MCUnits |->
                CASE u = "Year" -> 6 [] u = "Month" -> 4 [] u = "Day" -> 2
                  [] u = "Second" -> 1]
MCTimes == 0..6
(* time.Now() inside and after the periods.                                *)
MCNows == {3, 6}
(* Every period length is in 1..6.                                         *)
MCDen == 60

====
