--------------------------- MODULE MCDoDBilling ---------------------------
EXTENDS DoDBilling

MCUnits == {"Year", "Month", "Week", "Day", "Hour", "Minute", "Second"}
(* Lengths scaled down but ordered as on the calendar.                     *)
MCUnitLen == [u \in MCUnits |->
                CASE u = "Year" -> 12 [] u = "Month" -> 6 [] u = "Week" -> 5
                  [] u = "Day" -> 4 [] u = "Hour" -> 3 [] u = "Minute" -> 2
                  [] u = "Second" -> 1]
(* Bounds up to more than a year after the start.                          *)
MCTimes == 0..14

====
