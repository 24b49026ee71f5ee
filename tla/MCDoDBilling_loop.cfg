CONSTANTS
    Units <- MCUnits
    UnitLen <- MCUnitLen
    Times <- MCTimes
SPECIFICATION Spec
PROPERTY BillingRoundTerminates
CHECK_DEADLOCK FALSE
