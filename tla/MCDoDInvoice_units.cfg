CONSTANTS
    None = None
    Units <- MCUnits
    UnitLen <- MCUnitLen
    Times <- MCTimes
    Nows <- MCNows
    Den <- MCDen
SPECIFICATION Spec
INVARIANT UnitBilledAdditive
