\* Two interfaces, up to two routes of two metrics, and one metric more.
CONSTANTS
    Names = {1, 2}
    Metrics = {0, 1}
    MaxInt = 2
    MaxRoutes = 2
SPECIFICATION Spec
INVARIANTS TypeOK IdentifiesNode AbsentOnlyWhenNone RefusesOnlyForNamed ProbeInv
\* The probe ends.
CHECK_DEADLOCK FALSE
