\* The units half a second, a second and a minute.
CONSTANTS
    RateUnits = {500, 1000, 60000}
    Rates = {0, 1, 3}
SPECIFICATION Spec
INVARIANTS
    RatesArePerUnit
