----------------------------- MODULE ReporterUnits -----------------------------
(***************************************************************************)
(* The unit in which cppmetrics::core::ScheduledReporter publishes rates:  *)
(* the factor its constructor derives from rate_unit, and the figures that *)
(* convertRateUnit and rateUnitInSec make of it.  Metrics give rates in    *)
(* events per second.                                                      *)
(***************************************************************************)
EXTENDS Naturals

CONSTANTS
    RateUnits,   \* units a reporter may be constructed with, in milliseconds
    Rates        \* rates of metrics

VARIABLES
    rate_unit,      \* the constructor's argument
    rate_factor_,
    published       \* the line printed last: a rate, its value, its unit

vars == <<rate_unit, rate_factor_, published>>

convertRateUnit(rate) == rate * rate_factor_
rateUnitInSec == rate_factor_

\* Two counts of milliseconds are divided as whole numbers.
Init ==
    /\ rate_unit \in RateUnits
    /\ rate_factor_ = 1000 \div rate_unit
    /\ published = [rate |-> 0, value |-> 0, seconds |-> rateUnitInSec]

Publish(rate) ==
    /\ published' = [rate    |-> rate,
                     value   |-> convertRateUnit(rate),
                     seconds |-> rateUnitInSec]
    /\ UNCHANGED <<rate_unit, rate_factor_>>

Next == \E rate \in Rates : Publish(rate)

Spec == Init /\ [][Next]_vars

-----------------------------------------------------------------------------
\* "rate_unit a unit of time used for publishing the rate metrics like meter"
\* (scheduled_reporter.h:71): what is published is the rate per such unit.
RatesArePerUnit == 1000 * published.value = published.rate * rate_unit
=============================================================================
