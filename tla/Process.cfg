\* Every configuration and every start; two connections and three signals,
\* with and without a terminal, as PID 1 or not.
SPECIFICATION FairProcessSpec
CONSTANTS
    Connection = {c1, c2}
    MaxSignals = 3
INVARIANTS ProcessTypeOK ForceIsJustified DrainingDropsNothing
PROPERTIES SignalsEndProcess RunsAsConfigured OutageIsFailSoft ImplementsHttpService
CHECK_DEADLOCK FALSE
