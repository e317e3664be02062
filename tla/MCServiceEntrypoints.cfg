SPECIFICATION EntrypointSpec
INVARIANTS EventsAreTruthful NothingServesEarly EndsOnce
CHECK_DEADLOCK FALSE
