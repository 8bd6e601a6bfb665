SPECIFICATION Spec
CONSTANT MaxFailures = 3
INVARIANTS TypeOK ConsoleReady
PROPERTY OwnEntriesStay
