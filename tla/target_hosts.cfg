SPECIFICATION Spec
CONSTANT MaxFailures = 0
INVARIANT HostsNamed
