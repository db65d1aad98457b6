CONSTANT Modes <- AllModes
SPECIFICATION FairSpec
INVARIANTS NoOrphan EndsClean TunnelIsolated
PROPERTIES StartSettlesOnce LauncherEnds
CHECK_DEADLOCK FALSE
