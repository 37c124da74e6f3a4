SPECIFICATION TmccSpec
CONSTANTS
  TmccKinds = {"legacy", "tmcc1", "tmcc1 low", "legacy4", "multi", "multi4", "variable"}
  SplitKinds = {"legacy", "tmcc1"}
  TmccSends = 3
INVARIANTS
  CommandsComeOutWhole
CHECK_DEADLOCK FALSE
