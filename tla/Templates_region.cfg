SPECIFICATION BossletSpec
CONSTANTS
    AllZones = {"a", "b", "c"}
    FirstZones = {"a", "b"}
    Limited = {"b", "c"}
    MaxTroubles = 2
    MaxLeaves = 1
INVARIANTS BossletTypeOK CanBeCreated LookupsFind NamesAreUnique
PROPERTIES DataIsKept OthersAreLeftAlone
\* All stacks are there and there is no trouble left.
CHECK_DEADLOCK FALSE
