SPECIFICATION LocksSpec
INVARIANTS
  NoCircularWait
