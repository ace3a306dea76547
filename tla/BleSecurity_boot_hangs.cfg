\* A warm reset strikes while a slot is written.
SPECIFICATION Spec
CONSTANTS
  mac = mac
  phone = phone
  tablet = tablet
  Peers = {mac}
  Private = {}
  NoPeer = zero
  Rpa = rpa
  MaxBonds = 1
  WarmResets = TRUE
  MaxGen = 1
  MaxPairings = 1
  MaxUses = 2
INVARIANTS WarmBootRuns
CHECK_DEADLOCK FALSE
