\* Three peers for two slots, resets of both kinds at any step.
SPECIFICATION Spec
CONSTANTS
  mac = mac
  phone = phone
  tablet = tablet
  Peers = {mac, phone, tablet}
  Private = {phone, tablet}
  NoPeer = zero
  Rpa = rpa
  MaxBonds = 2
  WarmResets = TRUE
  MaxGen = 2
  MaxPairings = 4
  MaxUses = 4
SYMMETRY Symmetry
INVARIANTS TypeOK BondSurvives SlotsWhole LinkHasItsBond
PROPERTIES EvictsOldest
CHECK_DEADLOCK FALSE
