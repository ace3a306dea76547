\* A bonded peer connects and fails to encrypt.
SPECIFICATION Spec
CONSTANTS
  mac = mac
  phone = phone
  tablet = tablet
  Peers = {mac}
  Private = {}
  NoPeer = zero
  Rpa = rpa
  MaxBonds = 1
  WarmResets = FALSE
  MaxGen = 1
  MaxPairings = 1
  MaxUses = 2
PROPERTIES EncryptFailureClears
CHECK_DEADLOCK FALSE
