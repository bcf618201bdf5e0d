SPECIFICATION Spec
CONSTANTS
  owner = owner
  bob = bob
  i1 = i1
  i2 = i2
  k1 = k1
  k2 = k2
  k3 = k3
  k4 = k4
  q1 = q1
  q2 = q2
  Users = {owner, bob}
  Owner = owner
  Invites = {i1}
  Keys = {k1, k2, k3}
  Requests = {q1, q2}
  TeamTier = TRUE
  FirstKeys = {owner}
  MaxErrors = 1
CHECK_DEADLOCK FALSE
INVARIANTS
  OneKeyPerInvite
  KeysGoWithTheMember
PROPERTIES
  LastAdminStays
  LastKeyStays
SYMMETRY Symmetry
