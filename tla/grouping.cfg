SPECIFICATION GroupingSpec
CONSTANTS
  e1 = e1
  e2 = e2
  g1 = g1
  g2 = g2
  c1 = c1
  c2 = c2
  NoGroup = NoGroup
  Executions = {e1, e2}
  Groups = {g1, g2}
  Calls = {c1, c2}
  Retried = {e2}
  MaxCount = 2
INVARIANTS
  NeverUndercounts
  CountsExactly
  PrimaryIsTheFirst
  NewGroupsAreAnnounced
SYMMETRY Perms
