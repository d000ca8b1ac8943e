SPECIFICATION Spec
CONSTANTS
  None = None
  p1 = p1  s1 = s1  s2 = s2  k1 = k1  k2 = k2
  m1 = m1  boot1 = boot1  boot2 = boot2
  unit1 = unit1  mark1 = mark1
  Pools = {p1}
  Executors <- MCTwoSessions
  Keys = {k1, k2}
  Lanes = {}
  Sources = {"gateway"}
  Units = {unit1}
  Marks = {mark1}
  I64Max = 2
  MaxRows = 2
  Usages = {"known"}
  Amounts = {1, 2}
  Caps = {2, 3}
  TTLs = {1}
  Gates <- MCGates
  Prompts = {m1}
  Readings <- MCFewReadings
  Boots = {boot1, boot2}
  BootOf <- MCBootOf
  MaxTime = 1
INVARIANTS
  TypeOK
  NoOversubscription
  KeyNamesOneRow
PROPERTIES
  RowHistory
SYMMETRY MCSessions
