SPECIFICATION AtSpec
CONSTANTS
  t1 = t1  plan1 = plan1  session = session  agent = agent  k1 = k1  k2 = k2
  None = None
  Tasks = {t1}
  Plans = {plan1}
  Keys = {k1, k2}
  Policies <- MCPolicies
  Amounts = {1, 2}
  Reserves = {1}
  TTLs = {1, 2}
  MaxRows = 3
  MaxTime = 1
  Children = {session, agent}
  ParentOf <- MCParentOf
  Payers <- MCPayers
  RenewalAmounts = {1}
  MaxRenewals = 1
  LifetimeCeiling = 2
INVARIANTS
  LapseTogether
  AdmissionsBacked
SYMMETRY MCSymmetry
