SPECIFICATION ContractsSpec
CONSTANTS
  ann = ann
  ben = ben
  carol = carol
  p1 = p1
  p2 = p2
  s1 = s1
  s2 = s2
  t1 = t1
  u1 = u1
  Party = {ann, ben}
  Auditors = {carol}
  NoAddress = NoAddress
  Name = {p1}
  Symbol = {s1}
  Timelines = {t1}
  Budgets = {u1}
  NoTerms = NoTerms
  MaxBids = 2
  alice = alice
  bob = bob
  c1 = c1
  CT = CT
  Address = {alice, bob, CT}
  User = {alice, bob}
  MaxUint = 9
  Condition = {c1}
  Oracle <- OracleIsAlice
  Slot = {1, 2, 3}
  Unprepared = Unprepared
  Amount = {1}
  Report <- Uneven
  Spender = {CT}
  MaxSupply = 2
  MaxStake = 2
  MaxRedeem = 2
INVARIANTS OwnerTermsAreBidderTerms
CHECK_DEADLOCK FALSE
