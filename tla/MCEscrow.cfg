SPECIFICATION EscrowSpec
CONSTANTS
  fay = fay
  gil = gil
  bid = bid
  aud = aud
  own = own
  m1 = m1
  m2 = m2
  CT = CT
  Token = Token
  Holder = Holder
  Zero = Zero
  Owner = own
  Bidder = bid
  Auditor = aud
  User = {fay, gil, bid, aud, own}
  Address = {fay, gil, bid, aud, own, CT, Token, Holder, Zero}
  Funder = {fay, gil}
  AuditorSession = {bid, aud}
  Spender = {}
  MaxUint = 9
  Condition = {m1, m2}
  Oracle <- OracleIsHolder
  MilestoneOne = m1
  Budget <- UnitBudget
  Slot = {1, 2}
  Unprepared = Unprepared
  Amount = {1}
  Report = {}
  MaxSupply = 2
  MaxStake = 2
  MaxRedeem = 1
  MaxTokens = 2
  WalletMayRefuse = TRUE
SYMMETRY FunderSymmetry
INVARIANTS
    EscrowConsistent
CHECK_DEADLOCK FALSE
