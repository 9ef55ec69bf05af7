\* "the record is registered after OAuth", for one login of one account
CONSTANTS
  Flow = {1}
  Account = {g1}
  Name = {n1, n2}
  Unset = Unset
  Broken = Broken
  RenameLimit = 1
  LossLimit = 1
SPECIFICATION FlowSpec
INVARIANTS FreshTokenAccepted
\* the flow ends
CHECK_DEADLOCK FALSE
