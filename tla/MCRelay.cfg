SPECIFICATION MCSpec
CONSTANTS
  Accounts = {a1, a2}
  Elsewhere = {a2}
  Handlers = {h1, h2}
  MaxCreds = 2
  MaxLogins = 2
  MaxRestarts = 1
  MaxFails = 1
  MaxActs = 4
  MaxOut = 3
CHECK_DEADLOCK FALSE
INVARIANTS
  UnlinkCondemns
PROPERTIES
  RevocationsAreDone
  LeaseComesBack
