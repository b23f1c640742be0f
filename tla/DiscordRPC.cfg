SPECIFICATION Spec
CONSTANTS
  Clients = {1, 2}
  Songs = {a, b}
  Clear = Clear
  None = None
  Tokens = 2
  Window = 2
  Resend = 2
  MinBackoff = 1
  MaxBackoff = 2
  Rescan = 1
  SignedOutRetry = 1
  SignedOutTries = 1
  SignedOutGrace = 1
  RefusedRetry = 1
  RefusedForget = 1
  AllClients = {TRUE, FALSE}
  MaxEvents = 2
INVARIANTS
  TypeOK
  RateKept
  CacheIsTrue
PROPERTIES
  HushedStaysQuiet
