SPECIFICATION FairSpec
CONSTANTS
  Clients = {1}
  Songs = {a, b}
  Clear = Clear
  None = None
  Tokens = 1
  Window = 1
  Resend = 2
  MinBackoff = 1
  MaxBackoff = 2
  Rescan = 1
  SignedOutRetry = 1
  SignedOutTries = 1
  SignedOutGrace = 1
  RefusedRetry = 1
  RefusedForget = 1
  AllClients = {TRUE, FALSE}
  MaxEvents = 2
PROPERTIES
  LastWishIsShown
