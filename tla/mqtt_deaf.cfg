SPECIFICATION Spec
CONSTANTS
  NSubs = 2
  Retries = 3
  Refusals <- MCRefusals
  MaxMsgs = 2
  MaxPings = 2
INVARIANT
  RunHearsAllFeeds
