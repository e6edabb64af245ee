SPECIFICATION FairSpec
CONSTANTS
  NSubs = 2
  Retries = 3
  Refusals <- MCRefusals
  MaxMsgs = 2
  MaxPings = 2
INVARIANT
  TypeOK
INVARIANT
  PromptMeansSubscribed
INVARIANT
  HandledOnce
PROPERTY
  ChannelSpec
PROPERTY
  RunReturns
