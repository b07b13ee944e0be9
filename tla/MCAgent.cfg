\* One agent, two reads and one write in flight, two PINs, two mishaps.
CONSTANTS
  r1 = r1
  r2 = r2
  v1 = v1
  w1 = w1
  pin1 = pin1
  pin2 = pin2
  Reads <- TwoReads
  Writes <- OneWrite
  Values <- OneValue
  Pins <- TwoPins
  NoPin = NoPin
  NoValue = NoValue
  Torn = Torn
  Nobody = Nobody
  MaxTries = 2
  LiveLimit = 2
  ReadyLimit = 1
  MaxMishaps = 2
SPECIFICATION MCAgentSpec
INVARIANT AgentTypeOK
INVARIANT AckedWritesSurvive
 
PROPERTY ProvisionedTokenAcceptsLogin
PROPERTY LostTokenEndsReadiness
PROPERTY AgentComesBack
