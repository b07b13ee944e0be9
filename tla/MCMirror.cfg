SPECIFICATION MirrorSpec
CONSTANTS
  r1 = r1
  r2 = r2
  NoTrigger = NoTrigger
  Triggers <- TwoTriggers
  Forced <- OneForced
  ChanCap = 1
  MaxMishaps = 3
INVARIANT MirrorTypeOK
INVARIANT NoStrandedEvents
 
