SPECIFICATION MCFleetSpec
CONSTANTS
  n1 = n1
  n2 = n2
  s1 = s1
  s2 = s2
  p1 = p1
  Nodes <- TwoNodes
  Serials <- TwoSerials
  Paths <- OnePath
  MaxDevices = 0
  EventBuffer = 1
  Grace = 1
  MaxMishaps = 2
 
PROPERTY GraceIsHonoured
 
PROPERTY AgentsFollowReports
PROPERTY OrphansGoAway
CHECK_DEADLOCK FALSE
