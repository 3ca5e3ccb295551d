SPECIFICATION ProbeSpec
CONSTANTS
  Unset = Unset
  s1 = s1 s2 = s2 t = t
  n1 = n1 n2 = n2 n3 = n3
  p1 = p1 p2 = p2 p3 = p3 p4 = p4
  AiShards <- TwoShards
  ShardNodes <- Split
  General = t
  Ports <- FourPorts
  Reserved = FALSE
  Working <- WorkingNodes
  MaxExits = 1
INVARIANT VerdictsAreOfTheNode
CHECK_DEADLOCK FALSE
