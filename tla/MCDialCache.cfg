SPECIFICATION DialSpec
CONSTANTS
  Flags <- MCNoFlags
  Faults = {}
  Dials = {1, 2}
  Asked <- MCAsked
  ConnectMap <- MCConnectMap
  HostIPs <- MCTwoOfAFamily
INVARIANTS PicksFromAnswer
