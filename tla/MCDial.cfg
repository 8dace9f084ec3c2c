SPECIFICATION DialSpec
CONSTANTS
  Flags <- MCFlags
  Faults = {"rate", "targets", "output", "tls", "exporter"}
  Dials = {1, 2}
  Asked <- MCAsked
  ConnectMap <- MCConnectMap
  HostIPs <- MCHostIPs
INVARIANTS SetUpSound RightAddress DialResult
PROPERTIES DialEnds RefreshEnds
