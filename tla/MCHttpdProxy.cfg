SPECIFICATION Spec
CONSTANTS
  Scenarios <- MCScenarios
  MAX_SEND_SIZE = 2
  CLIENT_ROOM = 2
  PEER_ROOM = 3
  Faults = {"peer", "client"}
INVARIANTS
  RepliesInOrder
  PeerIsInStep
PROPERTIES
  EveryTaskEnds
