SPECIFICATION FairSpec
CONSTANTS
  MaxAttempts = 2
  MaxTickers = 7
  MaxTrouble = 3
INVARIANTS
  SocketsAccounted
PROPERTIES
  RecoverySettles
  MuteSocketReplaced
  RejectionStops
