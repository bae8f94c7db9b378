CONSTANTS
  Songs <- MCSongs
  Flags <- MCFlags
  Sessions <- MCSessions
  Numbers <- MCNumbers
  Speeches <- MCSpeeches
  Positions <- MCPositions
  Frames = 2
  MaxPackets = 2
SPECIFICATION VoiceSpec
INVARIANTS SongInOrder LateMarkOnly PlayedExact RelayedExact
CHECK_DEADLOCK FALSE
