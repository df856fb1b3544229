SPECIFICATION Spec
CONSTANTS
  c1 = c1  c2 = c2
  Kinds <- Every
  Channels <- TwoStreams
  Source = c1
  Values <- Levels
  Refused = 2
  MaxCommands <- Bounds
  MaxFailures = 1
INVARIANTS  OffWhenClosed SentWhileOpen
PROPERTIES CommandsSeen ShutdownEnds
