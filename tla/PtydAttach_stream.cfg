SPECIFICATION FairSpec
CONSTANTS
  a = a
  b = b
  Nil = Nil
  Clients <- MCClients
  Web <- MCWeb
  Stalling <- MCStalling
  Tapes <- MCTapes
  MaxBuf = 2
  Window = 2
  SubBuffer = 1
  Room = 1
INVARIANTS StreamsSound
PROPERTIES ViewKept CleanReplay StreamsMove
CHECK_DEADLOCK FALSE
