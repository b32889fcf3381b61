SPECIFICATION FeedsSpec
CONSTANTS
  Slots = 4
  Wrap = 8
  Short = {s1}
  Long = {l1}
  ShortLen = 1
  LineMax = 2
  BatchMax = 4
  Torn = Torn
  Peers = {reader, slow, stuck}
  Readers = {reader}
  Stuck = {stuck}
  NoPeer = NoPeer
  MaxClients = 2
  StallLimit = 1
  Capacity = 1
  BatchLines = 1
  Backlog = 2
  Viewers = {reader, slow, stuck}
  Apps = {reader}
  Frozen = {stuck}
  NoViewer = NoViewer
  JsonClients = 2
  JsonStallLimit = 1
  Parts = 2
  SendBuf = 1
  Polls = 1
INVARIANTS NoTornLine EveryClientHasASlot LinesWhole
PROPERTIES ImplementsQueue GivenUpLate EverybodyAnswered
