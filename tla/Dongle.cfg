SPECIFICATION DongleSpec
CONSTANTS
  Callers = {setup, recover}
  NoOne = NoOne
  NoRequest = NoRequest
  Failed = Failed
  MaxCalls = 3
  Sticks <- SomeSticks
  Freqs = {137000, 868000, 1090000}
  Gains = {7, 9}
  Fuse <- EveryTransfer
  MaxPlugs = 2
   
PROPERTIES MuxComesBack PlugAndQuit
CHECK_DEADLOCK FALSE
