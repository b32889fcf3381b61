SPECIFICATION UsbSpec
CONSTANT MaxPlugs = 2
INVARIANT SoleReceiver
CHECK_DEADLOCK FALSE
