SPECIFICATION Spec
CONSTANTS
  Callers = {setup, recover}
  NoOne = NoOne
  NoRequest = NoRequest
  Failed = Failed
  MaxCalls = 3
INVARIANT OwnReply
CHECK_DEADLOCK FALSE
