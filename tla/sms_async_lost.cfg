\* One request whose insert fails while the limiter is closed.
CONSTANTS
    NumSms = 1
    Nodes = {n1}
    RetryMax = 2
    MaxLost = 0
SPECIFICATION Spec
INVARIANT AcceptedIsStored
CHECK_DEADLOCK FALSE
