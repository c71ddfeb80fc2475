SPECIFICATION TransportSpec
CONSTANT MaxSockets = 2
INVARIANT OpenIsConnected
CHECK_DEADLOCK FALSE
