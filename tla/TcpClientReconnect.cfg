SPECIFICATION ClientSpec
CONSTANTS
  MaxSessions = 3
  MaxReconnectTimes = 2
  AppConnects = 2
PROPERTY AutoReconnects
CHECK_DEADLOCK FALSE
