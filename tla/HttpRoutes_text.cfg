SPECIFICATION HttpSpec
CONSTANTS
  None = None
  Servers <- MCServers
  Requests <- MCRequests
  Replies <- MCReplies
  TraceHeaders = {"traceparent"}
INVARIANTS
  PlainTextIsPassedThrough
CHECK_DEADLOCK FALSE
