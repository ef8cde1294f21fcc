SPECIFICATION HttpSpec
CONSTANTS
  None = None
  Servers <- MCServers
  Requests <- MCRequests
  Replies <- MCReplies
  TraceHeaders = {"traceparent"}
INVARIANTS
  RequestIsCarried
  AcceptedRoutesAreExclusive
  MappedHeadersAreEmitted
CHECK_DEADLOCK FALSE
