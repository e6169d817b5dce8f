SPECIFICATION Spec
CONSTANTS
  Clients = {c1, c2, c3}
  Requests = {"GET /"}
  NoClient = NoClient
  MaxFd = 2
  MAXPENDING = 2
  MaxSegments = 1
INVARIANTS TypeOK ListExact HandlersHaveClients
PROPERTIES RequestsAreRead DescriptorsComeBack
CHECK_DEADLOCK FALSE
