SPECIFICATION Spec
CONSTANTS
  first = first
  second = second
  other = other
  NoClient = NoClient
  Clients = {first, second, other}
  Endpoints = {"host", "other host"}
  EndpointOf <- MCEndpointOf
  MaxLines <- MCMaxLines
  MaxUnasked = 1
  MaxAnswers = 2
  MaxEnds = 1
INVARIANTS
  TypeOK
  OnlyARestartBreaksIt
  AnswersInStep
  AnswersGoForward
PROPERTIES
  ConnectingEnds
  WaitEnds
CHECK_DEADLOCK FALSE
